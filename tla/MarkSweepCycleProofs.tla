------------------------ MODULE MarkSweepCycleProofs ------------------------
(***************************************************************************)
(* The two locks, the coordinator and the pauses of MarkSweepCycle, for    *)
(* any number of threads and any heap.  No thread executes the GC          *)
(* instruction: with it the properties are false, and the run              *)
(* ms_gc_instruction shows what then happens.                              *)
(***************************************************************************)
EXTENDS MarkSweepCycle, TLAPS

----------------------------------------------------------------------------
(* The inductive invariant.                                                *)

Pausing == {"pause1", "pause2"}
Moves   == {"fallback", "last"}         \* what calls gc() without the GC instruction
Shaking == {"raise", "lock", "flag", "scan", "work", "lower", "clear", "unlock"}
Waiting == {"park", "unpark", "parked"}
Others  == {"top", "instr", "alloc", "try", "slow", "spin", "retry",
            "ms_collect", "ms_raise", "ms_wait", "ms_relock", "ms_lower", "ms_begin",
            "trace", "ms_lock", "judge", "resume", "end"}

Points  == Shaking \cup Waiting \cup Others \cup {"gc", "reinit"}
Reasons == Pausing \cup Moves \cup {"instr", "try"}

Types ==
    /\ pc \in [Threads -> Points] /\ task \in [Threads -> Reasons]
    /\ gc_ready \subseteq Threads
    /\ gc_lock \in Threads \cup {None} /\ alloc_lock \in Threads \cup {None}
    /\ scan \in 0 .. ThreadCount

\* What a handshake, a wait or a call of gc() is for.
Purpose == \A t \in Threads :
    /\ pc[t] \in Shaking => task[t] \in Pausing \cup Moves
    /\ pc[t] \in {"gc", "reinit"} => task[t] \in Moves
    /\ pc[t] \in Waiting => task[t] \in {"instr", "try"}

\* The program points inside alloc_lock.
HoldsAlloc(t) ==
    \/ pc[t] \in {"slow", "retry", "ms_collect", "ms_begin", "ms_lower", "judge", "resume", "end"}
    \/ pc[t] \in Shaking \cup {"gc", "reinit"} /\ task[t] \in Moves

\* The program points inside gc_lock: gc() moves objects without it in a cycle.
HoldsGc(t) ==
    \/ pc[t] \in {"unpark", "parked", "flag", "scan", "lower", "clear", "unlock"}
    \/ pc[t] = "work" /\ ~ (Copying(t) /\ gc_concurrent_in_progress)

Owners == \A t \in Threads :
    (alloc_lock = t <=> HoldsAlloc(t)) /\ (gc_lock = t <=> HoldsGc(t))

\* The thread whose cycle it is, its collections by copying apart.
Coordinates(t) ==
    \/ pc[t] \in {"ms_begin", "trace", "ms_lock", "judge", "end"}
    \/ pc[t] \in Shaking /\ task[t] \in Pausing

\* Only the coordinator's cycle is in progress; nothing else is while gc() makes a
\* handshake, because its caller holds alloc_lock.
OneCycle ==
    /\ \A t, u \in Threads : Coordinates(t) /\ Coordinates(u) => t = u
    /\ \A t \in Threads : Coordinates(t) => gc_concurrent_in_progress
    /\ \A t \in Threads :
          \/ pc[t] = "resume"
          \/ pc[t] \in Shaking \ {"work"} /\ task[t] \in Moves
          \/ pc[t] \in {"gc", "work", "reinit"} /\ task[t] = "fallback"
          => ~ gc_concurrent_in_progress

\* Where a raised flag may be.
Flags == \A t \in Threads : t \in gc_ready =>
    pc[t] \in Parked \cup {"unpark", "flag", "scan", "lower"} \/ (pc[t] = "work" /\ gc_lock = t)

\* A thread that was parked when a pause counted it and has lowered its flag since.
Late(u) == alloc_lock = u /\ (pc[u] \in {"ms_lower", "retry"} \/ pc[u] \in {"gc", "work", "reinit"})

\* What the scan of t has found of u, and what u may have done since.
Seen(t, u) == pc[u] \in Parked \/ (~ Copying(t) /\ (pc[u] = "top" \/ Late(u)))

Scanning == \A t \in Threads :
    pc[t] \in {"scan", "work"} /\ gc_lock = t =>
        /\ gc_pending /\ (pc[t] = "work" => scan = ThreadCount)
        /\ \A u \in Threads : u # t /\ u < scan => Seen(t, u)

IInv == Types /\ Purpose /\ Owners /\ OneCycle /\ Flags /\ Scanning

----------------------------------------------------------------------------
(* Types and purposes.                                                     *)

\* A step of t moves nobody else.
LEMMA StepIsLocal ==
  ASSUME Types, NEW t \in Threads, ThreadStep(t)
  PROVE  \A u \in Threads : u # t => pc'[u] = pc[u] /\ task'[u] = task[u]
  <1> USE DEF Types, Step, Goto, Shake, Park
  <1>1. CASE Poll(t) \/ Execute(t) \/ WaitForGc(t)
    BY <1>1 DEF Poll, Execute, WaitForGc
  <1>2. CASE AllocTlab(t) \/ TryAllocLock(t) \/ SpinAllocLock(t) \/ AllocSlow(t)
    BY <1>2 DEF AllocTlab, TryAllocLock, SpinAllocLock, AllocSlow
  <1>3. CASE LeaveLock(t) \/ RaiseForWait(t) \/ MsWaitConcurrentGc(t)
    BY <1>3 DEF LeaveLock, RaiseForWait, MsWaitConcurrentGc
  <1>4. CASE BeginCycle(t) \/ TraceConcurrent(t) \/ FallBack(t) \/ EndCycle(t)
    BY <1>4 DEF BeginCycle, TraceConcurrent, FallBack, EndCycle
  <1>5. CASE EnterGc(t) \/ RequestPause(t) \/ ScanReady(t)
    BY <1>5 DEF EnterGc, RequestPause, ScanReady
  <1>6. CASE Work(t) \/ Release(t) \/ MsReinit(t)
    BY <1>6 DEF Work, Release, MsReinit
  <1> QED
    BY <1>1, <1>2, <1>3, <1>4, <1>5, <1>6 DEF ThreadStep

\* Every program point and every task, for the provers to look up.
LEMMA Labels ==
  /\ {"raise", "lock", "flag", "scan", "work", "lower", "clear", "unlock", "park",
      "unpark", "parked", "top", "instr", "alloc", "try", "slow", "spin", "retry",
      "ms_collect", "ms_raise", "ms_wait", "ms_relock", "ms_lower", "ms_begin", "trace",
      "ms_lock", "judge", "resume", "end", "gc", "reinit"} = Points
  /\ {"pause1", "pause2", "fallback", "last", "instr", "try"} = Reasons
  BY DEF Points, Shaking, Waiting, Others, Reasons, Pausing, Moves

\* The initial state.
LEMMA InitTypes == Init => Types /\ Purpose
  <1> SUFFICES ASSUME Init PROVE Types /\ Purpose
    OBVIOUS
  <1>1. 0 \in 0 .. ThreadCount
    BY CycleAssumption
  <1>2. Types
    BY <1>1, Labels DEF Init, Types
  <1>3. Purpose
    BY DEF Init, Purpose, Shaking, Waiting
  <1> QED
    BY <1>2, <1>3

\* Every step keeps the types.
LEMMA StepTypes ==
  ASSUME Collectors = {}, Types, Purpose, NEW t \in Threads, ThreadStep(t)
  PROVE  Types'
  <1> USE Labels
      DEF Types, Step, Goto, Shake, Park, Raise, Lower, LockAlloc, UnlockAlloc, shake, locks
  <1>1. CASE Poll(t) \/ Execute(t)
    BY <1>1 DEF Poll, Execute
  <1>2. CASE WaitForGc(t)
    BY <1>2 DEF WaitForGc, Purpose, Waiting
  <1>3. CASE AllocTlab(t) \/ TryAllocLock(t) \/ SpinAllocLock(t)
    BY <1>3 DEF AllocTlab, TryAllocLock, SpinAllocLock
  <1>4. CASE AllocSlow(t)
    BY <1>4 DEF AllocSlow
  <1>5. CASE LeaveLock(t) \/ RaiseForWait(t) \/ MsWaitConcurrentGc(t)
    BY <1>5 DEF LeaveLock, RaiseForWait, MsWaitConcurrentGc
  <1>6. CASE BeginCycle(t) \/ TraceConcurrent(t) \/ FallBack(t) \/ EndCycle(t)
    BY <1>6 DEF BeginCycle, TraceConcurrent, FallBack, EndCycle
  <1>7. CASE EnterGc(t)
    BY <1>7 DEF EnterGc
  <1>8. CASE RequestPause(t)
    <2>1. 0 \in 0 .. ThreadCount
      BY CycleAssumption
    <2> QED
      BY <1>8, <2>1 DEF RequestPause
  <1>9. CASE ScanReady(t)
    <2>1. scan' \in 0 .. ThreadCount
      BY <1>9, CycleAssumption DEF ScanReady
    <2> QED
      BY <1>9, <2>1 DEF ScanReady
  <1>10. CASE Work(t)
    BY <1>10 DEF Work, ReleaseNext
  <1>11. CASE Release(t)
    <2>1. 0 \in 0 .. ThreadCount
      BY CycleAssumption
    <2> QED
      BY <1>11, <2>1 DEF Release, After
  <1>12. CASE MsReinit(t)
    BY <1>12 DEF MsReinit
  <1> QED
    BY <1>1, <1>2, <1>3, <1>4, <1>5, <1>6, <1>7, <1>8, <1>9, <1>10, <1>11, <1>12
       DEF ThreadStep

\* Every step keeps a thread to the pause that it is in.
LEMMA StepPurpose ==
  ASSUME Collectors = {}, Types, Purpose, NEW t \in Threads, ThreadStep(t)
  PROVE  Purpose'
  <1> USE DEF Types, Purpose, Pausing, Moves, Shaking, Waiting, Step, Goto, Shake, Park
  <1> SUFFICES /\ pc'[t] \in Shaking => task'[t] \in Pausing \cup Moves
               /\ pc'[t] \in {"gc", "reinit"} => task'[t] \in Moves
               /\ pc'[t] \in Waiting => task'[t] \in {"instr", "try"}
    BY StepIsLocal
  <1>1. CASE Poll(t) \/ Execute(t) \/ WaitForGc(t)
    BY <1>1 DEF Poll, Execute, WaitForGc
  <1>2. CASE AllocTlab(t) \/ TryAllocLock(t) \/ SpinAllocLock(t)
    BY <1>2 DEF AllocTlab, TryAllocLock, SpinAllocLock
  <1>3. CASE AllocSlow(t)
    BY <1>3 DEF AllocSlow
  <1>4. CASE LeaveLock(t) \/ RaiseForWait(t) \/ MsWaitConcurrentGc(t)
    BY <1>4 DEF LeaveLock, RaiseForWait, MsWaitConcurrentGc
  <1>5. CASE BeginCycle(t) \/ TraceConcurrent(t) \/ FallBack(t) \/ EndCycle(t)
    BY <1>5 DEF BeginCycle, TraceConcurrent, FallBack, EndCycle
  <1>6. CASE EnterGc(t) \/ RequestPause(t) \/ ScanReady(t)
    BY <1>6 DEF EnterGc, RequestPause, ScanReady
  <1>7. CASE Work(t)
    BY <1>7 DEF Work, ReleaseNext, Copying
  <1>8. CASE Release(t)
    BY <1>8 DEF Release, After
  <1>9. CASE MsReinit(t)
    BY <1>9 DEF MsReinit
  <1> QED
    BY <1>1, <1>2, <1>3, <1>4, <1>5, <1>6, <1>7, <1>8, <1>9 DEF ThreadStep

----------------------------------------------------------------------------
(* The locks and the cycle.                                                *)

\* Only its owner touches a lock, and only the owner of alloc_lock begins or ends
\* a cycle: what another thread holds it keeps.
LEMMA StepKeepsOthers ==
  ASSUME Types, Owners, NEW t \in Threads, ThreadStep(t)
  PROVE  \A u \in Threads : u # t =>
           /\ (alloc_lock' = u <=> alloc_lock = u) /\ (gc_lock' = u <=> gc_lock = u)
           /\ alloc_lock = u => UNCHANGED gc_concurrent_in_progress
           /\ gc_lock = u => UNCHANGED <<gc_pending, scan>>
  <1> USE DEF Types, Owners, HoldsAlloc, HoldsGc, Step, Shake, Goto, LockAlloc, UnlockAlloc,
              Park, Raise, Lower, shake, locks
  <1> SUFFICES ASSUME NEW u \in Threads, u # t
               PROVE  /\ (alloc_lock' = u <=> alloc_lock = u) /\ (gc_lock' = u <=> gc_lock = u)
                      /\ alloc_lock = u => UNCHANGED gc_concurrent_in_progress
                      /\ gc_lock = u => UNCHANGED <<gc_pending, scan>>
    OBVIOUS
  <1> t # None /\ u # None
    BY DEF Threads, None
  <1>1. CASE Poll(t) \/ Execute(t) \/ WaitForGc(t)
    BY <1>1 DEF Poll, Execute, WaitForGc
  <1>2. CASE AllocTlab(t) \/ TryAllocLock(t) \/ SpinAllocLock(t)
    BY <1>2 DEF AllocTlab, TryAllocLock, SpinAllocLock
  <1>3. CASE AllocSlow(t)
    BY <1>3 DEF AllocSlow
  <1>4. CASE LeaveLock(t) \/ RaiseForWait(t) \/ MsWaitConcurrentGc(t)
    BY <1>4 DEF LeaveLock, RaiseForWait, MsWaitConcurrentGc
  <1>5. CASE BeginCycle(t) \/ TraceConcurrent(t) \/ FallBack(t) \/ EndCycle(t)
    BY <1>5 DEF BeginCycle, TraceConcurrent, FallBack, EndCycle
  <1>6. CASE EnterGc(t) \/ RequestPause(t) \/ ScanReady(t)
    BY <1>6 DEF EnterGc, RequestPause, ScanReady
  <1>7. CASE Work(t)
    BY <1>7 DEF Work
  <1>8. CASE Release(t)
    BY <1>8 DEF Release
  <1>9. CASE MsReinit(t)
    BY <1>9 DEF MsReinit, Shaking, Moves, Purpose
  <1> QED
    BY <1>1, <1>2, <1>3, <1>4, <1>5, <1>6, <1>7, <1>8, <1>9 DEF ThreadStep

\* Every step leaves gc_lock with the thread that is where its holder is.
LEMMA StepOwners ==
  ASSUME Collectors = {}, Types, Purpose, Owners, OneCycle, NEW t \in Threads, ThreadStep(t)
  PROVE  Owners'
  <1>1. ASSUME NEW u \in Threads, u # t
        PROVE  (alloc_lock' = u <=> HoldsAlloc(u)') /\ (gc_lock' = u <=> HoldsGc(u)')
    <2>1. /\ pc'[u] = pc[u] /\ task'[u] = task[u]
          /\ (alloc_lock' = u <=> alloc_lock = u) /\ (gc_lock' = u <=> gc_lock = u)
          /\ alloc_lock = u => UNCHANGED gc_concurrent_in_progress
      BY <1>1, StepIsLocal, StepKeepsOthers
    <2>2. pc[u] = "work" /\ Copying(u) => alloc_lock = u
      BY DEF Owners, HoldsAlloc, Purpose, Shaking, Copying, Moves, Pausing
    <2> QED
      BY <2>1, <2>2 DEF Owners, HoldsAlloc, HoldsGc, Copying
  <1>2. (alloc_lock' = t <=> HoldsAlloc(t)') /\ (gc_lock' = t <=> HoldsGc(t)')
    <2> USE DEF Types, Owners, HoldsAlloc, HoldsGc, Copying, Step, Shake, Goto, LockAlloc,
                UnlockAlloc, Park, locks, Shaking, Moves, Pausing, Waiting, Purpose
    <2> t # None
      BY DEF Threads, None
    <2>1. CASE Poll(t) \/ Execute(t)
      BY <2>1 DEF Poll, Execute
    <2>2. CASE WaitForGc(t)
      BY <2>2 DEF WaitForGc
    <2>3. CASE AllocTlab(t) \/ TryAllocLock(t) \/ SpinAllocLock(t)
      BY <2>3 DEF AllocTlab, TryAllocLock, SpinAllocLock
    <2>4. CASE AllocSlow(t)
      BY <2>4 DEF AllocSlow
    <2>5. CASE LeaveLock(t) \/ RaiseForWait(t) \/ MsWaitConcurrentGc(t)
      BY <2>5 DEF LeaveLock, RaiseForWait, MsWaitConcurrentGc
    <2>6. CASE BeginCycle(t) \/ TraceConcurrent(t) \/ FallBack(t) \/ EndCycle(t)
      BY <2>6 DEF BeginCycle, TraceConcurrent, FallBack, EndCycle
    <2>7. CASE EnterGc(t)
      BY <2>7 DEF EnterGc
    <2>8. CASE RequestPause(t)
      BY <2>8 DEF RequestPause, OneCycle
    <2>9. CASE ScanReady(t)
      BY <2>9 DEF ScanReady, OneCycle
    <2>10. CASE Work(t)
      BY <2>10 DEF Work, ReleaseNext
    <2>11. CASE Release(t)
      BY <2>11 DEF Release, After
    <2>12. CASE MsReinit(t)
      BY <2>12 DEF MsReinit
    <2> QED
      BY <2>1, <2>2, <2>3, <2>4, <2>5, <2>6, <2>7, <2>8, <2>9, <2>10, <2>11, <2>12
         DEF ThreadStep
  <1> QED
    BY <1>1, <1>2 DEF Owners

\* Every step keeps to one collection at a time.
LEMMA StepOneCycle ==
  ASSUME Collectors = {}, Types, Purpose, Owners, OneCycle, NEW t \in Threads, ThreadStep(t)
  PROVE  OneCycle'
  <1> DEFINE Alone(u) == \/ pc[u] = "resume"
                         \/ pc[u] \in Shaking \ {"work"} /\ task[u] \in Moves
                         \/ pc[u] \in {"gc", "work", "reinit"} /\ task[u] = "fallback"
  \* A thread takes on the cycle alone, or keeps the part it has; and a cycle ends,
  \* or another begins, at the hands of its coordinator.
  <1>1. /\ Coordinates(t)' => \/ Coordinates(t) /\ UNCHANGED gc_concurrent_in_progress
                              \/ gc_concurrent_in_progress' /\ alloc_lock = t /\ ~ gc_concurrent_in_progress
        /\ Alone(t)' => ~ gc_concurrent_in_progress'
        /\ gc_concurrent_in_progress /\ ~ gc_concurrent_in_progress' => Coordinates(t)
        /\ ~ gc_concurrent_in_progress /\ gc_concurrent_in_progress' => alloc_lock = t
    <2> USE DEF Types, Purpose, Owners, HoldsAlloc, OneCycle, Coordinates, Copying, Step, Shake, Goto,
                Park, Shaking, Moves, Pausing, Waiting
    <2>1. CASE Poll(t) \/ Execute(t) \/ WaitForGc(t)
      BY <2>1 DEF Poll, Execute, WaitForGc
    <2>2. CASE AllocTlab(t) \/ TryAllocLock(t) \/ SpinAllocLock(t) \/ AllocSlow(t)
      BY <2>2 DEF AllocTlab, TryAllocLock, SpinAllocLock, AllocSlow
    <2>3. CASE LeaveLock(t) \/ RaiseForWait(t) \/ MsWaitConcurrentGc(t)
      BY <2>3 DEF LeaveLock, RaiseForWait, MsWaitConcurrentGc
    <2>4. CASE BeginCycle(t) \/ TraceConcurrent(t) \/ FallBack(t) \/ EndCycle(t)
      BY <2>4 DEF BeginCycle, TraceConcurrent, FallBack, EndCycle
    <2>5. CASE EnterGc(t)
      BY <2>5 DEF EnterGc
    <2>6. CASE RequestPause(t) \/ ScanReady(t)
      BY <2>6 DEF RequestPause, ScanReady
    <2>7. CASE Work(t)
      BY <2>7 DEF Work, ReleaseNext
    <2>8. CASE Release(t)
      BY <2>8 DEF Release, After
    <2>9. CASE MsReinit(t)
      BY <2>9 DEF MsReinit
    <2> QED
      BY <2>1, <2>2, <2>3, <2>4, <2>5, <2>6, <2>7, <2>8, <2>9 DEF ThreadStep
  <1>2. \A u \in Threads : u # t => /\ Coordinates(u)' <=> Coordinates(u)
                                    /\ Alone(u)' <=> Alone(u)
    BY StepIsLocal DEF Coordinates
  <1>3. \A u \in Threads : Alone(u) => alloc_lock = u
    BY DEF Owners, HoldsAlloc, Shaking, Moves
  <1> QED
    BY <1>1, <1>2, <1>3 DEF OneCycle

----------------------------------------------------------------------------
(* The handshake.                                                          *)

\* Every step keeps the flags of the world what its stopper made them.
LEMMA StepFlags ==
  ASSUME Collectors = {}, Types, Purpose, Owners, Flags, NEW t \in Threads, ThreadStep(t)
  PROVE  Flags'
  <1>1. /\ t \in gc_ready' => \/ pc'[t] \in Parked \cup {"unpark", "flag", "scan", "lower"}
                              \/ pc'[t] = "work" /\ gc_lock' = t
        /\ \A u \in Threads : u # t => (u \in gc_ready' <=> u \in gc_ready)
    <2> USE DEF Types, Flags, Parked, Step, Shake, Goto, Park, Raise, Lower, shake
    <2>1. CASE Poll(t) \/ Execute(t) \/ WaitForGc(t)
      BY <2>1 DEF Poll, Execute, WaitForGc, Purpose, Waiting
    <2>2. CASE AllocTlab(t) \/ TryAllocLock(t) \/ SpinAllocLock(t) \/ AllocSlow(t)
      BY <2>2 DEF AllocTlab, TryAllocLock, SpinAllocLock, AllocSlow
    <2>3. CASE LeaveLock(t) \/ RaiseForWait(t) \/ MsWaitConcurrentGc(t)
      BY <2>3 DEF LeaveLock, RaiseForWait, MsWaitConcurrentGc
    <2>4. CASE BeginCycle(t) \/ TraceConcurrent(t) \/ FallBack(t) \/ EndCycle(t)
      BY <2>4 DEF BeginCycle, TraceConcurrent, FallBack, EndCycle
    <2>5. CASE EnterGc(t) \/ RequestPause(t) \/ ScanReady(t)
      BY <2>5 DEF EnterGc, RequestPause, ScanReady, Owners, HoldsGc, locks
    <2>6. CASE Work(t)
      BY <2>6 DEF Work, ReleaseNext, Owners, HoldsGc
    <2>7. CASE Release(t)
      BY <2>7 DEF Release, After
    <2>8. CASE MsReinit(t)
      BY <2>8 DEF MsReinit
    <2> QED
      BY <2>1, <2>2, <2>3, <2>4, <2>5, <2>6, <2>7, <2>8 DEF ThreadStep
  <1> QED
    BY <1>1, StepIsLocal, StepKeepsOthers DEF Flags

\* While c scans or works inside gc_lock, a step of another thread t keeps what c
\* has seen of it: gc_lock keeps the parked ones parked, unless c is in a pause and
\* t gets alloc_lock, allocates, and parks again because gc_pending is set.
LEMMA StepKeepsSeen ==
  ASSUME Collectors = {}, Types, Purpose, Owners, OneCycle, Scanning,
         NEW t \in Threads, ThreadStep(t),
         NEW c \in Threads, c # t, pc[c] \in {"scan", "work"}, gc_lock = c, Seen(c, t)
  PROVE  Seen(c, t)'
  <1> USE DEF Types, Parked, Late
  <1>1. pc'[c] = pc[c] /\ task'[c] = task[c] /\ gc_pending /\ t # None /\ c # None
    BY StepIsLocal DEF Scanning, Threads, None
  <1>2. Copying(c) => alloc_lock = c
    BY DEF Owners, HoldsAlloc, Purpose, Shaking, Copying, Moves, Pausing
  <1>3. ~ Copying(c) => gc_concurrent_in_progress
    BY DEF OneCycle, Coordinates, Purpose, Shaking, Copying, Moves, Pausing
  <1>4. CASE pc[t] \in {"park", "lock"}
    BY <1>1, <1>4 DEF Seen, ThreadStep, Step, Poll, Execute, WaitForGc, AllocTlab, TryAllocLock,
       SpinAllocLock, AllocSlow, LeaveLock, RaiseForWait, MsWaitConcurrentGc, BeginCycle,
       TraceConcurrent, FallBack, EndCycle, EnterGc, RequestPause, ScanReady, Work, Release, MsReinit
  <1>5. CASE pc[t] \in {"ms_wait", "ms_relock", "ms_lower"}
    <2>1. MsWaitConcurrentGc(t)
      BY <1>5 DEF ThreadStep, Step, Poll, Execute, WaitForGc, AllocTlab, TryAllocLock,
         SpinAllocLock, AllocSlow, LeaveLock, RaiseForWait, BeginCycle,
         TraceConcurrent, FallBack, EndCycle, EnterGc, RequestPause, ScanReady, Work, Release, MsReinit
    <2>2. pc[t] = "ms_lower" => alloc_lock = t
      BY DEF Owners, HoldsAlloc
    <2> QED
      BY <2>1, <2>2, <1>1, <1>2, <1>5 DEF Seen, Copying, MsWaitConcurrentGc, Step, Goto, LockAlloc, locks
  <1>6. CASE pc[t] = "top"
    <2>1. Poll(t)
      BY <1>6 DEF ThreadStep, Step, Execute, WaitForGc, AllocTlab, TryAllocLock,
         SpinAllocLock, AllocSlow, LeaveLock, RaiseForWait, MsWaitConcurrentGc, BeginCycle,
         TraceConcurrent, FallBack, EndCycle, EnterGc, RequestPause, ScanReady, Work, Release, MsReinit
    <2> QED
      BY <2>1, <1>1, <1>6 DEF Seen, Poll, Park, Goto
  <1>7. CASE pc[t] \in {"retry", "gc", "work", "reinit"}
    <2>1. ~ Copying(c) /\ gc_concurrent_in_progress /\ alloc_lock = t
      BY <1>3, <1>7 DEF Seen
    <2>2. task[t] # "fallback" \/ pc[t] = "retry"
      BY <2>1, <1>7 DEF OneCycle
    <2>3. pc[t] # "retry" => task[t] = "last" /\ Copying(t)
      BY <1>7, <2>1, <2>2 DEF Owners, HoldsAlloc, Copying, Moves
    <2>4. AllocSlow(t) \/ EnterGc(t) \/ Work(t) \/ MsReinit(t)
      BY <1>7 DEF ThreadStep, Step, Poll, Execute, WaitForGc, AllocTlab, TryAllocLock,
         SpinAllocLock, LeaveLock, RaiseForWait, MsWaitConcurrentGc, BeginCycle,
         TraceConcurrent, FallBack, EndCycle, RequestPause, ScanReady, Release
    <2>5. CASE AllocSlow(t)
      BY <2>1, <2>5, <1>1, <1>7 DEF AllocSlow, Seen, Copying, Goto, Shake, locks
    <2>6. CASE EnterGc(t)
      BY <2>1, <2>6, <1>1 DEF EnterGc, Seen, Copying, Step, Goto, locks
    <2>7. CASE Work(t)
      BY <2>1, <2>3, <2>7, <1>1 DEF Work, ReleaseNext, Seen, Copying, Step, Goto, locks
    <2>8. CASE MsReinit(t)
      BY <2>1, <2>3, <2>8, <1>1 DEF MsReinit, Seen, Copying, Goto
    <2> QED
      BY <2>4, <2>5, <2>6, <2>7, <2>8
  <1> QED
    BY <1>4, <1>5, <1>6, <1>7 DEF Seen

\* Every step keeps mutators away from the scan.
LEMMA StepScanning ==
  ASSUME Collectors = {}, Types, Purpose, Owners, OneCycle, Flags, Scanning,
         NEW t \in Threads, ThreadStep(t)
  PROVE  Scanning'
  <1> DEFINE Counted(c) ==
               /\ gc_pending /\ (pc[c] = "work" => scan = ThreadCount)
               /\ \A u \in Threads : u # c /\ u < scan => Seen(c, u)
  \* Of another thread.
  <1>1. ASSUME NEW c \in Threads, c # t, pc'[c] \in {"scan", "work"}, gc_lock' = c
        PROVE  Counted(c)'
    <2>1. pc[c] = pc'[c] /\ task'[c] = task[c] /\ gc_lock = c /\ UNCHANGED <<gc_pending, scan>>
      BY <1>1, StepIsLocal, StepKeepsOthers
    <2>2. Counted(c)
      BY <1>1, <2>1 DEF Scanning
    <2>3. ASSUME NEW u \in Threads, u # c, Seen(c, u)
          PROVE  Seen(c, u)'
      <3>1. CASE u = t
        BY <1>1, <2>1, <2>3, <3>1, StepKeepsSeen
      <3>2. CASE u # t
        BY <2>1, <2>3, <3>2, StepIsLocal, StepKeepsOthers DEF Seen, Late, Copying
      <3> QED
        BY <3>1, <3>2
    <2> QED
      BY <2>1, <2>2, <2>3
  \* Of its own: it enters gc_lock with scan = 0, counts a slot whose flag is up,
  \* or begins again.
  <1>2. ASSUME pc'[t] \in {"scan", "work"}, gc_lock' = t
        PROVE  Counted(t)'
    <2>1. \/ RequestPause(t) /\ pc[t] = "flag"
          \/ ScanReady(t)
          \/ EnterGc(t) /\ gc_concurrent_in_progress
      BY <1>2 DEF Types, ThreadStep, Step, Goto, Shake, Park, Poll, Execute, WaitForGc, AllocTlab,
         TryAllocLock, SpinAllocLock, AllocSlow, LeaveLock, RaiseForWait, MsWaitConcurrentGc,
         BeginCycle, TraceConcurrent, FallBack, EndCycle, EnterGc, RequestPause, Work, ReleaseNext,
         Release, After, MsReinit, Purpose, Waiting
    <2>2. CASE RequestPause(t) /\ pc[t] = "flag"
      <3>1. gc_pending' /\ scan' = 0 /\ pc'[t] = "scan"
        BY <2>2 DEF Types, RequestPause, Step, Goto
      <3> QED
        BY <3>1 DEF Threads
    <2>3. CASE ScanReady(t)
      <3>1. pc[t] = "scan" /\ gc_lock = t /\ UNCHANGED <<gc_pending, gc_ready, task>>
        BY <2>3 DEF ScanReady, Owners, HoldsGc
      <3>2. Counted(t)
        BY <3>1 DEF Scanning
      <3>3. ASSUME NEW u \in Threads, u # t
            PROVE  /\ Seen(t, u) => Seen(t, u)'
                   /\ u \in gc_ready => Seen(t, u)'
        <4>1. pc'[u] = pc[u] /\ alloc_lock' = alloc_lock
          BY <2>3, <3>3, StepIsLocal DEF ScanReady, locks
        <4>2. u \in gc_ready => pc[u] \in Parked
          BY <3>1, <3>3 DEF Flags, Owners, HoldsGc
        <4> QED
          BY <3>1, <4>1, <4>2 DEF Seen, Late, Copying
      <3>4. CASE scan = ThreadCount
        BY <2>3, <3>1, <3>2, <3>3, <3>4 DEF ScanReady
      <3>5. CASE scan # ThreadCount
        <4>1. pc'[t] = "scan" /\ scan' = (IF scan \in gc_ready THEN scan + 1 ELSE 0)
          BY <2>3, <3>1, <3>5 DEF ScanReady
        <4>2. scan \in Threads /\ \A u \in Threads : u < scan + 1 => u < scan \/ u = scan
          BY <3>5, CycleAssumption DEF Types, Threads
        <4>3. \A u \in Threads : ~ u < 0
          BY DEF Threads
        <4> QED
          BY <3>1, <3>2, <3>3, <4>1, <4>2, <4>3
      <3> QED
        BY <3>4, <3>5
    <2>4. CASE EnterGc(t) /\ gc_concurrent_in_progress
      <3>1. pc[t] = "gc" /\ gc_lock = t
        BY <1>2, <2>4 DEF EnterGc, Step, locks
      <3> QED
        BY <3>1 DEF Owners, HoldsGc
    <2> QED
      BY <2>1, <2>2, <2>3, <2>4
  <1> QED
    BY <1>1, <1>2 DEF Scanning

----------------------------------------------------------------------------
(* The theorems.                                                           *)

\* IInv holds for every number of threads that do not execute GC.
LEMMA Invariance ==
  ASSUME Collectors = {} PROVE Spec => []IInv
  <1>1. Init => IInv
    <2> SUFFICES ASSUME Init PROVE IInv
      OBVIOUS
    <2>1. \A t \in Threads : pc[t] = "top" /\ t # None
      BY DEF Init, Threads, None
    <2>2. gc_ready = {} /\ gc_lock = None /\ alloc_lock = None
      BY DEF Init
    <2>3. Owners /\ OneCycle /\ Flags /\ Scanning
      BY <2>1, <2>2 DEF Owners, HoldsAlloc, HoldsGc, OneCycle, Coordinates, Flags, Scanning, Shaking
    <2> QED
      BY <2>3, InitTypes DEF IInv
  <1>2. IInv /\ [Next]_vars => IInv'
    <2> SUFFICES ASSUME IInv, [Next]_vars PROVE IInv'
      OBVIOUS
    <2>1. ASSUME NEW t \in Threads, ThreadStep(t)
          PROVE  IInv'
      BY <2>1, StepTypes, StepPurpose, StepOwners, StepOneCycle, StepFlags, StepScanning DEF IInv
    <2>2. CASE UNCHANGED vars
      BY <2>2 DEF vars, locks, shake, heap, IInv, Types, Purpose, Owners, HoldsAlloc, HoldsGc,
         OneCycle, Coordinates, Flags, Scanning, Seen, Late, Copying
    <2> QED
      BY <2>1, <2>2 DEF Next
  <1> QED
    BY <1>1, <1>2, PTL DEF Spec

\* Only the thread that holds gc_lock lowers gc_pending and releases gc_lock
\* (gc() of gc.c and stw_release of gc-ms.c), although gc() reads
\* gc_concurrent_in_progress twice to decide whether it holds it.
THEOREM LockIsReleasedByOwner ==
  ASSUME Collectors = {} PROVE Spec => []ReleasesOwnLock
  <1>1. IInv => ReleasesOwnLock
    BY DEF IInv, Owners, HoldsGc, ReleasesOwnLock
  <1> QED
    BY <1>1, Invariance, PTL

\* The thread that run ms_late_thread shows at large in a pause of ms_collect is alone
\* there: every thread other than the collector and the owner of alloc_lock is parked,
\* or on its way to park, whatever the number of threads.
THEOREM OneLateThread ==
  ASSUME Collectors = {}
  PROVE  Spec => [](\A t, u \in Threads : InPause(t) /\ u # t => pc[u] \in Parked \cup {"top"} \/ alloc_lock = u)
  <1>1. ASSUME IInv, NEW t \in Threads, NEW u \in Threads, InPause(t), u # t
        PROVE  pc[u] \in Parked \cup {"top"} \/ alloc_lock = u
    <2>1. gc_lock = t /\ pc[t] = "work"
      BY <1>1 DEF IInv, Owners, HoldsGc, InPause
    <2>2. u < ThreadCount
      BY CycleAssumption DEF Threads
    <2>3. Seen(t, u)
      BY <1>1, <2>1, <2>2 DEF IInv, Scanning
    <2> QED
      BY <2>3 DEF Seen, Late
  <1>2. IInv => \A t, u \in Threads : InPause(t) /\ u # t => pc[u] \in Parked \cup {"top"} \/ alloc_lock = u
    BY <1>1
  <1> QED
    BY <1>2, Invariance, PTL

\* The copying collector that ms_collect falls back on has the heap to itself.
THEOREM FallBackIsAlone ==
  ASSUME Collectors = {} PROVE Spec => []FallBackMovesAlone
  <1>1. IInv => FallBackMovesAlone
    <2> SUFFICES ASSUME IInv, NEW t \in Threads, NEW u \in Threads,
                        Moving(t), task[t] = "fallback", u # t
                 PROVE  pc[u] \in Parked
      BY DEF FallBackMovesAlone
    <2>1. gc_lock = t /\ pc[t] = "work" /\ Copying(t)
      BY DEF IInv, Owners, HoldsGc, Moving, OneCycle
    <2>2. u < ThreadCount
      BY CycleAssumption DEF Threads
    <2>3. Seen(t, u)
      BY <2>1, <2>2 DEF IInv, Scanning
    <2> QED
      BY <2>1, <2>3 DEF Seen
  <1> QED
    BY <1>1, Invariance, PTL
=============================================================================
