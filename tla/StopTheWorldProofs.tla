------------------------- MODULE StopTheWorldProofs -------------------------
(***************************************************************************)
(* What StopTheWorld guarantees for every number of threads and slots.     *)
(***************************************************************************)
EXTENDS StopTheWorld, TLAPS

----------------------------------------------------------------------------
(* Type correctness, by groups of variables.                               *)

PcT    == pc \in [Threads -> PC]
IdentT == /\ slotOf \in [Threads -> Slots] /\ newSlot \in [Threads -> Slots]
          /\ parent \in [Threads -> Slots]
WaitT  == /\ after \in [Threads -> {"top", "instr", "try", "bump", "dump"}]
          /\ gc_ready \subseteq Slots
TableT == /\ gc_thread_dead \subseteq Slots /\ slot_reusable \subseteq Slots
          /\ next_index \in 1 .. MaxThreads
          /\ registers \in [Slots -> Threads \cup {Nobody}]
LockT  == {gc_lock, alloc_lock, dump_lock} \subseteq Threads \cup {Nobody}
ShakeT == /\ gc_pending \in BOOLEAN /\ gc_thread_count \in 0 .. MaxThreads
          /\ scan \in 0 .. MaxThreads /\ scan <= gc_thread_count
HeapT  == /\ need \in [Threads -> 0 .. MaxRequest]
          /\ free \in {EndBelow} \cup 0 .. HeapWords
          /\ stale \subseteq Threads

\* TypeOK, and that the scan stays inside the snapshot of next_index.
Types == PcT /\ IdentT /\ WaitT /\ TableT /\ LockT /\ ShakeT /\ HeapT

LEMMA TypesGiveTypeOK == Types => TypeOK
  BY DEF Types, PcT, IdentT, WaitT, TableT, LockT, ShakeT, HeapT, TypeOK

\* Every program point, for the provers to look up.
LEMMA Labels ==
  {"absent", "top", "instr", "try", "spin", "alloc", "bump", "dump_wait", "dump",
   "load_wait", "load", "load_new", "load_alloc", "load_point", "store_wait", "store",
   "get_index", "unready", "undead", "spawn", "unspawn", "born", "copy", "park", "gc_lock", "clear", "unpark",
   "gc_flag", "snapshot", "scan", "collect", "gc_unready", "gc_clear",
   "gc_unlock", "unwind", "unwound", "dtor", "dtor_ready", "dtor_lock",
   "dtor_free", "dtor_unlock", "release"} = PC
  BY DEF PC, Mutating, Creating, Starting, Parked, Unparking, Handshake,
         Collecting, Finishing, Exiting

\* A group an action leaves alone keeps its type.
LEMMA Frame ==
  /\ PcT /\ UNCHANGED pc => PcT'
  /\ IdentT /\ UNCHANGED ident => IdentT'
  /\ WaitT /\ UNCHANGED wait => WaitT'
  /\ TableT /\ UNCHANGED table => TableT'
  /\ LockT /\ UNCHANGED locks => LockT'
  /\ ShakeT /\ UNCHANGED shake => ShakeT'
  /\ HeapT /\ UNCHANGED heap => HeapT'
  BY DEF PcT, IdentT, WaitT, TableT, LockT, ShakeT, HeapT, ident, wait, table,
         locks, shake, heap

LEMMA GotoType ==
  ASSUME PcT, NEW t \in Threads, NEW l \in PC, Goto(t, l) PROVE PcT'
  BY DEF PcT, Goto

LEMMA MutexTypes ==
  ASSUME LockT, NEW t \in Threads,
         \/ LockGcMutex(t) \/ UnlockGcMutex \/ LockAllocMutex(t)
         \/ UnlockAllocMutex \/ LockDumpMutex(t) \/ UnlockDumpMutex
  PROVE  LockT'
  BY DEF LockT, LockGcMutex, UnlockGcMutex, LockAllocMutex, UnlockAllocMutex,
         LockDumpMutex, UnlockDumpMutex

LEMMA FlagTypes ==
  ASSUME IdentT, WaitT, NEW t \in Threads, Raise(t) \/ Lower(t), UNCHANGED after
  PROVE  WaitT'
  BY DEF IdentT, WaitT, Raise, Lower

LEMMA EnterTypes ==
  ASSUME PcT, IdentT, WaitT, NEW t \in Threads, NEW l \in PC,
         NEW r \in {"top", "instr", "try", "bump", "dump"}, Enter(t, l, r)
  PROVE  PcT' /\ WaitT'
  <1>1. PcT'
    BY GotoType DEF Enter
  <1>2. WaitT'
    BY DEF IdentT, WaitT, Enter, Raise
  <1> QED
    BY <1>1, <1>2

LEMMA InitTypes == Init => Types
  <1> SUFFICES ASSUME Init PROVE Types
    OBVIOUS
  <1>1. registers \in [Slots -> Threads \cup {Nobody}]
    <2>1. /\ {slotOf[t] : t \in Running} = 0 .. next_index - 1
          /\ next_index \in Nat
          /\ registers = [s \in Slots |-> IF s < next_index
                                THEN CHOOSE t \in Running : slotOf[t] = s
                                ELSE Nobody]
      BY BoundsAssumption DEF Init
    <2>2. ASSUME NEW s \in Slots, s < next_index
          PROVE  (CHOOSE t \in Running : slotOf[t] = s) \in Threads
      <3>1. s \in 0 .. next_index - 1
        BY <2>1, <2>2, BoundsAssumption DEF Slots
      <3>2. PICK t \in Running : slotOf[t] = s
        BY <2>1, <3>1
      <3> QED
        BY <3>2, ThreadsAssumption
    <2> QED
      BY <2>1, <2>2
  <1>2. PcT
    BY Labels DEF Init, PcT
  <1>3. IdentT /\ TableT
    <2>1. 0 \in Slots
      BY BoundsAssumption DEF Slots
    <2> QED
      BY <1>1, <2>1 DEF Init, IdentT, TableT
  <1>4. WaitT /\ LockT
    BY DEF Init, WaitT, LockT
  <1>5. HeapT
    BY BoundsAssumption DEF Init, HeapT
  <1>6. ShakeT
    <2>1. gc_pending = FALSE /\ gc_thread_count = 0 /\ scan = 0
      BY DEF Init
    <2>2. 0 \in 0 .. MaxThreads /\ 0 <= 0
      BY BoundsAssumption
    <2>3. gc_pending \in BOOLEAN
      BY <2>1
    <2> QED
      BY <2>1, <2>2, <2>3 DEF ShakeT
  <1> QED
    BY <1>2, <1>3, <1>4, <1>5, <1>6 DEF Types

LEMMA InterpretTypes ==
  ASSUME Types, NEW t \in Threads, Interpret(t) PROVE Types'
  <1>1. CASE Poll(t)
    <2>1. PcT' /\ WaitT'
      BY <1>1, Labels, GotoType, EnterTypes, Frame DEF Types, Poll
    <2> QED
      BY <1>1, <2>1, Frame DEF Types, Poll
  <1>2. CASE Execute(t)
    <2>1. PcT'
      BY <1>2, Labels, GotoType DEF Types, Execute, Step
    <2>2. HeapT'
      BY <1>2, BoundsAssumption DEF Types, Execute, HeapT
    <2> QED
      BY <1>2, <2>1, <2>2, Frame DEF Types, Execute
  <1>3. CASE ExplicitGc(t)
    <2>1. PcT' /\ WaitT'
      BY <1>3, Labels, EnterTypes DEF Types, ExplicitGc
    <2> QED
      BY <1>3, <2>1, Frame DEF Types, ExplicitGc
  <1> QED
    BY <1>1, <1>2, <1>3 DEF Interpret

LEMMA AllocateTypes ==
  ASSUME Types, NEW t \in Threads, Allocate(t) PROVE Types'
  <1>1. CASE TryAllocLock(t)
    <2>1. PcT' /\ LockT'
      BY <1>1, Labels, GotoType, MutexTypes, Frame DEF Types, TryAllocLock, Step
    <2> QED
      BY <1>1, <2>1, Frame DEF Types, TryAllocLock
  <1>2. CASE SpinAllocLock(t)
    <2>1. PcT' /\ WaitT'
      BY <1>2, Labels, GotoType, EnterTypes, Frame DEF Types, SpinAllocLock
    <2> QED
      BY <1>2, <2>1, Frame DEF Types, SpinAllocLock
  <1>3. CASE TestSpace(t)
    <2>1. PcT' /\ WaitT'
      BY <1>3, Labels, GotoType, EnterTypes, Frame DEF Types, TestSpace
    <2> QED
      BY <1>3, <2>1, Frame DEF Types, TestSpace
  <1>4. CASE Bump(t)
    <2>1. PcT' /\ LockT'
      BY <1>4, Labels, GotoType, MutexTypes DEF Types, Bump, Step
    <2>2. HeapT'
      BY <1>4, BoundsAssumption DEF Types, Bump, EndBelow, HeapT
    <2> QED
      BY <1>4, <2>1, <2>2, Frame DEF Types, Bump
  <1> QED
    BY <1>1, <1>2, <1>3, <1>4 DEF Allocate

LEMMA WaitTypes ==
  ASSUME Types, NEW t \in Threads, Wait(t) PROVE Types'
  <1>1. CASE WaitForGc(t)
    BY <1>1, Labels, GotoType, MutexTypes, Frame DEF Types, WaitForGc, Step
  <1>2. CASE ClearReady(t)
    BY <1>2, Labels, GotoType, FlagTypes, Frame DEF Types, ClearReady, Step
  <1>3. CASE Unpark(t)
    <2>1. after[t] \in PC
      BY Labels DEF Types, WaitT
    <2> QED
      BY <1>3, <2>1, GotoType, MutexTypes, Frame DEF Types, Unpark, Step
  <1> QED
    BY <1>1, <1>2, <1>3 DEF Wait

LEMMA GcTypes ==
  ASSUME Types, NEW t \in Threads, Gc(t) PROVE Types'
  <1>1. CASE LockGc(t)
    BY <1>1, Labels, GotoType, MutexTypes, Frame DEF Types, LockGc, Step
  <1>2. CASE SetPending(t)
    <2>1. ShakeT'
      BY <1>2 DEF Types, SetPending, ShakeT
    <2> QED
      BY <1>2, <2>1, Labels, GotoType, Frame DEF Types, SetPending, Step
  <1>3. CASE Snapshot(t)
    <2>1. ShakeT'
      BY <1>3, BoundsAssumption DEF Types, Snapshot, SlotCount, ShakeT, TableT
    <2> QED
      BY <1>3, <2>1, Labels, GotoType, Frame DEF Types, Snapshot, Step
  <1>4. CASE ScanReady(t)
    <2>1. PcT'
      BY <1>4, Labels, GotoType, Frame DEF Types, ScanReady
    <2>2. ShakeT'
      BY <1>4, BoundsAssumption DEF Types, ScanReady, ShakeT
    <2> QED
      BY <1>4, <2>1, <2>2, Frame DEF Types, ScanReady
  <1>5. CASE Collect(t)
    <2>1. HeapT'
      <3>1. need[t] \in Int
        BY DEF Types, HeapT
      <3> QED
        BY <1>5, <3>1, BoundsAssumption DEF Types, Collect, RoomFor, Live, HeapT
    <2> QED
      BY <1>5, <2>1, Labels, GotoType, Frame DEF Types, Collect, Step
  <1>6. CASE ClearOwnReady(t)
    BY <1>6, Labels, GotoType, FlagTypes, Frame DEF Types, ClearOwnReady, Step
  <1>7. CASE ClearPending(t)
    <2>1. ShakeT'
      BY <1>7 DEF Types, ClearPending, ShakeT
    <2> QED
      BY <1>7, <2>1, Labels, GotoType, Frame DEF Types, ClearPending, Step
  <1>8. CASE UnlockGc(t)
    <2>1. after[t] \in PC
      BY Labels DEF Types, WaitT
    <2>2. ShakeT'
      BY <1>8, BoundsAssumption DEF Types, UnlockGc, ShakeT
    <2> QED
      BY <1>8, <2>1, <2>2, GotoType, MutexTypes, Frame DEF Types, UnlockGc, Step
  <1> QED
    BY <1>1, <1>2, <1>3, <1>4, <1>5, <1>6, <1>7, <1>8 DEF Gc

LEMMA WorldsTypes ==
  ASSUME Types, NEW t \in Threads, WorldOps(t) PROVE Types'
  <1>1. CASE LockDump(t)
    <2>1. PcT' /\ WaitT'
      BY <1>1, Labels, GotoType, EnterTypes, Frame DEF Types, LockDump, Step
    <2> QED
      BY <1>1, <2>1, MutexTypes, Frame DEF Types, LockDump
  <1>2. CASE DumpWorld(t)
    BY <1>2, Labels, GotoType, MutexTypes, Frame DEF Types, DumpWorld, Step
  <1>3. CASE LoadWorld(t)
    <2>1. HeapT'
      BY <1>3, BoundsAssumption DEF Types, LoadWorld, ResetFreePoint, Live, HeapT
    <2>2. PcT'
      BY <1>3, Labels, GotoType DEF Types, LoadWorld, Step
    <2>3. LockT'
      BY <1>3, MutexTypes, Frame DEF Types, LoadWorld
    <2> QED
      BY <1>3, <2>1, <2>2, <2>3, Frame DEF Types, LoadWorld
  <1>4. CASE LockStoreReg(t)
    BY <1>4, Labels, GotoType, MutexTypes, Frame DEF Types, LockStoreReg, Step
  <1>5. CASE StoreReg(t)
    <2>1. HeapT'
      BY <1>5, BoundsAssumption DEF Types, StoreReg, HeapT
    <2> QED
      BY <1>5, <2>1, Labels, GotoType, MutexTypes, Frame DEF Types, StoreReg, Step
  <1> QED
    BY <1>1, <1>2, <1>3, <1>4, <1>5 DEF WorldOps

LEMMA CreateTypes ==
  ASSUME Types, NEW t \in Threads, Create(t) PROVE Types'
  <1>0. 0 \in Slots
    BY BoundsAssumption DEF Slots
  <1>1. CASE GetNextIndex(t)
    <2>1. PcT'
      BY <1>1, Labels, GotoType DEF Types, GetNextIndex, Step
    <2>2. IdentT' /\ TableT'
      <3>1. CASE \E s \in Reusable : newSlot' = [newSlot EXCEPT ![t] = s] /\ StrikeSlot(s)
                                    /\ UNCHANGED next_index
        BY <1>1, <3>1 DEF Types, GetNextIndex, IdentT, TableT, StrikeSlot, Reusable
      <3>2. CASE /\ RoomForThread /\ newSlot' = [newSlot EXCEPT ![t] = next_index]
                 /\ next_index' = next_index + 1 /\ UNCHANGED slot_reusable
        BY <1>1, <3>2, BoundsAssumption
           DEF Types, GetNextIndex, IdentT, TableT, RoomForThread, Slots
      <3>3. CASE UNCHANGED <<newSlot, slot_reusable, next_index>>
        BY <1>1, <3>3 DEF Types, GetNextIndex, IdentT, TableT
      <3> QED
        BY <1>1, <3>1, <3>2, <3>3 DEF GetNextIndex
    <2> QED
      BY <1>1, <2>1, <2>2, Frame DEF Types, GetNextIndex
  <1>2. CASE MarkUnready(t)
    <2>1. WaitT'
      BY <1>2 DEF Types, MarkUnready, WaitT
    <2> QED
      BY <1>2, <2>1, Labels, GotoType, Frame DEF Types, MarkUnready, Step
  <1>3. CASE MarkAlive(t)
    <2>1. TableT'
      BY <1>3 DEF Types, MarkAlive, TableT
    <2> QED
      BY <1>3, <2>1, Labels, GotoType, Frame DEF Types, MarkAlive, Step
  <1>4. CASE Spawn(t)
    <2>1. PcT'
      BY <1>4, Labels DEF Types, Spawn, PcT, Goto
    <2>2. IdentT'
      BY <1>4, <1>0 DEF Types, Spawn, IdentT, ident
    <2>3. HeapT'
      BY <1>4 DEF Types, Spawn, HeapT
    <2> QED
      BY <1>4, <2>1, <2>2, <2>3, Frame DEF Types, Spawn
  <1>5. CASE SpawnFailed(t)
    <2>1. IdentT' /\ WaitT' /\ TableT'
      BY <1>5, <1>0 DEF Types, SpawnFailed, ReleaseThreadSlot, IdentT, WaitT, TableT
    <2> QED
      BY <1>5, <2>1, Labels, GotoType, Frame DEF Types, SpawnFailed, Step
  <1>6. CASE MakeStacks(t)
    <2>1. PcT'
      BY <1>6, Labels, GotoType DEF Types, MakeStacks, Step
    <2>2. TableT'
      BY <1>6 DEF Types, MakeStacks, TableT
    <2> QED
      BY <1>6, <2>1, <2>2, Frame DEF Types, MakeStacks
  <1>7. CASE CopyRegisters(t)
    <2>1. IdentT' /\ HeapT'
      BY <1>7, <1>0 DEF Types, CopyRegisters, IdentT, HeapT
    <2> QED
      BY <1>7, <2>1, Labels, GotoType, Frame DEF Types, CopyRegisters, Step
  <1> QED
    BY <1>1, <1>2, <1>3, <1>4, <1>5, <1>6, <1>7 DEF Create

LEMMA ExitTypes ==
  ASSUME Types, NEW t \in Threads, Exit(t) PROVE Types'
  <1>0. 0 \in Slots
    BY BoundsAssumption DEF Slots
  <1>1. CASE RetireDead(t)
    <2>1. TableT'
      BY <1>1 DEF Types, RetireDead, Dead, TableT, IdentT
    <2> QED
      BY <1>1, <2>1, Labels, GotoType, Frame DEF Types, RetireDead, Step
  <1>2. CASE RetireReady(t)
    BY <1>2, Labels, GotoType, FlagTypes, Frame DEF Types, RetireReady, Step
  <1>3. CASE LockFree(t)
    BY <1>3, Labels, GotoType, MutexTypes, Frame DEF Types, LockFree, Step
  <1>4. CASE FreeRegisters(t)
    <2>1. TableT'
      BY <1>4 DEF Types, FreeRegisters, TableT
    <2> QED
      BY <1>4, <2>1, Labels, GotoType, Frame DEF Types, FreeRegisters, Step
  <1>5. CASE UnlockFree(t)
    BY <1>5, Labels, GotoType, MutexTypes, Frame DEF Types, UnlockFree, Step
  <1>6. CASE Release(t)
    <2>1. IdentT' /\ WaitT' /\ TableT' /\ HeapT'
      BY <1>6, <1>0
         DEF Types, Release, ReleaseThreadSlot, IdentT, WaitT, TableT, HeapT
    <2> QED
      BY <1>6, <2>1, Labels, GotoType, Frame DEF Types, Release, Step
  <1> QED
    BY <1>1, <1>2, <1>3, <1>4, <1>5, <1>6 DEF Exit

LEMMA StepTypes == Types /\ [Next]_vars => Types'
  <1> SUFFICES ASSUME Types, [Next]_vars PROVE Types'
    OBVIOUS
  <1>1. CASE UNCHANGED vars
    BY <1>1, Frame DEF Types, vars
  <1>2. ASSUME NEW t \in Threads, ThreadStep(t) PROVE Types'
    BY <1>2, InterpretTypes, AllocateTypes, WaitTypes, GcTypes, WorldsTypes,
       CreateTypes, ExitTypes DEF ThreadStep
  <1> QED
    BY <1>1, <1>2 DEF Next

\* Every variable keeps its type, for any number of threads and slots: no slot
\* index leaves the arrays and the handshake never looks past its snapshot.
THEOREM TypeCorrect == Spec => []TypeOK
  <1>1. Types /\ [Next]_vars => Types'
    BY StepTypes
  <1>2. Spec => []Types
    BY <1>1, InitTypes, PTL DEF Spec
  <1> QED
    BY <1>2, TypesGiveTypeOK, PTL

----------------------------------------------------------------------------
(* Who holds gc_lock.                                                      *)

Owner == \A t \in Threads : pc[t] \in HoldsGc <=> gc_lock = t

LEMMA InitOwner == Init => Owner
  BY ThreadsAssumption
     DEF Init, Owner, HoldsGc, Unparking, Handshake, Collecting, Finishing

LEMMA StepOwner ==
  ASSUME Types, Owner, NEW t \in Threads, ThreadStep(t) PROVE Owner'
  <1> USE ThreadsAssumption
      DEF Owner, Types, PcT, Step, Goto, Enter, HoldsGc, Unparking, Handshake,
          Collecting, Finishing, locks
  <1>1. CASE Interpret(t)
    BY <1>1 DEF Interpret, Poll, Execute, ExplicitGc
  <1>2. CASE Allocate(t)
    BY <1>2 DEF Allocate, TryAllocLock, SpinAllocLock, TestSpace, Bump,
                UnlockAllocMutex, LockAllocMutex
  <1>3. CASE Wait(t)
    BY <1>3 DEF Wait, WaitForGc, ClearReady, Unpark, LockGcMutex, UnlockGcMutex,
                WaitT
  <1>4. CASE Gc(t)
    BY <1>4 DEF Gc, LockGc, SetPending, Snapshot, ScanReady, Collect,
                ClearOwnReady, ClearPending, UnlockGc, LockGcMutex,
                UnlockGcMutex, WaitT
  <1>5. CASE WorldOps(t)
    BY <1>5 DEF WorldOps, LockDump, DumpWorld, LoadWorld, LockStoreReg, StoreReg,
                UnlockAllocMutex, LockAllocMutex, LockDumpMutex, UnlockDumpMutex
  <1>6. CASE Create(t)
    BY <1>6 DEF Create, GetNextIndex, MarkUnready, MarkAlive, Spawn,
                SpawnFailed, MakeStacks, CopyRegisters
  <1>7. CASE Exit(t)
    BY <1>7 DEF Exit, RetireDead, RetireReady, LockFree, FreeRegisters,
                UnlockFree, Release, LockGcMutex, UnlockGcMutex
  <1> QED
    BY <1>1, <1>2, <1>3, <1>4, <1>5, <1>6, <1>7 DEF ThreadStep

\* Stacks and registers are freed by a thread that holds gc_lock, so never
\* while another thread's collection is visiting them.
THEOREM StacksOutliveCollection == Spec => FreedOutsideCollection
  <1>1. ASSUME Types, Owner, Next PROVE FreesOutsideCollection
    <2>1. PICK w \in Threads : ThreadStep(w)
      BY <1>1 DEF Next
    <2>2. CASE FreeRegisters(w)
      BY <1>1, <2>2
         DEF FreesOutsideCollection, FreeRegisters, Step, Owner, HoldsGc, Collecting
    <2>3. CASE MakeStacks(w)
      BY <1>1, <2>3, ThreadsAssumption
         DEF FreesOutsideCollection, MakeStacks, Types, TableT
    <2>4. CASE ~ FreeRegisters(w) /\ ~ MakeStacks(w)
      <3>1. UNCHANGED registers
        BY <2>1, <2>4
           DEF ThreadStep, Interpret, Poll, Execute, ExplicitGc, Allocate,
               TryAllocLock, SpinAllocLock, TestSpace, Bump, Wait, WaitForGc,
               ClearReady, Unpark, Gc, LockGc, SetPending, Snapshot, ScanReady,
               Collect, ClearOwnReady, ClearPending, UnlockGc, WorldOps, LockDump,
               DumpWorld, LoadWorld, LockStoreReg, StoreReg, Create,
               GetNextIndex, MarkUnready, MarkAlive, Spawn, SpawnFailed,
               CopyRegisters, Exit, RetireDead, RetireReady, LockFree,
               UnlockFree, Release, table
      <3> QED
        BY <3>1 DEF FreesOutsideCollection
    <2> QED
      BY <2>2, <2>3, <2>4
  <1>2. Types /\ Owner /\ [Next]_vars => Types' /\ Owner'
    <2>1. ASSUME Types, Owner, UNCHANGED vars PROVE Owner'
      BY <2>1 DEF Owner, vars, locks
    <2> QED
      BY <2>1, StepTypes, StepOwner DEF Next
  <1>3. Types /\ Owner /\ [Next]_vars => [FreesOutsideCollection]_vars
    BY <1>1
  <1>4. Spec => [](Types /\ Owner)
    BY <1>2, InitTypes, InitOwner, PTL DEF Spec
  <1> QED
    BY <1>3, <1>4, PTL DEF Spec, FreedOutsideCollection

----------------------------------------------------------------------------
(* Slots.                                                                  *)

\* The thread occupies a slot that nothing has been put in yet, or no longer is.
Emptied(t) == pc[t] \in {"born", "dtor_unlock", "release"}

\* SlotsExclusive in parts, with what makes it inductive: no slot beyond
\* next_index is in use or for reuse, and a slot taken or emptied is empty.
OccupiedApart == \A t, u \in Threads :
    t # u /\ Occupies(t) /\ Occupies(u) => slotOf[t] # slotOf[u]
TakenUnoccupied == \A t, u \in Threads :
    Taking(t) /\ Occupies(u) => newSlot[t] # slotOf[u]
TakenApart == \A t, u \in Threads :
    t # u /\ Taking(t) /\ Taking(u) => newSlot[t] # newSlot[u]
ReusableUnused == \A s \in slot_reusable : \A t \in Threads :
    (Occupies(t) => slotOf[t] # s) /\ (Taking(t) => newSlot[t] # s)
ReusableClean == \A s \in slot_reusable : registers[s] = Nobody /\ s < next_index
Below == \A t \in Threads : /\ Occupies(t) => slotOf[t] < next_index
                            /\ Taking(t) => newSlot[t] < next_index
Empty == \A t \in Threads : /\ Taking(t) => registers[newSlot[t]] = Nobody
                            /\ Emptied(t) => registers[slotOf[t]] = Nobody
Beyond == \A s \in Slots : next_index <= s => registers[s] = Nobody

SlotInv == /\ OccupiedApart /\ TakenUnoccupied /\ TakenApart /\ ReusableUnused
           /\ ReusableClean /\ Below /\ Empty /\ Beyond

LEMMA SlotInvGives == SlotInv => SlotsExclusive
  BY DEF SlotInv, OccupiedApart, TakenUnoccupied, TakenApart, ReusableUnused,
         ReusableClean, SlotsExclusive

LEMMA InitSlotInv == Init => SlotInv
  <1> SUFFICES ASSUME Init PROVE SlotInv
    OBVIOUS
  <1>1. /\ slot_reusable = {} /\ next_index \in Nat
        /\ \A t, u \in Running : slotOf[t] = slotOf[u] => t = u
        /\ {slotOf[t] : t \in Running} = 0 .. next_index - 1
    BY BoundsAssumption DEF Init
  <1>2. \A t \in Threads : /\ ~ Taking(t) /\ ~ Emptied(t)
                           /\ Occupies(t) => t \in Running
    BY DEF Init, Occupies, Taking, Emptied, Creating
  <1>3. \A t \in Running : slotOf[t] \in 0 .. next_index - 1
    BY <1>1
  <1>4. Below
    BY <1>1, <1>2, <1>3 DEF Below
  <1>5. Beyond
    <2>1. registers = [s \in Slots |-> IF s < next_index
                                THEN CHOOSE t \in Running : slotOf[t] = s
                                ELSE Nobody]
      BY DEF Init
    <2>2. \A s \in Slots : next_index <= s => ~ (s < next_index)
      BY <1>1 DEF Slots
    <2> QED
      BY <2>1, <2>2 DEF Beyond
  <1> QED
    BY <1>1, <1>2, <1>4, <1>5
       DEF SlotInv, OccupiedApart, TakenUnoccupied, TakenApart, ReusableUnused,
           ReusableClean, Empty

\* A step that leaves the slots alone, and by which no thread comes to occupy,
\* take or empty one.
LEMMA SlotFrame ==
  ASSUME SlotInv,
         UNCHANGED <<slotOf, newSlot, slot_reusable, next_index, registers>>,
         \A u \in Threads : /\ Occupies(u)' => Occupies(u)
                            /\ Taking(u)' => Taking(u)
                            /\ Emptied(u)' => Emptied(u)
  PROVE  SlotInv'
  <1>1. OccupiedApart' /\ TakenUnoccupied' /\ TakenApart' /\ ReusableUnused'
    BY DEF SlotInv, OccupiedApart, TakenUnoccupied, TakenApart, ReusableUnused
  <1>2. ReusableClean' /\ Below' /\ Empty' /\ Beyond'
    BY DEF SlotInv, ReusableClean, Below, Empty, Beyond
  <1> QED
    BY <1>1, <1>2 DEF SlotInv

\* A step between points that agree on all three.
LEMMA MoveSlotInv ==
  ASSUME Types, SlotInv, NEW t \in Threads, NEW l \in PC, Goto(t, l),
         UNCHANGED <<slotOf, newSlot, slot_reusable, next_index, registers>>,
         pc[t] # "absent",
         l \in Creating \ {"get_index"} => Taking(t),
         l \in {"born", "dtor_unlock", "release"} => Emptied(t)
  PROVE  SlotInv'
  <1>1. \A u \in Threads : /\ Occupies(u)' => Occupies(u)
                           /\ Taking(u)' => Taking(u)
                           /\ Emptied(u)' => Emptied(u)
    BY DEF Types, PcT, Goto, Occupies, Taking, Emptied
  <1> QED
    BY <1>1, SlotFrame

LEMMA SteadySlotInv ==
  ASSUME Types, SlotInv, NEW t \in Threads,
         Interpret(t) \/ Allocate(t) \/ Wait(t) \/ Gc(t) \/ WorldOps(t)
  PROVE  SlotInv'
  <1> USE DEF Step, Goto, Enter, ident, table, PcT, Occupies, Taking, Emptied,
              Creating, Types
  <1>1. UNCHANGED <<slotOf, newSlot, slot_reusable, next_index, registers>>
    BY DEF Interpret, Poll, Execute, ExplicitGc, Allocate, TryAllocLock,
           SpinAllocLock, TestSpace, Bump, Wait, WaitForGc, ClearReady, Unpark,
           Gc, LockGc, SetPending, Snapshot, ScanReady, Collect, ClearOwnReady,
           ClearPending, UnlockGc, WorldOps, LockDump, DumpWorld, LoadWorld,
           LockStoreReg, StoreReg
  <1>2. \A u \in Threads : /\ Occupies(u)' => Occupies(u)
                           /\ Taking(u)' => Taking(u)
                           /\ Emptied(u)' => Emptied(u)
    <2>1. CASE Interpret(t)
      BY <2>1 DEF Interpret, Poll, Execute, ExplicitGc
    <2>2. CASE Allocate(t)
      BY <2>2 DEF Allocate, TryAllocLock, SpinAllocLock, TestSpace, Bump
    <2>3. CASE Wait(t)
      BY <2>3 DEF Wait, WaitForGc, ClearReady, Unpark, WaitT
    <2>4. CASE Gc(t)
      BY <2>4 DEF Gc, LockGc, SetPending, Snapshot, ScanReady, Collect,
                  ClearOwnReady, ClearPending, UnlockGc, WaitT
    <2>5. CASE WorldOps(t)
      BY <2>5 DEF WorldOps, LockDump, DumpWorld, LoadWorld, LockStoreReg, StoreReg
    <2> QED
      BY <2>1, <2>2, <2>3, <2>4, <2>5
  <1> QED
    BY <1>1, <1>2, SlotFrame

\* A create_thread takes a slot that is free and empty.
LEMMA TakeSlot ==
  ASSUME Types, SlotInv, NEW t \in Threads, NEW s \in Slots,
         newSlot' = [newSlot EXCEPT ![t] = s], UNCHANGED <<slotOf, registers>>,
         slot_reusable' \subseteq slot_reusable \ {s},
         next_index' \in Nat, next_index <= next_index', s < next_index',
         registers[s] = Nobody,
         \A u \in Threads : /\ Occupies(u) => slotOf[u] # s
                            /\ Taking(u) => newSlot[u] # s,
         \A u \in Threads : /\ Occupies(u)' => Occupies(u)
                            /\ Taking(u)' => Taking(u) \/ u = t
                            /\ Emptied(u)' => Emptied(u)
  PROVE  SlotInv'
  <1>1. newSlot'[t] = s /\ \A u \in Threads : u # t => newSlot'[u] = newSlot[u]
    BY DEF Types, IdentT
  <1>2. OccupiedApart' /\ TakenUnoccupied' /\ TakenApart'
    BY <1>1 DEF SlotInv, OccupiedApart, TakenUnoccupied, TakenApart
  <1>3. ReusableUnused'
    BY <1>1 DEF SlotInv, ReusableUnused
  <1>4. next_index \in Nat /\ slotOf \in [Threads -> Nat] /\ newSlot \in [Threads -> Nat]
        /\ slot_reusable \subseteq Nat /\ s \in Nat /\ Slots \subseteq Nat
    BY BoundsAssumption DEF Types, TableT, IdentT, Slots
  <1>5. ReusableClean' /\ Below' /\ Beyond'
    <2>1. ReusableClean'
      BY <1>4 DEF SlotInv, ReusableClean
    <2>2. Below'
      BY <1>1, <1>4 DEF SlotInv, Below
    <2>3. Beyond'
      BY <1>4 DEF SlotInv, Beyond
    <2> QED
      BY <2>1, <2>2, <2>3
  <1>6. Empty'
    BY <1>1 DEF SlotInv, Empty
  <1> QED
    BY <1>2, <1>3, <1>5, <1>6 DEF SlotInv

\* A slot that is empty, and that nobody uses after the step, is for reuse.
LEMMA FreeSlot ==
  ASSUME Types, SlotInv, NEW s \in Slots,
         UNCHANGED <<next_index, registers>>,
         slot_reusable' = slot_reusable \cup {s},
         registers[s] = Nobody, s < next_index,
         \A u \in Threads :
            /\ Occupies(u)' => Occupies(u) /\ slotOf'[u] = slotOf[u] /\ slotOf[u] # s
            /\ Taking(u)' => Taking(u) /\ newSlot'[u] = newSlot[u] /\ newSlot[u] # s
            /\ Emptied(u)' => Emptied(u) /\ slotOf'[u] = slotOf[u]
  PROVE  SlotInv'
  <1>1. OccupiedApart' /\ TakenUnoccupied' /\ TakenApart'
    BY DEF SlotInv, OccupiedApart, TakenUnoccupied, TakenApart
  <1>2. ReusableUnused' /\ ReusableClean'
    BY DEF SlotInv, ReusableUnused, ReusableClean
  <1>3. Below' /\ Beyond'
    BY DEF SlotInv, Below, Beyond
  <1>4. Empty'
    BY DEF SlotInv, Empty
  <1> QED
    BY <1>1, <1>2, <1>3, <1>4 DEF SlotInv

\* The occupant of a slot puts something in it, or takes it out.
LEMMA FillSlot ==
  ASSUME Types, SlotInv, NEW t \in Threads, NEW v \in Threads \cup {Nobody},
         UNCHANGED <<slotOf, newSlot, slot_reusable, next_index>>,
         registers' = [registers EXCEPT ![slotOf[t]] = v], Occupies(t),
         \A u \in Threads : /\ Occupies(u)' => Occupies(u)
                            /\ Taking(u)' => Taking(u)
                            /\ Emptied(u)' => \/ Emptied(u) /\ u # t
                                              \/ u = t /\ v = Nobody
  PROVE  SlotInv'
  <1>1. /\ slotOf[t] \in Slots /\ registers'[slotOf[t]] = v
        /\ \A s \in Slots : s # slotOf[t] => registers'[s] = registers[s]
    BY DEF Types, IdentT, TableT
  <1>2. OccupiedApart' /\ TakenUnoccupied' /\ TakenApart' /\ ReusableUnused'
    BY DEF SlotInv, OccupiedApart, TakenUnoccupied, TakenApart, ReusableUnused
  <1>3. ReusableClean'
    BY <1>1 DEF SlotInv, ReusableUnused, ReusableClean, Types, TableT
  <1>4. Below'
    BY DEF SlotInv, Below
  <1>5. Empty'
    <2>1. \A u \in Threads : Taking(u) => newSlot[u] \in Slots /\ newSlot[u] # slotOf[t]
      BY DEF SlotInv, TakenUnoccupied, Types, IdentT
    <2>2. \A u \in Threads : Emptied(u) /\ u # t =>
                                 slotOf[u] \in Slots /\ slotOf[u] # slotOf[t]
      BY DEF SlotInv, OccupiedApart, Types, IdentT, Emptied, Occupies
    <2> QED
      BY <1>1, <2>1, <2>2 DEF SlotInv, Empty
  <1>6. Beyond'
    <2>1. ~ (next_index <= slotOf[t])
      BY BoundsAssumption DEF SlotInv, Below, Types, IdentT, TableT, Slots
    <2> QED
      BY <1>1, <2>1 DEF SlotInv, Beyond
  <1> QED
    BY <1>2, <1>3, <1>4, <1>5, <1>6 DEF SlotInv

\* The new thread comes to occupy the slot its creator took.
LEMMA HandSlot ==
  ASSUME Types, SlotInv, NEW t \in Threads, NEW u \in Threads,
         UNCHANGED <<slot_reusable, next_index, registers>>,
         Taking(t), ~ Occupies(u),
         newSlot' = [newSlot EXCEPT ![t] = 0],
         slotOf' = [slotOf EXCEPT ![u] = newSlot[t]],
         \A w \in Threads : /\ Occupies(w)' => Occupies(w) \/ w = u
                            /\ Taking(w)' => Taking(w) /\ w # t
                            /\ Emptied(w)' => Emptied(w) \/ w = u
  PROVE  SlotInv'
  <1>1. /\ slotOf'[u] = newSlot[t]
        /\ \A w \in Threads : w # u => slotOf'[w] = slotOf[w]
        /\ \A w \in Threads : w # t => newSlot'[w] = newSlot[w]
    BY DEF Types, IdentT
  <1>2. OccupiedApart'
    BY <1>1 DEF SlotInv, OccupiedApart, TakenUnoccupied
  <1>3. TakenUnoccupied'
    BY <1>1 DEF SlotInv, TakenUnoccupied, TakenApart
  <1>4. TakenApart'
    BY <1>1 DEF SlotInv, TakenApart
  <1>5. ReusableUnused' /\ ReusableClean'
    BY <1>1 DEF SlotInv, ReusableUnused, ReusableClean
  <1>6. Below' /\ Empty' /\ Beyond'
    BY <1>1 DEF SlotInv, Below, Empty, Beyond
  <1> QED
    BY <1>2, <1>3, <1>4, <1>5, <1>6 DEF SlotInv

LEMMA CreateSlotInv ==
  ASSUME Types, SlotInv, NEW t \in Threads, Create(t) PROVE SlotInv'
  <1> USE DEF Step, Goto, Occupies, Taking, Emptied, Creating
  <1>0. pc \in [Threads -> PC]
    BY DEF Types, PcT
  <1>1. CASE GetNextIndex(t)
    <2>1. pc' \in [Threads -> PC] /\ \A u \in Threads : u # t => pc'[u] = pc[u]
      BY <1>0, <1>1, Labels DEF GetNextIndex
    <2>2. pc[t] = "get_index" /\ pc'[t] \in {"unready", "top"}
      BY <1>0, <1>1 DEF GetNextIndex
    <2>3. \A u \in Threads : /\ Occupies(u)' => Occupies(u)
                             /\ Taking(u)' => Taking(u) \/ u = t
                             /\ Emptied(u)' => Emptied(u)
      BY <2>1, <2>2
    <2>4. UNCHANGED <<slotOf, registers>> /\ next_index \in Nat
      BY <1>1, BoundsAssumption DEF GetNextIndex, Types, TableT
    <2> HIDE DEF Occupies, Taking, Emptied
    <2>5. ASSUME NEW s \in Reusable, newSlot' = [newSlot EXCEPT ![t] = s],
                 StrikeSlot(s), UNCHANGED next_index
          PROVE  SlotInv'
      <3>1. s \in Slots /\ s \in slot_reusable
        BY DEF Reusable, Types, TableT
      <3>2. registers[s] = Nobody /\ s < next_index
        BY <3>1 DEF SlotInv, ReusableClean
      <3>3. \A u \in Threads : /\ Occupies(u) => slotOf[u] # s
                               /\ Taking(u) => newSlot[u] # s
        BY <3>1 DEF SlotInv, ReusableUnused
      <3>4. slot_reusable' \subseteq slot_reusable \ {s} /\ next_index <= next_index'
            /\ next_index' \in Nat /\ s < next_index'
        BY <2>4, <2>5, <3>2 DEF StrikeSlot
      <3> QED
        BY <2>3, <2>4, <2>5, <3>1, <3>2, <3>3, <3>4, TakeSlot
    <2>6. ASSUME RoomForThread, newSlot' = [newSlot EXCEPT ![t] = next_index],
                 next_index' = next_index + 1, UNCHANGED slot_reusable
          PROVE  SlotInv'
      <3>1. next_index \in Slots
        BY <2>4, <2>6, BoundsAssumption DEF RoomForThread, Slots
      <3>2. registers[next_index] = Nobody
        BY <3>1, <2>4 DEF SlotInv, Beyond
      <3>3. \A u \in Threads : /\ Occupies(u) => slotOf[u] # next_index
                               /\ Taking(u) => newSlot[u] # next_index
        BY <2>4 DEF SlotInv, Below
      <3>4. \A s \in slot_reusable : s # next_index
        BY <2>4 DEF SlotInv, ReusableClean
      <3>5. slot_reusable' \subseteq slot_reusable \ {next_index}
            /\ next_index <= next_index' /\ next_index' \in Nat /\ next_index < next_index'
        BY <2>4, <2>6, <3>4
      <3> QED
        BY <2>3, <2>4, <2>6, <3>1, <3>2, <3>3, <3>5, TakeSlot
    <2>7. ASSUME Step(t, "get_index", "top"),
                 UNCHANGED <<newSlot, slot_reusable, next_index>>
          PROVE  SlotInv'
      <3>1. \A u \in Threads : Taking(u)' => Taking(u)
        BY <2>1, <2>3, <2>7, <1>0 DEF Taking
      <3> QED
        BY <2>3, <2>4, <2>7, <3>1, SlotFrame
    <2> QED
      BY <1>1, <2>5, <2>6, <2>7 DEF GetNextIndex
  <1>2. CASE MarkUnready(t)
    BY <1>2, Labels, MoveSlotInv DEF MarkUnready, ident, table
  <1>3. CASE MarkAlive(t)
    BY <1>3, Labels, MoveSlotInv DEF MarkAlive, ident
  <1>4. CASE Spawn(t)
    <2>1. CASE Goto(t, "unspawn") /\ UNCHANGED <<ident, stale>>
      BY <1>4, <2>1, Labels, MoveSlotInv DEF Spawn, ident, table
    <2>2. ASSUME NEW u \in Threads, pc[u] = "absent",
                 pc' = [pc EXCEPT ![t] = "top", ![u] = "born"],
                 slotOf' = [slotOf EXCEPT ![u] = newSlot[t]],
                 newSlot' = [newSlot EXCEPT ![t] = 0]
          PROVE  SlotInv'
      <3>1. pc[t] = "spawn" /\ UNCHANGED <<slot_reusable, next_index, registers>>
        BY <1>4 DEF Spawn, table
      <3>2. Taking(t) /\ ~ Occupies(u)
        BY <2>2, <3>1
      <3>3. \A w \in Threads : /\ Occupies(w)' => Occupies(w) \/ w = u
                               /\ Taking(w)' => Taking(w) /\ w # t
                               /\ Emptied(w)' => Emptied(w) \/ w = u
        BY <1>0, <2>2, <3>1
      <3> HIDE DEF Occupies, Taking, Emptied
      <3> QED
        BY <2>2, <3>1, <3>2, <3>3, HandSlot
    <2> QED
      BY <1>4, <2>1, <2>2 DEF Spawn
  <1>5. CASE SpawnFailed(t)
    <2>1. /\ pc[t] = "unspawn" /\ UNCHANGED <<slotOf, next_index, registers>>
          /\ slot_reusable' = slot_reusable \cup {newSlot[t]}
          /\ newSlot' = [newSlot EXCEPT ![t] = 0]
      BY <1>5 DEF SpawnFailed, ReleaseThreadSlot
    <2>2. Taking(t) /\ newSlot[t] \in Slots
          /\ \A w \in Threads : w # t => newSlot'[w] = newSlot[w]
      BY <2>1 DEF Types, IdentT
    <2>3. \A w \in Threads : /\ Occupies(w)' => Occupies(w)
                             /\ Taking(w)' => Taking(w) /\ w # t
                             /\ Emptied(w)' => Emptied(w)
      BY <1>0, <1>5 DEF SpawnFailed
    <2> HIDE DEF Occupies, Taking, Emptied
    <2>4. registers[newSlot[t]] = Nobody /\ newSlot[t] < next_index
      BY <2>2 DEF SlotInv, Empty, Below
    <2>5. \A w \in Threads : /\ Occupies(w) => slotOf[w] # newSlot[t]
                             /\ Taking(w) /\ w # t => newSlot[w] # newSlot[t]
      BY <2>2 DEF SlotInv, TakenUnoccupied, TakenApart
    <2> QED
      BY <2>1, <2>2, <2>3, <2>4, <2>5, FreeSlot
  <1>6. CASE MakeStacks(t)
    <2>1. /\ pc[t] = "born" /\ Occupies(t)
          /\ UNCHANGED <<slotOf, newSlot, slot_reusable, next_index>>
      BY <1>6 DEF MakeStacks, ident
    <2>2. CASE UNCHANGED registers
      <3>1. \A w \in Threads : /\ Occupies(w)' => Occupies(w)
                               /\ Taking(w)' => Taking(w)
                               /\ Emptied(w)' => Emptied(w)
        BY <1>0, <1>6 DEF MakeStacks
      <3> QED
        BY <2>1, <2>2, <3>1, SlotFrame
    <2>3. CASE /\ Step(t, "born", "copy") \/ Step(t, "born", "dtor")
               /\ registers' = [registers EXCEPT ![slotOf[t]] = t]
      <3>1. \A w \in Threads : /\ Occupies(w)' => Occupies(w)
                               /\ Taking(w)' => Taking(w)
                               /\ Emptied(w)' => Emptied(w) /\ w # t
        BY <1>0, <2>3
      <3> HIDE DEF Occupies, Taking, Emptied
      <3> QED
        BY <2>1, <2>3, <3>1, FillSlot
    <2> QED
      BY <1>6, <2>2, <2>3 DEF MakeStacks
  <1>7. CASE CopyRegisters(t)
    BY <1>7, Labels, MoveSlotInv DEF CopyRegisters, table
  <1> QED
    BY <1>1, <1>2, <1>3, <1>4, <1>5, <1>6, <1>7 DEF Create

LEMMA ExitSlotInv ==
  ASSUME Types, SlotInv, NEW t \in Threads, Exit(t) PROVE SlotInv'
  <1> USE DEF Step, Goto, Occupies, Taking, Emptied, Creating
  <1>0. pc \in [Threads -> PC]
    BY DEF Types, PcT
  <1>1. CASE RetireDead(t)
    BY <1>1, Labels, MoveSlotInv DEF RetireDead, ident
  <1>2. CASE RetireReady(t)
    BY <1>2, Labels, MoveSlotInv DEF RetireReady, ident, table
  <1>3. CASE LockFree(t)
    BY <1>3, Labels, MoveSlotInv DEF LockFree, ident, table
  <1>4. CASE FreeRegisters(t)
    <2>1. /\ UNCHANGED <<slotOf, newSlot, slot_reusable, next_index>>
          /\ Occupies(t) /\ registers' = [registers EXCEPT ![slotOf[t]] = Nobody]
      BY <1>4 DEF FreeRegisters, ident
    <2>2. \A w \in Threads : /\ Occupies(w)' => Occupies(w)
                             /\ Taking(w)' => Taking(w)
                             /\ Emptied(w)' => (Emptied(w) /\ w # t) \/ w = t
      BY <1>0, <1>4 DEF FreeRegisters
    <2> HIDE DEF Occupies, Taking, Emptied
    <2> QED
      BY <2>1, <2>2, FillSlot
  <1>5. CASE UnlockFree(t)
    BY <1>5, Labels, MoveSlotInv DEF UnlockFree, ident, table
  <1>6. CASE Release(t)
    <2>1. /\ pc[t] = "release" /\ UNCHANGED <<newSlot, next_index, registers>>
          /\ slot_reusable' = slot_reusable \cup {slotOf[t]}
          /\ slotOf' = [slotOf EXCEPT ![t] = 0]
      BY <1>6 DEF Release, ReleaseThreadSlot
    <2>2. Occupies(t) /\ Emptied(t) /\ slotOf[t] \in Slots
          /\ \A w \in Threads : w # t => slotOf'[w] = slotOf[w]
      BY <2>1 DEF Types, IdentT
    <2>3. \A w \in Threads : /\ Occupies(w)' => Occupies(w) /\ w # t
                             /\ Taking(w)' => Taking(w)
                             /\ Emptied(w)' => Emptied(w) /\ w # t
      BY <1>0, <1>6 DEF Release
    <2> HIDE DEF Occupies, Taking, Emptied
    <2>4. registers[slotOf[t]] = Nobody /\ slotOf[t] < next_index
      BY <2>2 DEF SlotInv, Empty, Below
    <2>5. \A w \in Threads : /\ Occupies(w) /\ w # t => slotOf[w] # slotOf[t]
                             /\ Taking(w) => newSlot[w] # slotOf[t]
      BY <2>2 DEF SlotInv, OccupiedApart, TakenUnoccupied
    <2> QED
      BY <2>1, <2>2, <2>3, <2>4, <2>5, FreeSlot
  <1> QED
    BY <1>1, <1>2, <1>3, <1>4, <1>5, <1>6 DEF Exit

LEMMA StepSlotInv == Types /\ SlotInv /\ [Next]_vars => SlotInv'
  <1> SUFFICES ASSUME Types, SlotInv, [Next]_vars PROVE SlotInv'
    OBVIOUS
  <1>1. CASE UNCHANGED vars
    BY <1>1, SlotFrame DEF vars, ident, table, Occupies, Taking, Emptied
  <1>2. ASSUME NEW t \in Threads, ThreadStep(t) PROVE SlotInv'
    BY <1>2, SteadySlotInv, CreateSlotInv, ExitSlotInv DEF ThreadStep
  <1> QED
    BY <1>1, <1>2 DEF Next

\* No two threads share a slot, and a slot handed out again is clean.
THEOREM SlotsAreExclusive == Spec => []SlotsExclusive
  <1>1. Types /\ SlotInv /\ [Next]_vars => Types' /\ SlotInv'
    BY StepTypes, StepSlotInv
  <1>2. Spec => [](Types /\ SlotInv)
    BY <1>1, InitTypes, InitSlotInv, PTL DEF Spec
  <1> QED
    BY <1>2, SlotInvGives, PTL

----------------------------------------------------------------------------
(***************************************************************************)
(* While no thread is being created the handshake stops the world: the     *)
(* theorems here assume Spawners = {} and hold for any number of threads   *)
(* that are already running.  (With creation the claim is false; TLC shows *)
(* how in the run stw_spawn_race.)                                         *)
(***************************************************************************)

\* No thread is being created or started.
Quiet == \A t \in Threads : pc[t] \notin Creating \cup Starting

\* Where a thread may be while its slot is flagged.
FlagUp == Parked \cup {"clear"} \cup Handshake \cup Collecting
             \cup {"gc_unready"} \cup Exiting

\* A flag that is up is that of a thread which cannot touch the heap, at least
\* until it has gc_lock.
Flags == \A t \in Threads : Occupies(t) =>
            /\ slotOf[t] \in gc_ready => pc[t] \in FlagUp
            /\ slotOf[t] \in gc_thread_dead => pc[t] \in Exiting

\* The collector's scan has found every thread below scan out of the heap, and
\* none of them has come back.
Scanning == \A c \in Threads : pc[c] \in {"scan", "collect"} =>
    /\ gc_thread_count = next_index
    /\ pc[c] = "collect" => scan = gc_thread_count
    /\ \A u \in Threads :
          u # c /\ Occupies(u) /\ slotOf[u] < scan => pc[u] \in Parked \cup Exiting

LEMMA InitStopped == Init => Quiet /\ Flags /\ Scanning
  <1> SUFFICES ASSUME Init PROVE Quiet /\ Flags /\ Scanning
    OBVIOUS
  <1>1. \A t \in Threads : pc[t] \in {"top", "absent"}
    BY DEF Init
  <1>2. gc_ready = {} /\ gc_thread_dead = {}
    BY DEF Init
  <1> QED
    BY <1>1, <1>2 DEF Quiet, Flags, Scanning, Creating, Starting

LEMMA StepQuiet ==
  ASSUME Spawners = {}, Types, Quiet, NEW t \in Threads, ThreadStep(t)
  PROVE  Quiet' /\ ~ Create(t)
  <1> USE DEF Quiet, Creating, Starting, Step, Goto, Enter, Types, PcT
  <1>1. ~ Create(t)
    BY DEF Create, GetNextIndex, MarkUnready, MarkAlive, Spawn, SpawnFailed,
           MakeStacks, CopyRegisters
  <1>2. CASE Interpret(t)
    BY <1>1, <1>2 DEF Interpret, Poll, Execute, ExplicitGc
  <1>3. CASE Allocate(t)
    BY <1>1, <1>3 DEF Allocate, TryAllocLock, SpinAllocLock, TestSpace, Bump
  <1>4. CASE Wait(t)
    BY <1>1, <1>4 DEF Wait, WaitForGc, ClearReady, Unpark, WaitT
  <1>5. CASE Gc(t)
    BY <1>1, <1>5 DEF Gc, LockGc, SetPending, Snapshot, ScanReady, Collect,
                ClearOwnReady, ClearPending, UnlockGc, WaitT
  <1>6. CASE WorldOps(t)
    BY <1>1, <1>6 DEF WorldOps, LockDump, DumpWorld, LoadWorld, LockStoreReg, StoreReg
  <1>7. CASE Exit(t)
    BY <1>1, <1>7 DEF Exit, RetireDead, RetireReady, LockFree, FreeRegisters,
                UnlockFree, Release
  <1> QED
    BY <1>1, <1>2, <1>3, <1>4, <1>5, <1>6, <1>7 DEF ThreadStep

\* A step of t, creation apart, touches the flags of its own slot only and moves
\* nobody else.
LEMMA StepIsLocal ==
  ASSUME Types, NEW t \in Threads, ThreadStep(t), ~ Create(t)
  PROVE  /\ Occupies(t)
         /\ \A u \in Threads : u # t => pc'[u] = pc[u] /\ slotOf'[u] = slotOf[u]
         /\ slotOf'[t] = slotOf[t] \/ ~ Occupies(t)'
         /\ UNCHANGED next_index
         /\ \A s \in Slots : s # slotOf[t] =>
               /\ s \in gc_ready' <=> s \in gc_ready
               /\ s \in gc_thread_dead' <=> s \in gc_thread_dead
  <1> USE DEF Step, Goto, Enter, Types, PcT, IdentT, Occupies, Raise, Lower,
              ident, wait, table
  <1>1. CASE Interpret(t)
    BY <1>1 DEF Interpret, Poll, Execute, ExplicitGc
  <1>2. CASE Allocate(t)
    BY <1>2 DEF Allocate, TryAllocLock, SpinAllocLock, TestSpace, Bump
  <1>3. CASE Wait(t)
    BY <1>3 DEF Wait, WaitForGc, ClearReady, Unpark
  <1>4. CASE Gc(t)
    BY <1>4 DEF Gc, LockGc, SetPending, Snapshot, ScanReady, Collect,
                ClearOwnReady, ClearPending, UnlockGc
  <1>5. CASE WorldOps(t)
    BY <1>5 DEF WorldOps, LockDump, DumpWorld, LoadWorld, LockStoreReg, StoreReg
  <1>6. CASE Exit(t)
    BY <1>6 DEF Exit, RetireDead, RetireReady, LockFree, FreeRegisters,
                UnlockFree, Release, Dead, ReleaseThreadSlot
  <1> QED
    BY <1>1, <1>2, <1>3, <1>4, <1>5, <1>6 DEF ThreadStep

LEMMA StepFlags ==
  ASSUME Types, OccupiedApart, Flags, NEW t \in Threads, ThreadStep(t), ~ Create(t)
  PROVE  Flags'
  <1>1. ASSUME Occupies(t)'
        PROVE  /\ slotOf[t] \in gc_ready' => pc'[t] \in FlagUp
               /\ slotOf[t] \in gc_thread_dead' => pc'[t] \in Exiting
    <2> USE <1>1
        DEF Flags, FlagUp, Step, Goto, Enter, Types, PcT, Occupies, Raise, Lower,
            wait, table, Parked, Handshake, Collecting, Exiting
    <2>1. CASE Interpret(t)
      BY <2>1 DEF Interpret, Poll, Execute, ExplicitGc
    <2>2. CASE Allocate(t)
      BY <2>2 DEF Allocate, TryAllocLock, SpinAllocLock, TestSpace, Bump
    <2>3. CASE Wait(t)
      BY <2>3 DEF Wait, WaitForGc, ClearReady, Unpark, WaitT
    <2>4. CASE Gc(t)
      BY <2>4 DEF Gc, LockGc, SetPending, Snapshot, ScanReady, Collect,
                  ClearOwnReady, ClearPending, UnlockGc, WaitT
    <2>5. CASE WorldOps(t)
      BY <2>5 DEF WorldOps, LockDump, DumpWorld, LoadWorld, LockStoreReg, StoreReg
    <2>6. CASE Exit(t)
      BY <2>6 DEF Exit, RetireDead, RetireReady, LockFree, FreeRegisters,
                  UnlockFree, Release, Dead
    <2> QED
      BY <2>1, <2>2, <2>3, <2>4, <2>5, <2>6 DEF ThreadStep
  <1>2. slotOf'[t] = slotOf[t] \/ ~ Occupies(t)'
    BY StepIsLocal
  <1>3. ASSUME NEW u \in Threads, u # t, Occupies(u)'
        PROVE  /\ slotOf'[u] \in gc_ready' => pc'[u] \in FlagUp
               /\ slotOf'[u] \in gc_thread_dead' => pc'[u] \in Exiting
    <2>1. pc'[u] = pc[u] /\ slotOf'[u] = slotOf[u] /\ Occupies(u) /\ Occupies(t)
      BY <1>3, StepIsLocal DEF Occupies
    <2>2. slotOf[u] \in Slots /\ slotOf[u] # slotOf[t]
      BY <1>3, <2>1 DEF OccupiedApart, Types, IdentT
    <2> QED
      BY <2>1, <2>2, StepIsLocal DEF Flags
  <1> QED
    BY <1>1, <1>2, <1>3 DEF Flags

\* While another thread holds gc_lock, a step of t leaves the scan alone, and
\* takes t nowhere from Parked and nowhere but on, or away, from Exiting.
LEMMA StepOutsideGc ==
  ASSUME Types, Owner, NEW t \in Threads, NEW c \in Threads, c # t,
         pc[c] \in {"scan", "collect"}, ThreadStep(t), ~ Create(t)
  PROVE  /\ UNCHANGED <<gc_thread_count, scan>>
         /\ pc[t] \in Parked \cup Exiting => pc'[t] \in {"absent"} \cup Parked \cup Exiting
  <1>1. gc_lock = c /\ pc[t] \notin HoldsGc /\ gc_lock # Nobody
    BY ThreadsAssumption DEF Owner, HoldsGc, Handshake, Collecting
  <1> USE <1>1 DEF Step, Goto, Enter, Types, PcT, shake, LockGcMutex, HoldsGc,
                   Unparking, Handshake, Collecting, Finishing, Parked, Exiting
  <1>2. CASE Interpret(t)
    BY <1>2 DEF Interpret, Poll, Execute, ExplicitGc
  <1>3. CASE Allocate(t)
    BY <1>3 DEF Allocate, TryAllocLock, SpinAllocLock, TestSpace, Bump
  <1>4. CASE Wait(t)
    BY <1>4 DEF Wait, WaitForGc, ClearReady, Unpark
  <1>5. CASE Gc(t)
    BY <1>5 DEF Gc, LockGc, SetPending, Snapshot, ScanReady, Collect,
                ClearOwnReady, ClearPending, UnlockGc
  <1>6. CASE WorldOps(t)
    BY <1>6 DEF WorldOps, LockDump, DumpWorld, LoadWorld, LockStoreReg, StoreReg
  <1>7. CASE Exit(t)
    BY <1>7 DEF Exit, RetireDead, RetireReady, LockFree, FreeRegisters,
                UnlockFree, Release
  <1> QED
    BY <1>2, <1>3, <1>4, <1>5, <1>6, <1>7 DEF ThreadStep

\* A step by which t comes to, or stays at, "scan" or "collect".
LEMMA StepToScan ==
  ASSUME Types, NEW t \in Threads, ThreadStep(t), ~ Create(t),
         pc'[t] \in {"scan", "collect"}
  PROVE  Snapshot(t) \/ ScanReady(t)
  <1> USE DEF Step, Goto, Enter, Types, PcT
  <1>1. ~ Interpret(t) /\ ~ Allocate(t)
    BY DEF Interpret, Poll, Execute, ExplicitGc, Allocate, TryAllocLock,
           SpinAllocLock, TestSpace, Bump
  <1>2. ~ Wait(t) /\ ~ WorldOps(t)
    BY DEF Wait, WaitForGc, ClearReady, Unpark, WaitT, WorldOps, LockDump,
           DumpWorld, LoadWorld, LockStoreReg, StoreReg
  <1>3. ~ Exit(t)
    BY DEF Exit, RetireDead, RetireReady, LockFree, FreeRegisters, UnlockFree,
           Release
  <1>4. Gc(t)
    BY <1>1, <1>2, <1>3 DEF ThreadStep
  <1> QED
    BY <1>4 DEF Gc, LockGc, SetPending, Collect, ClearOwnReady, ClearPending,
                UnlockGc, WaitT

LEMMA StepScanning ==
  ASSUME Types, Owner, Flags, Scanning, NEW t \in Threads, ThreadStep(t), ~ Create(t)
  PROVE  Scanning'
  <1>1. SUFFICES ASSUME NEW c \in Threads, pc'[c] \in {"scan", "collect"}
        PROVE  /\ gc_thread_count' = next_index'
               /\ pc'[c] = "collect" => scan' = gc_thread_count'
               /\ \A u \in Threads :
                     u # c /\ Occupies(u)' /\ slotOf'[u] < scan' =>
                         pc'[u] \in Parked \cup Exiting
    BY DEF Scanning
  <1>2. CASE c # t
    <2>1. pc[c] \in {"scan", "collect"} /\ pc'[c] = pc[c] /\ UNCHANGED next_index
      BY <1>1, <1>2, StepIsLocal
    <2>2. /\ UNCHANGED <<gc_thread_count, scan>>
          /\ pc[t] \in Parked \cup Exiting =>
                 pc'[t] \in {"absent"} \cup Parked \cup Exiting
      BY <1>2, <2>1, StepOutsideGc
    <2>3. ASSUME NEW u \in Threads, u # c, Occupies(u)', slotOf'[u] < scan'
          PROVE  pc'[u] \in Parked \cup Exiting
      <3>1. CASE u = t
        <4>1. Occupies(t) /\ slotOf'[t] = slotOf[t]
          BY <2>3, <3>1, StepIsLocal
        <4>2. pc[t] \in Parked \cup Exiting
          BY <2>1, <2>2, <2>3, <3>1, <4>1 DEF Scanning
        <4> QED
          BY <2>2, <2>3, <3>1, <4>2 DEF Occupies
      <3>2. CASE u # t
        <4>1. pc'[u] = pc[u] /\ slotOf'[u] = slotOf[u] /\ Occupies(u)
          BY <2>3, <3>2, StepIsLocal DEF Occupies
        <4> QED
          BY <2>1, <2>2, <2>3, <4>1 DEF Scanning
      <3> QED
        BY <3>1, <3>2
    <2> QED
      BY <2>1, <2>2, <2>3 DEF Scanning
  <1>3. CASE c = t
    <2>0. \A u \in Threads : u # t => /\ pc'[u] = pc[u] /\ slotOf'[u] = slotOf[u]
                                      /\ slotOf[u] \in Nat
      BY BoundsAssumption, StepIsLocal DEF Types, IdentT, Slots
    <2>1. CASE Snapshot(t)
      <3>1. gc_thread_count' = next_index' /\ scan' = 0 /\ pc'[t] = "scan"
        BY <2>1 DEF Snapshot, SlotCount, Step, Goto, table, Types, PcT
      <3> QED
        BY <1>3, <2>0, <3>1
    <2>2. CASE ScanReady(t)
      <3>1. /\ pc[t] = "scan" /\ UNCHANGED <<gc_thread_count, next_index>>
            /\ scan \in Int
        BY <2>2 DEF ScanReady, table, Types, ShakeT
      <3>2. gc_thread_count = next_index
        BY <3>1 DEF Scanning
      <3>3. pc'[t] = "collect" => scan' = gc_thread_count'
        BY <2>2, <3>1 DEF ScanReady, Goto
      <3>4. ASSUME NEW u \in Threads, u # t, Occupies(u), slotOf[u] < scan'
            PROVE  pc[u] \in Parked \cup Exiting
        <4>1. CASE slotOf[u] < scan
          BY <3>1, <3>4, <4>1 DEF Scanning
        <4>2. CASE ~ (slotOf[u] < scan)
          <5>1. slotOf[u] = scan /\ Accounted(scan)
            BY <2>0, <2>2, <3>1, <3>4, <4>2 DEF ScanReady
          <5>2. pc[u] \in FlagUp
            BY <3>4, <5>1 DEF Flags, Accounted, FlagUp
          <5>3. pc[u] \notin HoldsGc
            BY <3>1, <3>4 DEF Owner, HoldsGc, Handshake
          <5> QED
            BY <5>2, <5>3 DEF FlagUp, HoldsGc, Unparking, Finishing
        <4> QED
          BY <4>1, <4>2
      <3> QED
        BY <1>3, <2>0, <3>1, <3>2, <3>3, <3>4 DEF Occupies
    <2> QED
      BY <1>1, <1>3, <2>1, <2>2, StepToScan
  <1> QED
    BY <1>2, <1>3

\* Everything the handshake rests on.
StopInv == Types /\ Owner /\ SlotInv /\ Quiet /\ Flags /\ Scanning

LEMMA StepStopInv ==
  ASSUME Spawners = {}, StopInv, [Next]_vars PROVE StopInv'
  <1>1. Types' /\ SlotInv'
    BY StepTypes, StepSlotInv DEF StopInv
  <1>2. CASE UNCHANGED vars
    BY <1>1, <1>2
       DEF StopInv, Owner, Quiet, Flags, Scanning, Occupies, vars, ident, wait,
           table, locks, shake
  <1>3. ASSUME NEW t \in Threads, ThreadStep(t)
        PROVE  Owner' /\ Quiet' /\ Flags' /\ Scanning'
    BY <1>3, StepOwner, StepQuiet, StepFlags, StepScanning DEF StopInv, SlotInv
  <1> QED
    BY <1>1, <1>2, <1>3 DEF StopInv, Next

LEMMA AlwaysStopInv == ASSUME Spawners = {} PROVE Spec => []StopInv
  <1>1. Init => StopInv
    BY InitTypes, InitOwner, InitSlotInv, InitStopped DEF StopInv
  <1>2. StopInv /\ [Next]_vars => StopInv'
    BY StepStopInv
  <1> QED
    BY <1>1, <1>2, PTL DEF Spec

LEMMA StopInvGives == StopInv => WorldStopped
  <1> SUFFICES ASSUME StopInv, NEW c \in Threads, NEW u \in Threads,
                      pc[c] \in Collecting, u # c, Occupies(u)
               PROVE  pc[u] \in Parked \cup Exiting
    BY DEF WorldStopped, Occupies
  <1>1. pc[c] = "collect"
    BY DEF Collecting
  <1>2. scan = next_index
    BY <1>1 DEF StopInv, Scanning
  <1>3. slotOf[u] < next_index
    BY DEF StopInv, SlotInv, Below
  <1> QED
    BY <1>1, <1>2, <1>3 DEF StopInv, Scanning

\* Objects are moved only when every other thread is parked, past its last
\* instruction or gone, if no thread is created.
THEOREM WorldStops ==
  ASSUME Spawners = {} PROVE Spec => []WorldStopped
  BY AlwaysStopInv, StopInvGives, PTL

----------------------------------------------------------------------------
(* What the collector finds.                                               *)

\* A slot that was handed out is empty only if it is flagged dead; a thread that
\* will touch objects again finds its own stacks in its slot.
Furnished ==
    /\ \A s \in Slots : s < next_index /\ registers[s] = Nobody => s \in gc_thread_dead
    /\ \A t \in Threads : pc[t] \in {"dtor_ready", "dtor_lock", "dtor_free"} =>
                              slotOf[t] \in gc_thread_dead
    /\ \A t \in Live : registers[slotOf[t]] = t

LEMMA InitFurnished == Init => Furnished
  <1> SUFFICES ASSUME Init PROVE Furnished
    OBVIOUS
  <1>1. /\ next_index \in Nat /\ slotOf \in [Threads -> Slots]
        /\ {slotOf[t] : t \in Running} = 0 .. next_index - 1
        /\ \A t, u \in Running : slotOf[t] = slotOf[u] => t = u
        /\ registers = [s \in Slots |-> IF s < next_index
                                THEN CHOOSE t \in Running : slotOf[t] = s
                                ELSE Nobody]
    BY BoundsAssumption DEF Init
  <1>2. \A t \in Threads : pc[t] \in {"top", "absent"} /\ (pc[t] = "top" => t \in Running)
    BY DEF Init
  <1>3. ASSUME NEW s \in Slots, s < next_index
        PROVE  registers[s] \in Running /\ slotOf[registers[s]] = s
    <2>1. s \in 0 .. next_index - 1
      BY <1>1, <1>3, BoundsAssumption DEF Slots
    <2>2. PICK t \in Running : slotOf[t] = s
      BY <1>1, <2>1
    <2>3. registers[s] = CHOOSE u \in Running : slotOf[u] = s
      BY <1>1, <1>3
    <2> QED
      BY <2>2, <2>3
  <1>4. ASSUME NEW t \in Running PROVE registers[slotOf[t]] = t
    <2>1. slotOf[t] \in Slots /\ slotOf[t] \in 0 .. next_index - 1
      BY <1>1, ThreadsAssumption
    <2>2. slotOf[t] < next_index
      BY <1>1, <2>1
    <2> QED
      BY <1>1, <1>3, <2>1, <2>2
  <1>5. \A s \in Slots : s < next_index => registers[s] # Nobody
    BY <1>3, ThreadsAssumption
  <1>6. \A t \in Live : t \in Running
    BY <1>2 DEF Live
  <1> QED
    BY <1>2, <1>4, <1>5, <1>6 DEF Furnished

LEMMA StepFurnished ==
  ASSUME StopInv, Furnished, NEW t \in Threads, ThreadStep(t), ~ Create(t)
  PROVE  Furnished'
  <1>0. Types /\ OccupiedApart
    BY DEF StopInv, SlotInv
  <1>1. CASE FreeRegisters(t)
    <2>1. /\ pc[t] = "dtor_free" /\ pc' = [pc EXCEPT ![t] = "dtor_unlock"]
          /\ UNCHANGED <<slotOf, gc_thread_dead, next_index>>
          /\ registers' = [registers EXCEPT ![slotOf[t]] = Nobody]
      BY <1>1 DEF FreeRegisters, Step, Goto, ident
    <2>2. slotOf[t] \in gc_thread_dead /\ slotOf[t] \in Slots
      BY <1>0, <2>1 DEF Furnished, Types, IdentT
    <2>3. \A u \in Threads : u # t => pc'[u] = pc[u]
      BY <1>0, <2>1 DEF Types, PcT
    <2>4. pc'[t] = "dtor_unlock"
      BY <1>0, <2>1 DEF Types, PcT
    <2>5. \A s \in Slots : s # slotOf[t] => registers'[s] = registers[s]
      BY <1>0, <2>1 DEF Types, TableT
    <2>6. ASSUME NEW u \in Live' PROVE registers'[slotOf'[u]] = u
      <3>1. u # t /\ u \in Live /\ pc[u] # "absent"
        BY <2>3, <2>4 DEF Live, Exiting
      <3>2. slotOf[u] # slotOf[t] /\ slotOf[u] \in Slots
        BY <1>0, <2>1, <3>1 DEF OccupiedApart, Occupies, Live, Types, IdentT
      <3> QED
        BY <2>1, <2>5, <3>1, <3>2 DEF Furnished
    <2>7. \A u \in Threads : pc'[u] \in {"dtor_ready", "dtor_lock", "dtor_free"} =>
                                 slotOf'[u] \in gc_thread_dead'
      BY <2>1, <2>3, <2>4 DEF Furnished
    <2>8. \A s \in Slots : s < next_index' /\ registers'[s] = Nobody =>
                               s \in gc_thread_dead'
      BY <2>1, <2>2, <2>5 DEF Furnished
    <2> QED
      BY <2>6, <2>7, <2>8 DEF Furnished
  <1>2. CASE ~ FreeRegisters(t)
    <2>1. UNCHANGED registers /\ gc_thread_dead \subseteq gc_thread_dead'
      BY <1>2 DEF ThreadStep, Interpret, Poll, Execute, ExplicitGc, Allocate,
           TryAllocLock, SpinAllocLock, TestSpace, Bump, Wait, WaitForGc,
           ClearReady, Unpark, Gc, LockGc, SetPending, Snapshot, ScanReady,
           Collect, ClearOwnReady, ClearPending, UnlockGc, WorldOps, LockDump,
           DumpWorld, LoadWorld, LockStoreReg, StoreReg, Exit, RetireDead,
           RetireReady, LockFree, UnlockFree, Release, Dead, ReleaseThreadSlot,
           table
    <2>2. /\ t \in Live' => t \in Live
          /\ pc'[t] \in {"dtor_ready", "dtor_lock", "dtor_free"} =>
                 slotOf[t] \in gc_thread_dead'
      <3> USE <1>0 DEF Types, PcT, Step, Goto, Enter, Live, Exiting, table
      <3>1. CASE Interpret(t)
        BY <3>1 DEF Interpret, Poll, Execute, ExplicitGc
      <3>2. CASE Allocate(t)
        BY <3>2 DEF Allocate, TryAllocLock, SpinAllocLock, TestSpace, Bump
      <3>3. CASE Wait(t)
        BY <3>3 DEF Wait, WaitForGc, ClearReady, Unpark, WaitT
      <3>4. CASE Gc(t)
        BY <3>4 DEF Gc, LockGc, SetPending, Snapshot, ScanReady, Collect,
                    ClearOwnReady, ClearPending, UnlockGc, WaitT
      <3>5. CASE WorldOps(t)
        BY <3>5 DEF WorldOps, LockDump, DumpWorld, LoadWorld, LockStoreReg, StoreReg
      <3>6. CASE Exit(t)
        BY <3>6 DEF Exit, RetireDead, RetireReady, LockFree, FreeRegisters,
                    UnlockFree, Release, Dead, Furnished
      <3> QED
        BY <3>1, <3>2, <3>3, <3>4, <3>5, <3>6 DEF ThreadStep
    <2>3. /\ \A u \in Threads : u # t => pc'[u] = pc[u] /\ slotOf'[u] = slotOf[u]
          /\ slotOf'[t] = slotOf[t] \/ ~ Occupies(t)'
      BY <1>0, StepIsLocal
    <2>4. ASSUME NEW u \in Live' PROVE registers'[slotOf'[u]] = u
      <3>1. slotOf'[u] = slotOf[u] /\ u \in Live
        BY <2>2, <2>3 DEF Live, Occupies
      <3> QED
        BY <2>1, <3>1 DEF Furnished
    <2>5. \A u \in Threads : pc'[u] \in {"dtor_ready", "dtor_lock", "dtor_free"} =>
                                 slotOf'[u] \in gc_thread_dead'
      BY <2>1, <2>2, <2>3 DEF Furnished, Occupies
    <2>6. UNCHANGED next_index
      BY <1>0, StepIsLocal
    <2> QED
      BY <2>1, <2>4, <2>5, <2>6 DEF Furnished
  <1> QED
    BY <1>1, <1>2

\* A collection visits the slot of every thread that will touch objects again.
LEMMA AllVisited ==
  ASSUME StopInv, Furnished, NEW c \in Threads, pc[c] = "collect", NEW u \in Live
  PROVE  Visited(u)
  <1>1. Occupies(u) /\ u \in Threads /\ pc[u] \notin Exiting
    BY DEF Live, Occupies
  <1>2. slotOf[u] \notin gc_thread_dead
    BY <1>1 DEF StopInv, Flags
  <1>3. slotOf[u] < gc_thread_count
    BY <1>1 DEF StopInv, Scanning, SlotInv, Below
  <1>4. slotOf[u] \in Nat /\ gc_thread_count \in Int
    BY <1>1, BoundsAssumption DEF StopInv, Types, IdentT, ShakeT, Slots
  <1>5. slotOf[u] \in 0 .. gc_thread_count - 1
    BY <1>3, <1>4
  <1> QED
    BY <1>2, <1>5 DEF Visited, Scanned, Furnished

LEMMA StepStale ==
  ASSUME Loaders = {}, StopInv, Furnished, stale = {}, \A t \in Threads : pc[t] # "load",
         \A t \in Threads : pc[t] # "load_wait",
         NEW t \in Threads, ThreadStep(t), ~ Create(t)
  PROVE  /\ stale' = {}
         /\ \A u \in Threads : pc'[u] \notin {"load", "load_wait"}
  <1>0. Types
    BY DEF StopInv
  <1>1. stale' = {}
    <2>1. CASE Collect(t)
      BY <2>1, AllVisited DEF Collect, Step
    <2>2. CASE ~ Collect(t)
      BY <2>2 DEF ThreadStep, Interpret, Poll, Execute, ExplicitGc, Allocate,
           TryAllocLock, SpinAllocLock, TestSpace, Bump, Wait, WaitForGc,
           ClearReady, Unpark, Gc, LockGc, SetPending, Snapshot, ScanReady,
           ClearOwnReady, ClearPending, UnlockGc, WorldOps, LockDump,
           DumpWorld, LoadWorld, LockStoreReg, StoreReg, Exit, RetireDead,
           RetireReady, LockFree, UnlockFree, FreeRegisters, Release, Step, heap
    <2> QED
      BY <2>1, <2>2
  <1>2. pc'[t] \notin {"load", "load_wait"}
    <2> USE <1>0 DEF Types, PcT, Step, Goto, Enter
    <2>1. CASE Interpret(t)
      BY <2>1 DEF Interpret, Poll, Execute, ExplicitGc
    <2>2. CASE Allocate(t)
      BY <2>2 DEF Allocate, TryAllocLock, SpinAllocLock, TestSpace, Bump
    <2>3. CASE Wait(t)
      BY <2>3 DEF Wait, WaitForGc, ClearReady, Unpark, WaitT
    <2>4. CASE Gc(t)
      BY <2>4 DEF Gc, LockGc, SetPending, Snapshot, ScanReady, Collect,
                  ClearOwnReady, ClearPending, UnlockGc, WaitT
    <2>5. CASE WorldOps(t)
      BY <2>5 DEF WorldOps, LockDump, DumpWorld, LoadWorld, LockStoreReg, StoreReg
    <2>6. CASE Exit(t)
      BY <2>6 DEF Exit, RetireDead, RetireReady, LockFree, FreeRegisters,
                  UnlockFree, Release
    <2> QED
      BY <2>1, <2>2, <2>3, <2>4, <2>5, <2>6 DEF ThreadStep
  <1>3. \A u \in Threads : u # t => pc'[u] = pc[u]
    BY <1>0, StepIsLocal
  <1> QED
    BY <1>1, <1>2, <1>3

\* Nothing is stale, and nobody is about to replace the heap.
Fresh == stale = {} /\ \A t \in Threads : pc[t] \notin {"load", "load_wait"}

LEMMA AlwaysFurnished ==
  ASSUME Spawners = {}, Loaders = {}
  PROVE  Spec => [](StopInv /\ Furnished /\ Fresh)
  <1>1. Init => Furnished /\ Fresh
    BY InitFurnished DEF Init, Fresh
  <1>2. Init => StopInv
    BY InitTypes, InitOwner, InitSlotInv, InitStopped DEF StopInv
  <1>3. ASSUME StopInv, Furnished, Fresh, [Next]_vars
        PROVE  StopInv' /\ Furnished' /\ Fresh'
    <2>1. CASE UNCHANGED vars
      BY <1>3, <2>1, StepStopInv
         DEF Furnished, Fresh, Live, vars, ident, wait, table, heap
    <2>2. ASSUME NEW t \in Threads, ThreadStep(t) PROVE Furnished' /\ Fresh'
      <3>1. ~ Create(t)
        BY <1>3, <2>2, StepQuiet DEF StopInv
      <3> QED
        BY <1>3, <2>2, <3>1, StepFurnished, StepStale DEF Fresh
    <2> QED
      BY <1>3, <2>1, <2>2, StepStopInv DEF Next
  <1> QED
    BY <1>1, <1>2, <1>3, PTL DEF Spec

\* With no thread created and no world loaded, no thread in the interpreter
\* ever holds a reference into a space that has been replaced.
THEOREM RootsStayFresh ==
  ASSUME Spawners = {}, Loaders = {} PROVE Spec => []NoStaleRoots
  <1>1. Fresh => NoStaleRoots
    BY DEF Fresh, NoStaleRoots
  <1> QED
    BY <1>1, AlwaysFurnished, PTL

\* The collector never looks for roots in a slot without stacks.
THEOREM ScannedSlotsAreFurnished ==
  ASSUME Spawners = {}, Loaders = {} PROVE Spec => []ScannedSlotsHaveStacks
  <1>1. StopInv /\ Furnished => ScannedSlotsHaveStacks
    <2> SUFFICES ASSUME StopInv, Furnished, NEW c \in Threads,
                        pc[c] \in Collecting, NEW s \in Scanned
                 PROVE  registers[s] # Nobody
      BY DEF ScannedSlotsHaveStacks
    <2>1. gc_thread_count = next_index /\ gc_thread_count \in 0 .. MaxThreads
      BY DEF StopInv, Scanning, Collecting, Types, ShakeT
    <2>2. s \in Slots /\ s < next_index /\ s \notin gc_thread_dead
      BY <2>1, BoundsAssumption DEF Scanned, Slots
    <2> QED
      BY <2>2 DEF Furnished
  <1> QED
    BY <1>1, AlwaysFurnished, PTL

----------------------------------------------------------------------------
(* The refinement.                                                         *)

\* Where a thread may touch objects, in the mapping to HeapAccess.
InHeap == Mutating \cup Creating \cup Starting

LEMMA StepAccess ==
  ASSUME StopInv, NEW t \in Threads, ThreadStep(t), ~ Create(t)
  PROVE  \/ pc'[t] \in InHeap <=> pc[t] \in InHeap
         \/ pc'[t] \notin InHeap
         \/ \A c \in Threads : pc[c] # "collect"
  <1>0. Types /\ Owner /\ \A c \in Threads : pc[c] = "collect" => gc_lock = c
    BY DEF StopInv, Owner, HoldsGc, Collecting
  <1> USE <1>0 DEF Types, PcT, Step, Goto, Enter, InHeap, Mutating, Creating,
                   Starting
  <1>1. CASE Interpret(t)
    BY <1>1 DEF Interpret, Poll, Execute, ExplicitGc
  <1>2. CASE Allocate(t)
    BY <1>2 DEF Allocate, TryAllocLock, SpinAllocLock, TestSpace, Bump
  <1>3. CASE Wait(t)
    BY <1>3 DEF Wait, WaitForGc, ClearReady, Unpark, LockGcMutex, WaitT, Owner,
                HoldsGc, Unparking
  <1>4. CASE Gc(t)
    BY <1>4 DEF Gc, LockGc, SetPending, Snapshot, ScanReady, Collect,
                ClearOwnReady, ClearPending, UnlockGc, WaitT, Owner, HoldsGc,
                Finishing, Unparking, Handshake, Collecting
  <1>5. CASE WorldOps(t)
    BY <1>5 DEF WorldOps, LockDump, DumpWorld, LoadWorld, LockStoreReg, StoreReg
  <1>6. CASE Exit(t)
    BY <1>6 DEF Exit, RetireDead, RetireReady, LockFree, FreeRegisters,
                UnlockFree, Release
  <1> QED
    BY <1>1, <1>2, <1>3, <1>4, <1>5, <1>6 DEF ThreadStep

\* What a step does to who touches the heap and who collects.
LEMMA StepCollecting ==
  ASSUME Types, NEW t \in Threads, ThreadStep(t), ~ Create(t)
  PROVE  /\ pc[t] = "collect" => Collect(t) /\ pc'[t] = "gc_unready"
         /\ pc[t] # "collect" /\ pc'[t] = "collect" =>
                pc[t] = "scan" /\ scan = gc_thread_count
  <1>1. ASSUME pc[t] = "collect" PROVE Collect(t) /\ pc'[t] = "gc_unready"
    BY <1>1 DEF Types, PcT, Goto, ThreadStep, Interpret, Poll, Execute, ExplicitGc,
         Allocate, TryAllocLock, SpinAllocLock, TestSpace, Bump, Wait, WaitForGc,
         ClearReady, Unpark, Gc, LockGc, SetPending, Snapshot, ScanReady,
         Collect, ClearOwnReady, ClearPending, UnlockGc, WorldOps, LockDump,
         DumpWorld, LoadWorld, LockStoreReg, StoreReg, Exit, RetireDead,
         RetireReady, LockFree, FreeRegisters, UnlockFree, Release, Step
  <1>2. ASSUME pc[t] # "collect", pc'[t] = "collect"
        PROVE  pc[t] = "scan" /\ scan = gc_thread_count
    <2>1. CASE Snapshot(t)
      BY <1>2, <2>1 DEF Snapshot, Step, Goto, Types, PcT
    <2>2. CASE ScanReady(t)
      BY <1>2, <2>2 DEF ScanReady, Goto, Types, PcT
    <2> QED
      BY <1>2, <2>1, <2>2, StepToScan
  <1> QED
    BY <1>1, <1>2

LEMMA InHeapOutside ==
  /\ InHeap \cap ({"absent", "scan"} \cup Collecting \cup Finishing
                     \cup Parked \cup Exiting) = {}
  /\ InHeap \subseteq PC /\ Collecting = {"collect"}
  BY DEF InHeap, Mutating, Creating, Starting, Collecting, Finishing, Parked,
         Exiting, PC

LEMMA StepRefines ==
  ASSUME Spawners = {}, StopInv, NEW t \in Threads, ThreadStep(t)
  PROVE  [Access!Next]_(Access!vars)
  <1> DEFINE A == {u \in Threads : pc[u] \in InHeap}
             C == {u \in Threads : pc[u] = "collect"}
  <1>1. ~ Create(t) /\ Types /\ Owner
    BY StepQuiet DEF StopInv
  <1>2. \A u \in Threads : u # t => pc'[u] = pc[u]
    BY <1>1, StepIsLocal
  <1>3. \A u, w \in C : u = w
    BY <1>1 DEF Owner, HoldsGc, Collecting
  <1>4. CASE pc[t] = "collect"
    <2>1. C = {t} /\ C' = {} /\ A' = A
      BY <1>1, <1>2, <1>3, <1>4, StepCollecting, InHeapOutside DEF Finishing
    <2> QED
      BY <2>1 DEF Access!Next, Access!End, InHeap, Collecting
  <1>5. CASE pc[t] # "collect" /\ pc'[t] = "collect"
    <2>1. pc[t] = "scan" /\ scan = gc_thread_count
      BY <1>1, <1>5, StepCollecting
    <2>2. \A u \in Threads : u # t => pc[u] \in {"absent"} \cup Parked \cup Exiting
      <3>1. \A u \in Threads : Occupies(u) => slotOf[u] < scan
        BY <2>1 DEF StopInv, Scanning, SlotInv, Below
      <3> QED
        BY <2>1, <3>1 DEF StopInv, Scanning, Occupies
    <2>3. A = {} /\ A' = {}
      BY <1>2, <1>5, <2>1, <2>2, InHeapOutside
    <2>4. C = {}
      BY <1>1, <2>1 DEF Owner, HoldsGc, Handshake, Collecting
    <2>5. C' = {t}
      BY <1>2, <1>5, <2>4
    <2> QED
      BY <2>3, <2>4, <2>5 DEF Access!Next, Access!Begin, InHeap, Collecting
  <1>6. CASE pc[t] # "collect" /\ pc'[t] # "collect"
    <2>1. C' = C
      BY <1>2, <1>6
    <2>2. CASE pc'[t] \in InHeap <=> pc[t] \in InHeap
      <3>1. A' = A
        BY <1>2, <2>2
      <3> QED
        BY <2>1, <3>1 DEF Access!vars, InHeap, Collecting
    <2>3. CASE pc'[t] \notin InHeap
      <3>1. A' = A \ {t}
        BY <1>2, <2>3
      <3> QED
        BY <2>1, <3>1 DEF Access!Next, Access!Leave, InHeap, Collecting
    <2>4. CASE pc'[t] \in InHeap /\ \A c \in Threads : pc[c] # "collect"
      <3>1. A' = A \cup {t} /\ C = {}
        BY <1>2, <2>4
      <3> QED
        BY <2>1, <3>1 DEF Access!Next, Access!Enter, InHeap, Collecting
    <2> QED
      BY <1>1, <2>2, <2>3, <2>4, StepAccess
  <1> QED
    BY <1>4, <1>5, <1>6

\* If no thread is created, the handshake, with all its flags and locks, is a
\* way for the threads to take turns with one collector at the heap.
THEOREM HandshakeShares ==
  ASSUME Spawners = {} PROVE Spec => HeapShared
  <1>1. Init => Access!Init
    BY DEF Init, Access!Init, Mutating, Creating, Starting, Collecting
  <1>2. ASSUME StopInv, [Next]_vars PROVE [Access!Next]_(Access!vars)
    <2>1. CASE UNCHANGED vars
      BY <2>1 DEF vars, Access!vars
    <2> QED
      BY <1>2, <2>1, StepRefines DEF Next
  <1> QED
    BY <1>1, <1>2, AlwaysStopInv, PTL DEF Spec, HeapShared, Access!Spec

----------------------------------------------------------------------------
(***************************************************************************)
(* What the handshake still guarantees while threads are created, for any  *)
(* number of threads and whoever creates them.  A thread that is created   *)
(* during a handshake is not waited for, but gc_pending is up before it    *)
(* starts, so it parks at its first poll: it executes no instruction.      *)
(***************************************************************************)

\* What a thread goes through before its first instruction.
Newborn == {"born", "copy", "top"}

\* Flags of the slots that threads occupy, as without creation, and of the slots that
\* are handed to new threads.
CleanSlots == \A t \in Threads :
    /\ pc[t] \in {"undead", "spawn"} => newSlot[t] \notin gc_ready
    /\ pc[t] = "spawn" => newSlot[t] \notin gc_thread_dead

\* gc_pending is up from the store by the collector to the other one.
Pending == \A c \in Threads :
    pc[c] \in {"snapshot", "scan", "collect", "gc_unready", "gc_clear"} => gc_pending

\* The collector's scan has found every thread below scan out of the heap.  None of
\* them has come back, and none that has come since has executed anything.
ScanningLate == \A c \in Threads : pc[c] \in {"scan", "collect"} =>
    /\ pc[c] = "collect" => scan = gc_thread_count
    /\ \A u \in Threads :
          u # c /\ Occupies(u) /\ ~ (scan <= slotOf[u] /\ slotOf[u] < gc_thread_count) =>
             pc[u] \in Parked \cup Exiting \cup Newborn

HandshakeInv == Flags /\ CleanSlots /\ Pending /\ ScanningLate

LEMMA InitHandshake == Init => HandshakeInv
  <1> SUFFICES ASSUME Init PROVE HandshakeInv
    OBVIOUS
  <1>1. \A t \in Threads : pc[t] \in {"top", "absent"}
    BY DEF Init
  <1> QED
    BY <1>1, InitStopped DEF HandshakeInv, CleanSlots, Pending, ScanningLate

\* Flags of a slot are lowered before it is handed over, and raised by its occupant.
LEMMA CreateFlags ==
  ASSUME Types, SlotInv, Flags, CleanSlots, NEW t \in Threads, Create(t)
  PROVE  Flags' /\ CleanSlots'
  <1> USE DEF Types, PcT, IdentT, Step, Goto, Flags, CleanSlots, FlagUp, Occupies,
              Parked, Handshake, Collecting, Exiting, ident, wait, table
  <1>0. TakenUnoccupied /\ TakenApart
    BY DEF SlotInv
  <1>1. CASE GetNextIndex(t)
    BY <1>1 DEF GetNextIndex
  <1>2. CASE MarkUnready(t)
    BY <1>2 DEF MarkUnready
  <1>3. CASE MarkAlive(t)
    BY <1>3 DEF MarkAlive
  <1>4. CASE Spawn(t)
    BY <1>4 DEF Spawn
  <1>5. CASE SpawnFailed(t)
    <2>1. \A u \in Threads : Occupies(u) => slotOf[u] # newSlot[t]
      BY <1>0, <1>5 DEF SpawnFailed, TakenUnoccupied, Taking, Creating
    <2>2. \A u \in Threads : u # t /\ pc[u] \in {"undead", "spawn"} => newSlot[u] # newSlot[t]
      BY <1>0, <1>5 DEF SpawnFailed, TakenApart, Taking, Creating
    <2> QED
      BY <1>5, <2>1, <2>2 DEF SpawnFailed, ReleaseThreadSlot
  <1>6. CASE MakeStacks(t)
    BY <1>6 DEF MakeStacks
  <1>7. CASE CopyRegisters(t)
    BY <1>7 DEF CopyRegisters
  <1> QED
    BY <1>1, <1>2, <1>3, <1>4, <1>5, <1>6, <1>7 DEF Create

LEMMA StepHandshakeFlags ==
  ASSUME Types, SlotInv, Flags, CleanSlots, NEW t \in Threads, ThreadStep(t)
  PROVE  Flags' /\ CleanSlots'
  <1>1. CASE Create(t)
    BY <1>1, CreateFlags
  <1>2. CASE ~ Create(t)
    <2>1. Flags'
      BY <1>2, StepFlags DEF SlotInv
    <2>2. /\ Occupies(t) /\ \A u \in Threads : u # t => pc'[u] = pc[u]
          /\ \A s \in Slots : s # slotOf[t] => /\ s \in gc_ready' <=> s \in gc_ready
                                               /\ s \in gc_thread_dead' <=> s \in gc_thread_dead
      BY <1>2, StepIsLocal
    <2>3. newSlot' = newSlot /\ pc'[t] \notin {"undead", "spawn"}
      <3> USE <1>2 DEF Types, PcT, Step, Goto, Enter, ident
      <3>1. CASE Interpret(t)
        BY <3>1 DEF Interpret, Poll, Execute, ExplicitGc
      <3>2. CASE Allocate(t)
        BY <3>2 DEF Allocate, TryAllocLock, SpinAllocLock, TestSpace, Bump
      <3>3. CASE Wait(t)
        BY <3>3 DEF Wait, WaitForGc, ClearReady, Unpark, WaitT
      <3>4. CASE Gc(t)
        BY <3>4 DEF Gc, LockGc, SetPending, Snapshot, ScanReady, Collect,
                    ClearOwnReady, ClearPending, UnlockGc, WaitT
      <3>5. CASE WorldOps(t)
        BY <3>5 DEF WorldOps, LockDump, DumpWorld, LoadWorld, LockStoreReg, StoreReg
      <3>6. CASE Exit(t)
        BY <3>6 DEF Exit, RetireDead, RetireReady, LockFree, FreeRegisters,
                    UnlockFree, Release
      <3> QED
        BY <1>2, <3>1, <3>2, <3>3, <3>4, <3>5, <3>6 DEF ThreadStep
    <2>4. ASSUME NEW u \in Threads, pc'[u] \in {"undead", "spawn"}
          PROVE  u # t /\ pc'[u] = pc[u] /\ newSlot[u] \in Slots /\ newSlot[u] # slotOf[t]
      BY <2>2, <2>3, <2>4 DEF SlotInv, TakenUnoccupied, Taking, Creating, Types, IdentT
    <2> QED
      BY <2>1, <2>2, <2>3, <2>4 DEF CleanSlots
  <1> QED
    BY <1>1, <1>2

\* Only the thread that has gc_lock moves gc_pending.
LEMMA StepPending ==
  ASSUME Types, Owner, Pending, NEW t \in Threads, ThreadStep(t)
  PROVE  Pending'
  <1> USE DEF Pending, Types, PcT, Step, Goto, Enter, shake
  <1>1. CASE Interpret(t)
    BY <1>1 DEF Interpret, Poll, Execute, ExplicitGc
  <1>2. CASE Allocate(t)
    BY <1>2 DEF Allocate, TryAllocLock, SpinAllocLock, TestSpace, Bump
  <1>3. CASE Wait(t)
    BY <1>3 DEF Wait, WaitForGc, ClearReady, Unpark, WaitT
  <1>4. CASE Gc(t)
    BY <1>4 DEF Gc, LockGc, SetPending, Snapshot, ScanReady, Collect, ClearOwnReady, ClearPending,
                UnlockGc, WaitT, Owner, HoldsGc, Handshake, Collecting, Finishing
  <1>5. CASE WorldOps(t)
    BY <1>5 DEF WorldOps, LockDump, DumpWorld, LoadWorld, LockStoreReg, StoreReg
  <1>6. CASE Create(t)
    BY <1>6 DEF Create, GetNextIndex, MarkUnready, MarkAlive, Spawn, SpawnFailed, MakeStacks, CopyRegisters
  <1>7. CASE Exit(t)
    BY <1>7 DEF Exit, RetireDead, RetireReady, LockFree, FreeRegisters, UnlockFree, Release
  <1> QED
    BY <1>1, <1>2, <1>3, <1>4, <1>5, <1>6, <1>7 DEF ThreadStep

\* A step by which c comes to, or stays at, "scan" or "collect".
LEMMA OnlyScanners ==
  ASSUME Types, NEW t \in Threads, ThreadStep(t), NEW c \in Threads, pc'[c] \in {"scan", "collect"}
  PROVE  \/ c # t /\ pc'[c] = pc[c]
         \/ c = t /\ (Snapshot(t) \/ ScanReady(t))
  <1>1. CASE Create(t)
    BY <1>1 DEF Create, GetNextIndex, MarkUnready, MarkAlive, Spawn, SpawnFailed, MakeStacks, CopyRegisters,
                Step, Goto, Types, PcT
  <1>2. CASE ~ Create(t)
    BY <1>2, StepToScan, StepIsLocal
  <1> QED
    BY <1>1, <1>2

\* While another thread scans or collects, a step of t leaves the scan alone and goes
\* nowhere from Parked, from Exiting, or before its first instruction, but to Parked,
\* to Exiting or on to that instruction.  A thread that it creates is a new one.
LEMMA LateSteps ==
  ASSUME Types, Owner, Pending, NEW t \in Threads, NEW c \in Threads, c # t,
         pc[c] \in {"scan", "collect"}, ThreadStep(t)
  PROVE  /\ UNCHANGED <<gc_thread_count, scan>>
         /\ pc[t] \in Parked \cup Exiting \cup Newborn =>
                pc'[t] \in {"absent"} \cup Parked \cup Exiting \cup Newborn
         /\ \A u \in Threads : u # t =>
                \/ pc'[u] = pc[u] /\ slotOf'[u] = slotOf[u]
                \/ pc'[u] = "born"
         /\ slotOf'[t] = slotOf[t] \/ ~ Occupies(t)'
         /\ Occupies(t)
  <1>1. CASE Create(t)
    BY <1>1 DEF Create, GetNextIndex, MarkUnready, MarkAlive, Spawn, SpawnFailed, MakeStacks, CopyRegisters,
                Step, Goto, Types, PcT, IdentT, ident, shake, Newborn, Parked, Exiting, Occupies
  <1>2. CASE ~ Create(t)
    <2>1. UNCHANGED <<gc_thread_count, scan>>
      BY <1>2, StepOutsideGc
    <2>2. CASE pc[t] \in Parked \cup Exiting
      BY <1>2, <2>1, <2>2, StepOutsideGc, StepIsLocal
    <2>3. CASE pc[t] \notin Parked \cup Exiting
      <3>1. gc_pending
        BY DEF Pending
      <3>2. CASE pc[t] = "top"
        <4>1. Poll(t)
          BY <1>2, <3>2 DEF ThreadStep, Interpret, Execute, ExplicitGc, Allocate, TryAllocLock, SpinAllocLock,
             TestSpace, Bump, Wait, WaitForGc, ClearReady, Unpark, Gc, LockGc, SetPending, Snapshot, ScanReady,
             Collect, ClearOwnReady, ClearPending, UnlockGc, WorldOps, LockDump, DumpWorld, LoadWorld,
             LockStoreReg, StoreReg, Exit, RetireDead, RetireReady, LockFree, FreeRegisters, UnlockFree,
             Release, Step
        <4>2. pc'[t] = "park"
          BY <3>1, <4>1 DEF Poll, Enter, Goto, Types, PcT
        <4> QED
          BY <1>2, <2>1, <4>2, StepIsLocal DEF Parked
      <3>3. CASE pc[t] \in {"born", "copy"}
        BY <1>2, <3>3 DEF ThreadStep, Interpret, Poll, Execute, ExplicitGc, Allocate, TryAllocLock, SpinAllocLock,
             TestSpace, Bump, Wait, WaitForGc, ClearReady, Unpark, Gc, LockGc, SetPending, Snapshot, ScanReady,
             Collect, ClearOwnReady, ClearPending, UnlockGc, WorldOps, LockDump, DumpWorld, LoadWorld,
             LockStoreReg, StoreReg, Exit, RetireDead, RetireReady, LockFree, FreeRegisters, UnlockFree,
             Release, Step
      <3>4. CASE pc[t] \notin Newborn
        BY <1>2, <2>1, <2>3, <3>4, StepIsLocal
      <3> QED
        BY <3>2, <3>3, <3>4 DEF Newborn
    <2> QED
      BY <2>2, <2>3
  <1> QED
    BY <1>1, <1>2

LEMMA StepScanningLate ==
  ASSUME Types, Owner, SlotInv, HandshakeInv, NEW t \in Threads, ThreadStep(t)
  PROVE  ScanningLate'
  <1> USE DEF HandshakeInv
  <1>1. SUFFICES ASSUME NEW c \in Threads, pc'[c] \in {"scan", "collect"}
        PROVE  /\ pc'[c] = "collect" => scan' = gc_thread_count'
               /\ \A u \in Threads :
                     u # c /\ Occupies(u)' /\ ~ (scan' <= slotOf'[u] /\ slotOf'[u] < gc_thread_count') =>
                         pc'[u] \in Parked \cup Exiting \cup Newborn
    BY DEF ScanningLate
  <1>2. CASE c # t
    <2>1. pc[c] \in {"scan", "collect"} /\ pc'[c] = pc[c]
      BY <1>1, <1>2, OnlyScanners
    <2>2. UNCHANGED <<gc_thread_count, scan>>
      BY <1>2, <2>1, LateSteps
    <2>3. ASSUME NEW u \in Threads, u # c, Occupies(u)', ~ (scan' <= slotOf'[u] /\ slotOf'[u] < gc_thread_count')
          PROVE  pc'[u] \in Parked \cup Exiting \cup Newborn
      <3>1. CASE u = t
        <4>1. Occupies(t) /\ slotOf'[t] = slotOf[t]
          BY <1>2, <2>1, <2>3, <3>1, LateSteps
        <4>2. pc[t] \in Parked \cup Exiting \cup Newborn
          BY <2>1, <2>2, <2>3, <3>1, <4>1 DEF ScanningLate
        <4> QED
          BY <1>2, <2>1, <2>3, <3>1, <4>2, LateSteps DEF Occupies
      <3>2. CASE u # t /\ pc'[u] = pc[u] /\ slotOf'[u] = slotOf[u]
        <4>1. Occupies(u)
          BY <2>3, <3>2 DEF Occupies
        <4> QED
          BY <2>1, <2>2, <2>3, <3>2, <4>1 DEF ScanningLate
      <3>3. CASE pc'[u] = "born"
        BY <3>3 DEF Newborn
      <3> QED
        BY <1>2, <2>1, <3>1, <3>2, <3>3, LateSteps
    <2> QED
      BY <2>1, <2>2, <2>3 DEF ScanningLate
  <1>3. CASE c = t
    <2>0. /\ \A u \in Threads : slotOf[u] \in Nat
          /\ next_index \in Nat /\ scan \in Nat /\ gc_thread_count \in Nat
      BY BoundsAssumption DEF Types, IdentT, TableT, ShakeT, Slots
    <2>1. CASE Snapshot(t)
      <3>1. gc_thread_count' = next_index /\ scan' = 0 /\ pc'[t] = "scan"
        BY <2>1 DEF Snapshot, SlotCount, Step, Goto, Types, PcT
      <3>2. \A u \in Threads : u # t => slotOf'[u] = slotOf[u] /\ pc'[u] = pc[u]
        BY <2>1 DEF Snapshot, Step, Goto, ident, Types, PcT
      <3>3. \A u \in Threads : Occupies(u) => slotOf[u] < next_index
        BY DEF SlotInv, Below
      <3> QED
        BY <1>3, <2>0, <3>1, <3>2, <3>3 DEF Occupies
    <2>2. CASE ScanReady(t)
      <3>1. pc[t] = "scan" /\ UNCHANGED gc_thread_count /\ slotOf' = slotOf
        BY <2>2 DEF ScanReady, ident
      <3>2. \A u \in Threads : u # t => pc'[u] = pc[u]
        BY <2>2 DEF ScanReady, Goto, Types, PcT
      <3>3. pc'[t] = "collect" => scan' = gc_thread_count'
        BY <2>2, <3>1 DEF ScanReady, Goto
      <3>4. ASSUME NEW u \in Threads, u # t, Occupies(u), ~ (scan' <= slotOf[u] /\ slotOf[u] < gc_thread_count)
            PROVE  pc[u] \in Parked \cup Exiting \cup Newborn
        <4>1. CASE ~ (scan <= slotOf[u] /\ slotOf[u] < gc_thread_count)
          BY <3>1, <3>4, <4>1 DEF ScanningLate
        <4>2. CASE scan <= slotOf[u] /\ slotOf[u] < gc_thread_count
          <5>1. slotOf[u] = scan /\ Accounted(scan)
            BY <2>0, <2>2, <3>1, <3>4, <4>2 DEF ScanReady
          <5>2. pc[u] \in FlagUp
            BY <3>4, <5>1 DEF Flags, Accounted, FlagUp
          <5>3. pc[u] \notin HoldsGc
            BY <3>1, <3>4 DEF Owner, HoldsGc, Handshake
          <5> QED
            BY <5>2, <5>3 DEF FlagUp, HoldsGc, Unparking, Finishing
        <4> QED
          BY <4>1, <4>2
      <3> QED
        BY <1>3, <3>1, <3>2, <3>3, <3>4 DEF Occupies
    <2> QED
      BY <1>1, <1>3, <2>1, <2>2, OnlyScanners
  <1> QED
    BY <1>2, <1>3

----------------------------------------------------------------------------
(* Who holds alloc_lock.                                                   *)

\* In gc(), where a thread keeps the alloc_lock it came with.
InGc == {"gc_lock"} \cup Handshake \cup Collecting \cup Finishing

HoldsAlloc(t) == pc[t] \in {"alloc", "bump", "store"} \/ (pc[t] \in InGc /\ after[t] = "bump")

AllocOwner == \A t \in Threads : HoldsAlloc(t) => alloc_lock = t

\* Where wait_for_gc and gc() return to.
Returns == \A t \in Threads :
    /\ pc[t] \in {"park", "clear", "unpark"} => after[t] \in {"instr", "try"}
    /\ pc[t] \in InGc => after[t] \in {"top", "bump", "dump"}

\* Past its space test or its collection, and about to take words.
Takes(t) == pc[t] = "bump" \/ (pc[t] \in Finishing /\ after[t] = "bump")

\* The words a thread found, or collected for, are there until it takes them, unless
\* a LOAD-WORLD is replacing the heap.
Room == Replacing \/ (free \in Nat /\ \A t \in Threads : Takes(t) => need[t] <= free)

LEMMA InitRoom == Init => AllocOwner /\ Returns /\ Room
  <1> SUFFICES ASSUME Init PROVE AllocOwner /\ Returns /\ Room
    OBVIOUS
  <1>1. \A t \in Threads : pc[t] \in {"top", "absent"}
    BY DEF Init
  <1>2. free \in Nat
    BY BoundsAssumption DEF Init
  <1> QED
    BY <1>1, <1>2
       DEF AllocOwner, HoldsAlloc, Returns, Room, Takes, InGc, Handshake, Collecting, Finishing

LEMMA StepReturns ==
  ASSUME Types, Returns, NEW t \in Threads, ThreadStep(t) PROVE Returns'
  <1> USE DEF Returns, InGc, Handshake, Collecting, Finishing, Types, PcT, WaitT, Step, Goto, Enter, wait
  <1>1. CASE Interpret(t)
    BY <1>1 DEF Interpret, Poll, Execute, ExplicitGc
  <1>2. CASE Allocate(t)
    BY <1>2 DEF Allocate, TryAllocLock, SpinAllocLock, TestSpace, Bump
  <1>3. CASE Wait(t)
    BY <1>3 DEF Wait, WaitForGc, ClearReady, Unpark
  <1>4. CASE Gc(t)
    BY <1>4 DEF Gc, LockGc, SetPending, Snapshot, ScanReady, Collect, ClearOwnReady, ClearPending, UnlockGc
  <1>5. CASE WorldOps(t)
    BY <1>5 DEF WorldOps, LockDump, DumpWorld, LoadWorld, LockStoreReg, StoreReg
  <1>6. CASE Create(t)
    BY <1>6 DEF Create, GetNextIndex, MarkUnready, MarkAlive, Spawn, SpawnFailed, MakeStacks, CopyRegisters
  <1>7. CASE Exit(t)
    BY <1>7 DEF Exit, RetireDead, RetireReady, LockFree, FreeRegisters, UnlockFree, Release
  <1> QED
    BY <1>1, <1>2, <1>3, <1>4, <1>5, <1>6, <1>7 DEF ThreadStep

LEMMA StepAllocOwner ==
  ASSUME Types, Returns, AllocOwner, NEW t \in Threads, ThreadStep(t) PROVE AllocOwner'
  <1> USE ThreadsAssumption
      DEF AllocOwner, HoldsAlloc, Returns, InGc, Handshake, Collecting, Finishing, Types, PcT, WaitT,
          Step, Goto, Enter, wait, locks
  <1>1. CASE Interpret(t)
    BY <1>1 DEF Interpret, Poll, Execute, ExplicitGc
  <1>2. CASE Allocate(t)
    BY <1>2 DEF Allocate, TryAllocLock, SpinAllocLock, TestSpace, Bump, LockAllocMutex, UnlockAllocMutex
  <1>3. CASE Wait(t)
    BY <1>3 DEF Wait, WaitForGc, ClearReady, Unpark, LockGcMutex, UnlockGcMutex
  <1>4. CASE Gc(t)
    BY <1>4 DEF Gc, LockGc, SetPending, Snapshot, ScanReady, Collect, ClearOwnReady, ClearPending, UnlockGc,
                LockGcMutex, UnlockGcMutex
  <1>5. CASE WorldOps(t)
    BY <1>5 DEF WorldOps, LockDump, DumpWorld, LoadWorld, LockStoreReg, StoreReg, LockAllocMutex,
                UnlockAllocMutex, LockDumpMutex, UnlockDumpMutex
  <1>6. CASE Create(t)
    BY <1>6 DEF Create, GetNextIndex, MarkUnready, MarkAlive, Spawn, SpawnFailed, MakeStacks, CopyRegisters
  <1>7. CASE Exit(t)
    BY <1>7 DEF Exit, RetireDead, RetireReady, LockFree, FreeRegisters, UnlockFree, Release,
                LockGcMutex, UnlockGcMutex
  <1> QED
    BY <1>1, <1>2, <1>3, <1>4, <1>5, <1>6, <1>7 DEF ThreadStep

----------------------------------------------------------------------------
(* The words that were found stay.                                         *)

\* While another thread collects, no thread is about to take words.
LEMMA NobodyTakes ==
  ASSUME Types, Owner, SlotInv, HandshakeInv, NEW c \in Threads, pc[c] = "collect",
         NEW u \in Threads, u # c
  PROVE  pc[u] # "bump" /\ pc[u] \notin Finishing
  <1>1. pc[u] \notin HoldsGc
    BY DEF Owner, HoldsGc, Collecting
  <1>2. scan = gc_thread_count /\ scan \in Nat /\ slotOf[u] \in Nat
    BY BoundsAssumption DEF HandshakeInv, ScanningLate, Types, IdentT, ShakeT, Slots
  <1>3. Occupies(u) => pc[u] \in Parked \cup Exiting \cup Newborn
    BY <1>2 DEF HandshakeInv, ScanningLate
  <1> QED
    BY <1>1, <1>3 DEF Occupies, Parked, Exiting, Newborn, HoldsGc

\* The replacing ends with its last store, and with no other step.
LEMMA ReplacingEnds ==
  ASSUME Types, NEW t \in Threads, ThreadStep(t), Replacing, ~ Replacing'
  PROVE  LoadWorld(t) /\ free' = HeapWords
  <1>1. PICK u \in Threads : pc[u] \in {"load_alloc", "load_point"}
    BY DEF Replacing
  <1>2. pc'[u] \notin {"load_alloc", "load_point"}
    BY DEF Replacing
  <1>3. u = t /\ ~ Create(t)
    <2>1. CASE Create(t)
      BY <1>1, <1>2, <2>1
         DEF Create, GetNextIndex, MarkUnready, MarkAlive, Spawn, SpawnFailed, MakeStacks, CopyRegisters,
             Step, Goto, Types, PcT
    <2> QED
      BY <1>1, <1>2, <2>1, StepIsLocal
  <1> USE <1>1, <1>3 DEF Step
  <1>4. ~ Interpret(t) /\ ~ Allocate(t)
    BY DEF Interpret, Poll, Execute, ExplicitGc, Allocate, TryAllocLock, SpinAllocLock, TestSpace, Bump
  <1>5. ~ Wait(t) /\ ~ Gc(t)
    BY DEF Wait, WaitForGc, ClearReady, Unpark, Gc, LockGc, SetPending, Snapshot, ScanReady, Collect,
           ClearOwnReady, ClearPending, UnlockGc
  <1>6. ~ Exit(t)
    BY DEF Exit, RetireDead, RetireReady, LockFree, FreeRegisters, UnlockFree, Release
  <1>7. LoadWorld(t)
    BY <1>4, <1>5, <1>6 DEF ThreadStep, WorldOps, LockDump, DumpWorld, LockStoreReg, StoreReg
  <1> QED
    BY <1>2, <1>7 DEF LoadWorld, ResetFreePoint, Goto, Types, PcT

LEMMA StepRoom ==
  ASSUME Types, Owner, SlotInv, HandshakeInv, AllocOwner, Returns, Room, NEW t \in Threads, ThreadStep(t)
  PROVE  Room'
  <1>0. /\ need \in [Threads -> Nat] /\ need' \in [Threads -> Nat] /\ HeapWords \in Nat
        /\ \A u \in Threads : need[u] < HeapWords /\ need'[u] < HeapWords
    <2>1. Types'
      BY StepTypes DEF Next
    <2> QED
      BY <2>1, BoundsAssumption DEF Types, HeapT
  <1>1. CASE Replacing'
    BY <1>1 DEF Room
  <1>2. CASE Replacing /\ ~ Replacing'
    <2>1. free' = HeapWords
      BY <1>2, ReplacingEnds
    <2> QED
      BY <1>0, <2>1 DEF Room
  <1>3. CASE ~ Replacing /\ ~ Replacing'
    <2>0. free \in Nat /\ \A u \in Threads : Takes(u) => need[u] <= free
      BY <1>3 DEF Room
    <2>1. SUFFICES free' \in Nat /\ \A u \in Threads : Takes(u)' => need'[u] <= free'
      BY DEF Room
    <2>2. \A u \in Threads : Takes(u) => HoldsAlloc(u)
      BY DEF Takes, HoldsAlloc, InGc
    <2>3. \A u \in Threads : u # t /\ HoldsAlloc(t) => ~ Takes(u)
      BY <2>2 DEF AllocOwner
    <2>4. \A u \in Threads : u # t => (Takes(u)' => Takes(u))
      <3>1. CASE Create(t)
        BY <3>1 DEF Takes, Create, GetNextIndex, MarkUnready, MarkAlive, Spawn, SpawnFailed, MakeStacks,
                    CopyRegisters, Step, Goto, Types, PcT, WaitT, wait, Finishing
      <3>2. CASE ~ Create(t)
        <4>1. \A u \in Threads : u # t => pc'[u] = pc[u] /\ after'[u] = after[u]
          BY <3>2, StepIsLocal
             DEF ThreadStep, Interpret, Poll, Execute, ExplicitGc, Allocate, TryAllocLock, SpinAllocLock,
               TestSpace, Bump, Wait, WaitForGc, ClearReady, Unpark, Gc, LockGc, SetPending, Snapshot,
               ScanReady, Collect, ClearOwnReady, ClearPending, UnlockGc, WorldOps, LockDump, DumpWorld,
               LoadWorld, LockStoreReg, StoreReg, Exit, RetireDead, RetireReady, LockFree, FreeRegisters,
               UnlockFree, Release, Enter, wait, Types, WaitT
        <4> QED
          BY <4>1 DEF Takes
      <3> QED
        BY <3>1, <3>2
    <2>5. CASE Interpret(t) \/ Wait(t) \/ Create(t) \/ Exit(t)
      <3>1. free' = free /\ \A u \in Threads : u # t => need'[u] = need[u]
        BY <1>0, <2>5 DEF Interpret, Poll, Execute, ExplicitGc, Wait, WaitForGc, ClearReady, Unpark,
               Create, GetNextIndex, MarkUnready, MarkAlive, Spawn, SpawnFailed, MakeStacks, CopyRegisters,
               Exit, RetireDead, RetireReady, LockFree, FreeRegisters, UnlockFree, Release, heap
      <3>2. ~ Takes(t)'
        <4> USE DEF Takes, Types, PcT, WaitT, Step, Goto, Enter, Finishing, Returns
        <4>1. CASE Interpret(t)
          BY <4>1 DEF Interpret, Poll, Execute, ExplicitGc
        <4>2. CASE Wait(t)
          BY <4>2 DEF Wait, WaitForGc, ClearReady, Unpark
        <4>3. CASE Create(t)
          BY <4>3 DEF Create, GetNextIndex, MarkUnready, MarkAlive, Spawn, SpawnFailed, MakeStacks,
                      CopyRegisters
        <4>4. CASE Exit(t)
          BY <4>4 DEF Exit, RetireDead, RetireReady, LockFree, FreeRegisters, UnlockFree, Release
        <4> QED
          BY <2>5, <4>1, <4>2, <4>3, <4>4
      <3> QED
        BY <2>0, <2>4, <3>1, <3>2
    <2>6. CASE Allocate(t)
      <3>1. CASE Bump(t)
        <4>1. HoldsAlloc(t) /\ Takes(t) /\ ~ Takes(t)'
          BY <3>1 DEF Bump, Step, Goto, HoldsAlloc, Takes, Types, PcT, Finishing
        <4>2. free' \in Nat
          BY <1>0, <2>0, <3>1, <4>1 DEF Bump
        <4> QED
          BY <2>3, <2>4, <4>1, <4>2
      <3>2. CASE ~ Bump(t)
        <4>1. UNCHANGED <<need, free>>
          BY <2>6, <3>2 DEF Allocate, TryAllocLock, SpinAllocLock, TestSpace, heap
        <4>2. Takes(t)' => need[t] <= free
          <5>1. CASE TestSpace(t)
            <6>1. CASE TooLittle(need[t])
              <7>1. pc'[t] = "gc_lock"
                BY <5>1, <6>1 DEF TestSpace, Goto, Enter, Types, PcT
              <7> QED
                BY <7>1 DEF Takes, Finishing
            <6>2. CASE ~ TooLittle(need[t])
              BY <1>0, <2>0, <6>2 DEF TooLittle, EndBelow
            <6> QED
              BY <6>1, <6>2
          <5>2. CASE TryAllocLock(t) \/ SpinAllocLock(t)
            BY <5>2 DEF TryAllocLock, SpinAllocLock, Step, Goto, Enter, Takes, Finishing, Types, PcT
          <5> QED
            BY <2>6, <3>2, <5>1, <5>2 DEF Allocate
        <4> QED
          BY <2>0, <2>4, <4>1, <4>2
      <3> QED
        BY <3>1, <3>2
    <2>7. CASE Gc(t)
      <3>1. CASE Collect(t)
        <4>1. pc[t] = "collect" /\ need' = need /\ free' \in Nat /\ need[t] <= free'
          BY <1>0, <3>1 DEF Collect, Step, RoomFor
        <4>2. \A u \in Threads : u # t => ~ Takes(u)
          BY <4>1, NobodyTakes DEF Takes
        <4> QED
          BY <2>4, <4>1, <4>2
      <3>2. CASE ~ Collect(t)
        <4>1. UNCHANGED <<need, free>>
          BY <2>7, <3>2 DEF Gc, LockGc, SetPending, Snapshot, ScanReady, ClearOwnReady, ClearPending,
                            UnlockGc, heap
        <4>2. Takes(t)' => Takes(t)
          BY <2>7, <3>2 DEF Gc, LockGc, SetPending, Snapshot, ScanReady, ClearOwnReady, ClearPending,
                            UnlockGc, Takes, Step, Goto, Types, PcT, WaitT, wait, Finishing
        <4> QED
          BY <2>0, <2>4, <4>1, <4>2
      <3> QED
        BY <3>1, <3>2
    <2>8. CASE WorldOps(t)
      <3>1. need' = need /\ ~ Takes(t)'
        BY <2>8 DEF WorldOps, LockDump, DumpWorld, LoadWorld, LockStoreReg, StoreReg, Step, Goto, Enter,
                    Takes, Types, PcT, Finishing, heap
      <3>2. free' \in Nat /\ \A u \in Threads : u # t /\ Takes(u) => need[u] <= free'
        <4>1. CASE LoadWorld(t)
          <5>1. pc[t] = "load" /\ UNCHANGED free
            BY <1>3, <4>1 DEF LoadWorld, Step, Goto, Replacing, Types, PcT
          <5> QED
            BY <2>0, <5>1
        <4>2. CASE StoreReg(t)
          BY <1>0, <2>3, <4>2 DEF StoreReg, Step, HoldsAlloc
        <4>3. CASE LockDump(t) \/ DumpWorld(t) \/ LockStoreReg(t)
          BY <2>0, <4>3 DEF LockDump, DumpWorld, LockStoreReg, heap
        <4> QED
          BY <2>8, <4>1, <4>2, <4>3 DEF WorldOps
      <3> QED
        BY <2>4, <3>1, <3>2
    <2> QED
      BY <2>5, <2>6, <2>7, <2>8 DEF ThreadStep
  <1> QED
    BY <1>1, <1>2, <1>3

----------------------------------------------------------------------------
(* The inductive invariant.                                                *)

LateInv == Types /\ Owner /\ SlotInv /\ HandshakeInv /\ AllocOwner /\ Returns /\ Room

LEMMA AlwaysLateInv == Spec => []LateInv
  <1>1. Init => LateInv
    BY InitTypes, InitOwner, InitSlotInv, InitHandshake, InitRoom DEF LateInv
  <1>2. ASSUME LateInv, [Next]_vars PROVE LateInv'
    <2>1. Types' /\ SlotInv'
      BY <1>2, StepTypes, StepSlotInv DEF LateInv
    <2>2. CASE UNCHANGED vars
      BY <1>2, <2>1, <2>2
         DEF LateInv, Owner, HandshakeInv, Flags, CleanSlots, Pending, ScanningLate, AllocOwner, HoldsAlloc,
             Returns, Room, Takes, Replacing, Occupies, vars, ident, wait, table, locks, shake, heap
    <2>3. ASSUME NEW t \in Threads, ThreadStep(t)
          PROVE  Owner' /\ HandshakeInv' /\ AllocOwner' /\ Returns' /\ Room'
      BY <1>2, <2>3, StepOwner, StepHandshakeFlags, StepPending, StepScanningLate, StepAllocOwner, StepReturns,
         StepRoom DEF LateInv, HandshakeInv
    <2> QED
      BY <1>2, <2>1, <2>2, <2>3 DEF LateInv, Next
  <1> QED
    BY <1>1, <1>2, PTL DEF Spec

\* Whoever creates threads, loads worlds or sets the heap's registers, the words an
\* allocation has found or collected for are there when it takes them, but for the time
\* between LOAD-WORLD's freeing of new space and its setting of free_point, when no
\* lock keeps an allocation away.
THEOREM WordsStay == Spec => []RequestFits
  <1>1. ASSUME LateInv PROVE RequestFits
    BY <1>1 DEF LateInv, Room, Takes, RequestFits
  <1> QED
    BY <1>1, AlwaysLateInv, PTL

\* Whoever creates threads, a collector shares the heap with no thread that has executed
\* an instruction of its own since the handshake began.
OnlyNewbornsRun ==
    \A c, u \in Threads : pc[c] \in Collecting /\ u # c =>
        pc[u] \in {"absent"} \cup Parked \cup Exiting \cup Newborn

THEOREM HandshakeStopsTheOthers == Spec => []OnlyNewbornsRun
  <1>1. ASSUME LateInv PROVE OnlyNewbornsRun
    <2> SUFFICES ASSUME NEW c \in Threads, NEW u \in Threads, pc[c] = "collect", u # c, Occupies(u)
                 PROVE  pc[u] \in Parked \cup Exiting \cup Newborn
      BY DEF OnlyNewbornsRun, Collecting, Occupies
    <2>1. scan = gc_thread_count /\ scan \in Nat /\ slotOf[u] \in Nat
      BY <1>1, BoundsAssumption DEF LateInv, HandshakeInv, ScanningLate, Types, IdentT, ShakeT, Slots
    <2> QED
      BY <1>1, <2>1 DEF LateInv, HandshakeInv, ScanningLate
  <1> QED
    BY <1>1, AlwaysLateInv, PTL

=============================================================================
