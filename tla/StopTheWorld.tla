---------------------------- MODULE StopTheWorld ----------------------------
(***************************************************************************)
(* Native threads and the stop-the-world handshake of the copying          *)
(* collector: the THREADS build without USE_MARK_SWEEP.                    *)
(*                                                                         *)
(* An OS thread is a member of Threads; the interpreter names it by the    *)
(* slot it holds in the per-thread arrays.  pc[t] is the point of the C    *)
(* code thread t has reached, and one action is one access to state that   *)
(* another thread can see (a flag, a lock, the heap).  get_next_index and  *)
(* release_thread_slot are single actions: all they touch under index_lock *)
(* is touched nowhere else, but for one read of next_index.                *)
(* A definition marked Mutant is a plausible slip, kept to show that the   *)
(* property it breaks depends on the code; nothing here uses it.           *)
(*                                                                         *)
(* The heap is a count of words left in new space, and what a thread knows *)
(* of the heap is whether it holds references into a space that has been   *)
(* replaced (stale).  Memory accesses take effect in program order.        *)
(***************************************************************************)
EXTENDS Integers, FiniteSets

CONSTANTS
    Threads,            \* OS threads that can exist, over and over
    Main,               \* the thread that boots; it holds slot 0 and never exits
    Nobody,             \* the owner of a free lock, the occupant of a free slot
    MaxThreads,         \* MAX_THREAD_COUNT
    HeapWords,          \* words in new space
    MaxRequest,         \* largest allocation
    Running,            \* threads already in the interpreter at the start
    Spawners,           \* threads that execute HEAVYWEIGHT-THREAD
    Dumpers,            \* ... DUMP-WORLD
    Loaders,            \* ... LOAD-WORLD
    RegWriters          \* ... STORE-REG of free_point or new_space.end

ASSUME ThreadsAssumption ==
    /\ Main \in Threads /\ Nobody \notin Threads
    /\ Main \in Running /\ Running \subseteq Threads
    /\ Spawners \subseteq Threads /\ Dumpers \subseteq Threads
    /\ Loaders \subseteq Threads /\ RegWriters \subseteq Threads

ASSUME BoundsAssumption ==
    /\ MaxThreads \in Nat \ {0}
    /\ MaxRequest \in Nat \ {0}
    /\ HeapWords \in Nat /\ MaxRequest < HeapWords

VARIABLES
    pc,                 \* where each thread is
    slotOf,             \* my_index of each thread
    newSlot,            \* the index a create_thread in progress has taken
    parent,             \* info.parent_index of a starting thread
    after,              \* where gc or wait_for_gc returns to
    gc_ready,           \* slots, as the set of those flagged
    gc_thread_dead,     \*   likewise
    slot_reusable,      \*   likewise
    next_index,
    registers,          \* slot -> the thread whose stacks and registers it holds
    gc_lock,            \* owners of the mutexes
    alloc_lock,
    dump_lock,
    gc_pending,
    gc_thread_count,    \* locals of gc(), of the thread that holds gc_lock
    scan,
    need,               \* words the thread's allocation asks for
    free,               \* new_space.end - free_point
    stale               \* threads that hold references into a replaced space

ident == <<slotOf, newSlot, parent>>
wait  == <<after, gc_ready>>
table == <<gc_thread_dead, slot_reusable, next_index, registers>>
locks == <<gc_lock, alloc_lock, dump_lock>>
shake == <<gc_pending, gc_thread_count, scan>>
heap  == <<need, free, stale>>
vars  == <<pc, ident, wait, table, locks, shake, heap>>

Slots == 0 .. MaxThreads - 1

----------------------------------------------------------------------------
(* Program points, grouped by what the thread may be doing there.          *)

\* In the interpreter, reading and writing objects.
Mutating   == {"top", "instr", "try", "spin", "alloc", "bump", "dump_wait",
               "dump", "load_wait", "load", "load_new", "load_alloc", "load_point",
               "store_wait", "store"}
\* In create_thread.
Creating   == {"get_index", "unready", "undead", "spawn", "unspawn"}
\* In init_thread, before loop().
Starting   == {"born", "copy"}
\* In gc() or wait_for_gc, with the thread's own flag raised, before gc_lock.
Parked     == {"park", "gc_lock"}
\* In wait_for_gc, inside gc_lock.
Unparking  == {"clear", "unpark"}
\* In gc(), inside gc_lock.
Handshake  == {"gc_flag", "snapshot", "scan"}
Collecting == {"collect"}
Finishing  == {"gc_unready", "gc_clear", "gc_unlock"}
\* After the thunk has returned: past its last instruction.
Exiting    == {"unwind", "unwound", "dtor", "dtor_ready", "dtor_lock",
               "dtor_free", "dtor_unlock", "release"}

HoldsGc    == Unparking \cup Handshake \cup Collecting \cup Finishing
                  \cup {"dtor_free", "dtor_unlock"}
PC == {"absent"} \cup Mutating \cup Creating \cup Starting \cup Parked
        \cup Unparking \cup Handshake \cup Collecting \cup Finishing
        \cup Exiting

Goto(t, l)    == pc' = [pc EXCEPT ![t] = l]
Step(t, k, l) == pc[t] = k /\ Goto(t, l)

\* Mutexes.
LockGcMutex(t)   == gc_lock = Nobody /\ gc_lock' = t /\ UNCHANGED <<alloc_lock, dump_lock>>
UnlockGcMutex    == gc_lock' = Nobody /\ UNCHANGED <<alloc_lock, dump_lock>>
LockAllocMutex(t) ==
    alloc_lock = Nobody /\ alloc_lock' = t /\ UNCHANGED <<gc_lock, dump_lock>>
UnlockAllocMutex == alloc_lock' = Nobody /\ UNCHANGED <<gc_lock, dump_lock>>
LockDumpMutex(t) ==
    dump_lock = Nobody /\ dump_lock' = t /\ UNCHANGED <<gc_lock, alloc_lock>>
UnlockDumpMutex  == dump_lock' = Nobody /\ UNCHANGED <<gc_lock, alloc_lock>>

\* gc_ready of the thread's own slot, raised on the way to gc_lock and lowered.
Raise(t) == gc_ready' = gc_ready \cup {slotOf[t]}
Lower(t) == gc_ready' = gc_ready \ {slotOf[t]}

\* On the way into gc() or wait_for_gc, which will return to r.
Enter(t, l, r) == Goto(t, l) /\ Raise(t) /\ after' = [after EXCEPT ![t] = r]

----------------------------------------------------------------------------
Init ==
    /\ next_index \in 1 .. MaxThreads
    /\ slotOf \in [Threads -> Slots]
    /\ slotOf[Main] = 0
    /\ {slotOf[t] : t \in Running} = 0 .. next_index - 1
    /\ \A t, u \in Running : slotOf[t] = slotOf[u] => t = u
    /\ \A t \in Threads \ Running : slotOf[t] = 0
    /\ pc = [t \in Threads |-> IF t \in Running THEN "top" ELSE "absent"]
    /\ newSlot = [t \in Threads |-> 0] /\ parent = [t \in Threads |-> 0]
    /\ after = [t \in Threads |-> "top"]
    /\ gc_ready = {} /\ gc_thread_dead = {} /\ slot_reusable = {}
    /\ registers = [s \in Slots |-> IF s < next_index
                                    THEN CHOOSE t \in Running : slotOf[t] = s
                                    ELSE Nobody]
    /\ gc_lock = Nobody /\ alloc_lock = Nobody /\ dump_lock = Nobody
    /\ gc_pending = FALSE /\ gc_thread_count = 0 /\ scan = 0
    /\ need = [t \in Threads |-> 0] /\ free = HeapWords /\ stale = {}

----------------------------------------------------------------------------
(* The interpreter's loop: poll, then execute one instruction.             *)

\* Mutant: the flag is raised, and the instruction executed without waiting.
PollOnTheRun(t) ==
    /\ Step(t, "top", "instr")
    /\ IF gc_pending THEN Raise(t) ELSE UNCHANGED gc_ready
    /\ UNCHANGED <<ident, after, table, locks, shake, heap>>

\* POLL_GC_SIGNALS, and the store with which wait_for_gc begins.
Poll(t) ==
    /\ pc[t] = "top"
    /\ IF gc_pending THEN Enter(t, "park", "instr")
                     ELSE Goto(t, "instr") /\ UNCHANGED wait
    /\ UNCHANGED <<ident, table, locks, shake, heap>>

\* Instructions that do not wait: those that touch nothing modelled here, and
\* those that go on to ALLOCATE_PROT, to one of the blocking locks or to
\* create_thread.  A spawned thread's thunk may return from its last frame.
Execute(t) ==
    /\ \/ Step(t, "instr", "top") /\ UNCHANGED need
       \/ /\ Step(t, "instr", "try")
          /\ \E n \in 1 .. MaxRequest : need' = [need EXCEPT ![t] = n]
       \/ t \in Dumpers    /\ Step(t, "instr", "dump_wait")  /\ UNCHANGED need
       \/ t \in Loaders    /\ Step(t, "instr", "load_wait")  /\ UNCHANGED need
       \/ t \in RegWriters /\ Step(t, "instr", "store_wait") /\ UNCHANGED need
       \/ t \in Spawners   /\ Step(t, "instr", "get_index")  /\ UNCHANGED need
       \/ t # Main         /\ Step(t, "instr", "unwind")     /\ UNCHANGED need
    /\ UNCHANGED <<ident, wait, table, locks, shake, free, stale>>

\* The GC and FULL-GC instructions: gc() without alloc_lock.
ExplicitGc(t) ==
    /\ pc[t] = "instr" /\ Enter(t, "gc_lock", "top")
    /\ UNCHANGED <<ident, table, locks, shake, heap>>

----------------------------------------------------------------------------
(* ALLOCATE_PROT.                                                          *)

TryAllocLock(t) ==
    /\ IF alloc_lock = Nobody THEN Step(t, "try", "alloc") /\ LockAllocMutex(t)
                              ELSE Step(t, "try", "spin") /\ UNCHANGED locks
    /\ UNCHANGED <<ident, wait, table, shake, heap>>

\* Mutant: the spin does not look at gc_pending.
SpinBlindly(t) ==
    Step(t, "spin", "try") /\ UNCHANGED <<ident, wait, table, locks, shake, heap>>

SpinAllocLock(t) ==
    /\ pc[t] = "spin"
    /\ IF gc_pending THEN Enter(t, "park", "try")
                     ELSE Goto(t, "try") /\ UNCHANGED wait
    /\ UNCHANGED <<ident, table, locks, shake, heap>>

\* new_space.end lies below free_point.  The difference is compared as an unsigned
\* number, so that any request passes for one that fits.
EndBelow == -1

TooLittle(n) == free # EndBelow /\ n >= free

\* The space test; with too little left gc() is entered holding alloc_lock.
TestSpace(t) ==
    /\ pc[t] = "alloc"
    /\ IF TooLittle(need[t]) THEN Enter(t, "gc_lock", "bump")
                          ELSE Goto(t, "bump") /\ UNCHANGED wait
    /\ UNCHANGED <<ident, table, locks, shake, heap>>

Bump(t) ==
    /\ Step(t, "bump", "top")
    /\ free' = IF need[t] <= free THEN free - need[t] ELSE EndBelow
    /\ need' = [need EXCEPT ![t] = 0]
    /\ UnlockAllocMutex
    /\ UNCHANGED <<ident, wait, table, shake, stale>>

----------------------------------------------------------------------------
(* wait_for_gc, once gc_ready is set.                                      *)

WaitForGc(t) ==
    /\ Step(t, "park", "clear") /\ LockGcMutex(t)
    /\ UNCHANGED <<ident, wait, table, shake, heap>>

\* Mutant: the flag stays up after the wait.
LeaveReady(t) ==
    /\ Step(t, "clear", "unpark")
    /\ UNCHANGED <<ident, wait, table, locks, shake, heap>>

ClearReady(t) ==
    /\ Step(t, "clear", "unpark") /\ Lower(t)
    /\ UNCHANGED <<ident, after, table, locks, shake, heap>>

Unpark(t) ==
    /\ Step(t, "unpark", after[t]) /\ UnlockGcMutex
    /\ UNCHANGED <<ident, wait, table, shake, heap>>

----------------------------------------------------------------------------
(* gc(), once gc_ready is set.                                             *)

LockGc(t) ==
    /\ Step(t, "gc_lock", "gc_flag") /\ LockGcMutex(t)
    /\ UNCHANGED <<ident, wait, table, shake, heap>>

SetPending(t) ==
    /\ Step(t, "gc_flag", "snapshot")
    /\ gc_pending' = TRUE
    /\ UNCHANGED <<ident, wait, table, locks, gc_thread_count, scan, heap>>

SlotCount == next_index

Snapshot(t) ==
    /\ Step(t, "snapshot", "scan")
    /\ gc_thread_count' = SlotCount /\ scan' = 0
    /\ UNCHANGED <<ident, wait, table, locks, gc_pending, heap>>

Accounted(s) == s \in gc_ready \/ s \in gc_thread_dead

\* One look at one slot; the scan starts again at a slot it must wait for.
ScanReady(t) ==
    /\ pc[t] = "scan"
    /\ IF scan = gc_thread_count
       THEN Goto(t, "collect") /\ UNCHANGED scan
       ELSE scan' = (IF Accounted(scan) THEN scan + 1 ELSE 0) /\ UNCHANGED pc
    /\ UNCHANGED <<ident, wait, table, locks, gc_pending, gc_thread_count, heap>>

\* Mutant: FORTHREADS stops one slot short.
ScannedButLast == {s \in 0 .. gc_thread_count - 2 : s \notin gc_thread_dead}

\* FORTHREADS: the slots whose stacks and registers the collector visits.
Scanned == {s \in 0 .. gc_thread_count - 1 : s \notin gc_thread_dead}

Visited(t) == slotOf[t] \in Scanned /\ registers[slotOf[t]] = t

\* Threads that will touch objects again.
Live == {t \in Threads : pc[t] \notin {"absent"} \cup Exiting}

\* What survives may leave any amount free, but gc_top is run again until
\* there is room for the request; an explicit collection asks for none.
RoomFor(n) == n .. HeapWords

\* The flip.
Collect(t) ==
    /\ Step(t, "collect", "gc_unready")
    /\ free' \in RoomFor(need[t])
    /\ stale' = stale \cup {u \in Live : ~ Visited(u)}
    /\ UNCHANGED <<ident, wait, table, locks, shake, need>>

ClearOwnReady(t) ==
    /\ Step(t, "gc_unready", "gc_clear") /\ Lower(t)
    /\ UNCHANGED <<ident, after, table, locks, shake, heap>>

ClearPending(t) ==
    /\ Step(t, "gc_clear", "gc_unlock")
    /\ gc_pending' = FALSE
    /\ UNCHANGED <<ident, wait, table, locks, gc_thread_count, scan, heap>>

UnlockGc(t) ==
    /\ Step(t, "gc_unlock", after[t]) /\ UnlockGcMutex
    /\ gc_thread_count' = 0 /\ scan' = 0
    /\ UNCHANGED <<ident, wait, table, gc_pending, heap>>

----------------------------------------------------------------------------
(* Instructions that hold dump_lock or alloc_lock on their own.            *)

LockDump(t) ==
    /\ LockDumpMutex(t)
    /\ \/ pc[t] = "dump_wait" /\ Enter(t, "gc_lock", "dump")
       \/ Step(t, "load_wait", "load") /\ UNCHANGED wait
    /\ UNCHANGED <<ident, table, shake, heap>>

DumpWorld(t) ==
    /\ Step(t, "dump", "top") /\ UnlockDumpMutex
    /\ UNCHANGED <<ident, wait, table, shake, heap>>

\* Mutant: free_point is left in the space that was freed.
KeepFreePoint == UNCHANGED free

\* At the start of the space that was allocated.
ResetFreePoint == free' = HeapWords

\* LOAD-WORLD frees spatic space, under every other thread, and new space, whose
\* bounds become null; it reads the world, allocates new space, so that its end is
\* anywhere from the old free_point, resets free_point, and boots this thread.  It
\* holds dump_lock and no other.
LoadWorld(t) ==
    /\ \/ Step(t, "load", "load_new") /\ stale' = Live \ {t} /\ UNCHANGED <<locks, free>>
       \/ Step(t, "load_new", "load_alloc") /\ free' = EndBelow /\ UNCHANGED <<locks, stale>>
       \/ Step(t, "load_alloc", "load_point") /\ free' \in {EndBelow} \cup 0 .. HeapWords
             /\ UNCHANGED <<locks, stale>>
       \/ Step(t, "load_point", "top") /\ ResetFreePoint /\ UnlockDumpMutex /\ UNCHANGED stale
    /\ UNCHANGED <<ident, wait, table, shake, need>>

\* Mutant: the register is stored without alloc_lock.
StoreRegUnlocked(t) ==
    /\ Step(t, "store_wait", "store")
    /\ UNCHANGED <<ident, wait, table, locks, shake, heap>>

LockStoreReg(t) ==
    /\ Step(t, "store_wait", "store") /\ LockAllocMutex(t)
    /\ UNCHANGED <<ident, wait, table, shake, heap>>

StoreReg(t) ==
    /\ Step(t, "store", "top") /\ UnlockAllocMutex
    /\ free' \in 0 .. HeapWords
    /\ UNCHANGED <<ident, wait, table, shake, need, stale>>

----------------------------------------------------------------------------
(* create_thread and init_thread.                                          *)

Reusable == slot_reusable \cap 1 .. next_index - 1

\* Mutant: the slot handed out is not struck off.
KeepSlot(s) == UNCHANGED slot_reusable

StrikeSlot(s) == slot_reusable' = slot_reusable \ {s}

\* Mutant: the bound on next_index is off by one.
OneMoreThread == next_index <= MaxThreads

RoomForThread == next_index < MaxThreads

\* The lowest slot of a late thread, else a new one, else failure.
GetNextIndex(t) ==
    /\ \/ \E s \in Reusable :
             /\ \A r \in Reusable : s <= r
             /\ Step(t, "get_index", "unready") /\ newSlot' = [newSlot EXCEPT ![t] = s]
             /\ StrikeSlot(s) /\ UNCHANGED next_index
       \/ /\ Reusable = {} /\ RoomForThread
          /\ Step(t, "get_index", "unready")
          /\ newSlot' = [newSlot EXCEPT ![t] = next_index]
          /\ next_index' = next_index + 1 /\ UNCHANGED slot_reusable
       \/ /\ Reusable = {} /\ ~ RoomForThread
          /\ Step(t, "get_index", "top") /\ UNCHANGED <<newSlot, slot_reusable, next_index>>
    /\ UNCHANGED <<slotOf, parent, wait, gc_thread_dead, registers, locks, shake, heap>>

MarkUnready(t) ==
    /\ Step(t, "unready", "undead")
    /\ gc_ready' = gc_ready \ {newSlot[t]}
    /\ UNCHANGED <<ident, after, table, locks, shake, heap>>

MarkAlive(t) ==
    /\ Step(t, "undead", "spawn")
    /\ gc_thread_dead' = gc_thread_dead \ {newSlot[t]}
    /\ UNCHANGED <<ident, wait, slot_reusable, next_index, registers, locks, shake, heap>>

\* oak_thread_create; the child is handed the operation as a bare reference.
Spawn(t) ==
    /\ pc[t] = "spawn"
    /\ \/ \E u \in Threads :
             /\ pc[u] = "absent"
             /\ pc' = [pc EXCEPT ![t] = "top", ![u] = "born"]
             /\ slotOf' = [slotOf EXCEPT ![u] = newSlot[t]]
             /\ parent' = [parent EXCEPT ![u] = slotOf[t]]
             /\ newSlot' = [newSlot EXCEPT ![t] = 0]
             /\ stale' = IF t \in stale THEN stale \cup {u} ELSE stale
       \/ Goto(t, "unspawn") /\ UNCHANGED <<ident, stale>>
    /\ UNCHANGED <<wait, table, locks, shake, need, free>>

\* Mutant: the slot of a thread that was never created is not handed back.
KeepThreadSlot(s) == UNCHANGED <<gc_ready, gc_thread_dead, slot_reusable>>

ReleaseThreadSlot(s) ==
    /\ gc_thread_dead' = gc_thread_dead \cup {s}
    /\ gc_ready' = gc_ready \cup {s}
    /\ slot_reusable' = slot_reusable \cup {s}

SpawnFailed(t) ==
    /\ Step(t, "unspawn", "top")
    /\ ReleaseThreadSlot(newSlot[t])
    /\ newSlot' = [newSlot EXCEPT ![t] = 0]
    /\ UNCHANGED <<slotOf, parent, after, next_index, registers, locks, shake, heap>>

\* init_thread up to memcpy.  Memory may run out before the slot is in thread
\* storage (it is released by hand), or after it, with or without stacks made
\* (the destructor releases it).
MakeStacks(t) ==
    /\ \/ /\ Step(t, "born", "copy") \/ Step(t, "born", "dtor")
          /\ registers' = [registers EXCEPT ![slotOf[t]] = t]
       \/ /\ Step(t, "born", "release") \/ Step(t, "born", "dtor")
          /\ UNCHANGED registers
    /\ UNCHANGED <<ident, wait, gc_thread_dead, slot_reusable, next_index, locks,
                   shake, heap>>

\* The thread whose registers init_thread copies, Nobody if they are freed.
Inherited(t) == registers[parent[t]]

CopyRegisters(t) ==
    /\ Step(t, "copy", "top")
    /\ stale' = IF Inherited(t) \in stale \cup {Nobody} THEN stale \cup {t} ELSE stale
    /\ parent' = [parent EXCEPT ![t] = 0]
    /\ UNCHANGED <<slotOf, newSlot, wait, table, locks, shake, need, free>>

----------------------------------------------------------------------------
(* oak_thread_exit_unwind and free_registers.                              *)

\* Mutant: the dying thread only raises gc_ready.
NotDead(t) == UNCHANGED gc_thread_dead

Dead(t) == gc_thread_dead' = gc_thread_dead \cup {slotOf[t]}

\* Both retire the slot in this order before anything that can block.
RetireDead(t) ==
    /\ Step(t, "unwind", "unwound") \/ Step(t, "dtor", "dtor_ready")
    /\ Dead(t)
    /\ UNCHANGED <<ident, wait, slot_reusable, next_index, registers, locks, shake, heap>>

RetireReady(t) ==
    /\ Step(t, "unwound", "dtor") \/ Step(t, "dtor_ready", "dtor_lock")
    /\ Raise(t)
    /\ UNCHANGED <<ident, after, table, locks, shake, heap>>

\* Mutant: the stacks are freed without gc_lock.
LockFreeNot(t) ==
    /\ Step(t, "dtor_lock", "dtor_free")
    /\ UNCHANGED <<ident, wait, table, locks, shake, heap>>

LockFree(t) ==
    /\ Step(t, "dtor_lock", "dtor_free") /\ LockGcMutex(t)
    /\ UNCHANGED <<ident, wait, table, shake, heap>>

FreeRegisters(t) ==
    /\ Step(t, "dtor_free", "dtor_unlock")
    /\ registers' = [registers EXCEPT ![slotOf[t]] = Nobody]
    /\ UNCHANGED <<ident, wait, gc_thread_dead, slot_reusable, next_index, locks,
                   shake, heap>>

UnlockFree(t) ==
    /\ Step(t, "dtor_unlock", "release") /\ UnlockGcMutex
    /\ UNCHANGED <<ident, wait, table, shake, heap>>

\* The last thing a thread does, here with the end of the OS thread.
Release(t) ==
    /\ Step(t, "release", "absent")
    /\ ReleaseThreadSlot(slotOf[t])
    /\ slotOf' = [slotOf EXCEPT ![t] = 0] /\ parent' = [parent EXCEPT ![t] = 0]
    /\ after' = [after EXCEPT ![t] = "top"]
    /\ stale' = stale \ {t}
    /\ UNCHANGED <<newSlot, next_index, registers, locks, shake, need, free>>

----------------------------------------------------------------------------
Interpret(t) == Poll(t) \/ Execute(t) \/ ExplicitGc(t)
Allocate(t)  == TryAllocLock(t) \/ SpinAllocLock(t) \/ TestSpace(t) \/ Bump(t)
Wait(t)      == WaitForGc(t) \/ ClearReady(t) \/ Unpark(t)
Gc(t)        == LockGc(t) \/ SetPending(t) \/ Snapshot(t) \/ ScanReady(t)
                  \/ Collect(t) \/ ClearOwnReady(t) \/ ClearPending(t)
                  \/ UnlockGc(t)
WorldOps(t)  == LockDump(t) \/ DumpWorld(t) \/ LoadWorld(t)
                  \/ LockStoreReg(t) \/ StoreReg(t)
Create(t)    == GetNextIndex(t) \/ MarkUnready(t) \/ MarkAlive(t) \/ Spawn(t)
                  \/ SpawnFailed(t) \/ MakeStacks(t) \/ CopyRegisters(t)
Exit(t)      == RetireDead(t) \/ RetireReady(t) \/ LockFree(t)
                  \/ FreeRegisters(t) \/ UnlockFree(t) \/ Release(t)

ThreadStep(t) == Interpret(t) \/ Allocate(t) \/ Wait(t) \/ Gc(t)
                   \/ WorldOps(t) \/ Create(t) \/ Exit(t)

Next == \E t \in Threads : ThreadStep(t)

Spec == Init /\ [][Next]_vars

\* The operating system runs every thread.  Nothing is assumed of who gets a
\* contended mutex, or of what the program does next.
Fairness == \A t \in Threads : WF_vars(ThreadStep(t))

FairSpec == Spec /\ Fairness

----------------------------------------------------------------------------
TypeOK ==
    /\ pc \in [Threads -> PC]
    /\ slotOf \in [Threads -> Slots] /\ newSlot \in [Threads -> Slots]
    /\ parent \in [Threads -> Slots]
    /\ after \in [Threads -> {"top", "instr", "try", "bump", "dump"}]
    /\ need \in [Threads -> 0 .. MaxRequest]
    /\ next_index \in 1 .. MaxThreads
    /\ slot_reusable \subseteq Slots /\ gc_ready \subseteq Slots
    /\ gc_thread_dead \subseteq Slots
    /\ registers \in [Slots -> Threads \cup {Nobody}]
    /\ {gc_lock, alloc_lock, dump_lock} \subseteq Threads \cup {Nobody}
    /\ gc_pending \in BOOLEAN
    /\ gc_thread_count \in 0 .. MaxThreads /\ scan \in 0 .. MaxThreads
    /\ free \in {EndBelow} \cup 0 .. HeapWords
    /\ stale \subseteq Threads

\* Objects are moved only while no other thread can touch one: each is parked
\* before gc_lock, is past its last instruction, or does not exist.
WorldStopped ==
    \A t, u \in Threads :
        pc[t] \in Collecting /\ u # t => pc[u] \in {"absent"} \cup Parked \cup Exiting

\* A thread in the interpreter holds no reference into a space that has been
\* replaced: every collection since its birth has visited its slot.
NoStaleRoots == \A t \in stale : pc[t] \notin Mutating

\* The collector finds stacks and registers in every slot it visits.
ScannedSlotsHaveStacks ==
    \A t \in Threads : pc[t] \in Collecting =>
        \A s \in Scanned : registers[s] # Nobody

Occupies(t) == pc[t] # "absent"                     \* slotOf[t]
Taking(t)   == pc[t] \in Creating \ {"get_index"}   \* newSlot[t]

\* A slot belongs to one thread, or to one create_thread, or is for reuse; a
\* slot for reuse holds nothing of its late occupant.
SlotsExclusive ==
    /\ \A t, u \in Threads :
          /\ t # u /\ Occupies(t) /\ Occupies(u) => slotOf[t] # slotOf[u]
          /\ Taking(t) /\ Occupies(u) => newSlot[t] # slotOf[u]
          /\ t # u /\ Taking(t) /\ Taking(u) => newSlot[t] # newSlot[u]
    /\ \A s \in slot_reusable :
          /\ registers[s] = Nobody
          /\ \A t \in Threads : /\ Occupies(t) => slotOf[t] # s
                                /\ Taking(t) => newSlot[t] # s

\* LOAD-WORLD has freed new space and not yet set free_point.
Replacing == \E t \in Threads : pc[t] \in {"load_alloc", "load_point"}

\* When the allocator bumps free_point the words are there, whatever other threads
\* did to the heap between its test, or its collection, and the bump: collections,
\* STORE-REG, and a LOAD-WORLD that began or ended.  One exception: an allocation
\* that bumps while the heap is being replaced, against which LOAD-WORLD takes no
\* lock, runs into memory that is no space of the heap.
RequestFits == \A t \in Threads : pc[t] = "bump" /\ ~ Replacing => need[t] <= free

\* Stacks are freed only when no collector is visiting stacks.
FreesOutsideCollection ==
    \A s \in Slots : registers[s] # Nobody /\ registers'[s] = Nobody =>
        \A t \in Threads : pc[t] \notin Collecting

FreedOutsideCollection == [][FreesOutsideCollection]_vars

\* Every handshake gets its answer, the collection ends, and the flag that
\* parks the others is lowered.
HandshakeCompletes == gc_pending ~> ~ gc_pending

\* What the handshake promises: the heap is shared by the threads in it, or
\* owned by one collector.
Access == INSTANCE HeapAccess WITH
    Workers   <- Threads,
    inHeap    <- {t \in Threads : pc[t] \in Mutating \cup Creating \cup Starting},
    collector <- {t \in Threads : pc[t] \in Collecting}

HeapShared == Access!Spec

=============================================================================
