# Oaklisp: a TLA+ verification development

Oaklisp is an object-oriented Lisp.  A C emulator (`src/src/emulator`) runs a
byte code whose world, the compiler and the run-time system included, is written
in Oaklisp itself (`src/src/world`) and linked from object files by a cold
linker.  This directory models the parts of the system that are hard to get
right by testing: the collectors and the threads that share their heap, the
scheduler written on top of them, and the data structures whose invariants are
spread over many functions.

Paths below are relative to the repository root, which `PROJECT.json` calls
`src/`.

## 1. Inventory

### 1.1 Configurations

`config.h` and the build give four emulators, and the collectors differ:

| | no `THREADS` | `THREADS` |
|---|---|---|
| no `USE_MARK_SWEEP` | copying collector | copying collector, stop the world |
| `USE_MARK_SWEEP` | mark-sweep, lazy sweep | concurrent mark-sweep, TLABs, SATB barrier |

`ENABLE_TIMER` adds a preemption counter to each of them.

### 1.2 Components

| Component | Code | State | Operations | What makes it correct |
|---|---|---|---|---|
| Threads and handshake | `threads.c`, `gc.c` 460-507 and 877-892, `data.h` 528-549, safepoints of `loop.c` | `gc_ready[]`, `gc_thread_dead[]`, `slot_reusable[]`, `next_index`, `gc_pending`, `gc_lock`, `alloc_lock`, `dump_lock`, per-thread stacks and registers | poll, `wait_for_gc`, `gc`, `ALLOCATE_PROT`, `create_thread`, `init_thread`, exit, `free_registers` | the world is stopped during a collection; every live stack is scanned; a handshake ends; slots are never shared |
| Copying collector | `gc.c` | spaces, `free_point`, forwarding pointers, examine buffers, locatives | `gc`, `gc_touch`, `loc_touch`, `scavenge` | the reachable graph is preserved up to isomorphism, locatives included, and the resize loop ends |
| Mark-sweep collector | `gc-ms.c`, `gc-ms.h` | mark and objstart bitmaps, free lists, TLABs, sweep cursor and limit, SATB buffers, `gc_concurrent_in_progress` | `ms_collect`, mark, remark, lazy sweep, `ms_alloc_slow_locked`, TLAB retirement | nothing reachable at the snapshot, or allocated since, is freed; every word is in one object, free block or TLAB |
| Weak pointers | `weak.c` | weak table and its hash | intern, grow, rebuild, `post_gc_wp` | number to object and back stay inverse over collections |
| Stacks | `stacks.c`, `stacks-loop.h` | buffer and flushed segments | push, pop, flush, unflush, `pop_n`, snapshot and restore of continuations | buffer and segments behave as one stack |
| Interpreter | `loop.c`, `instr.c`, `dispatch.c` | registers, stacks, method caches | instructions, traps, method lookup | a cached method is one the lookup would find |
| Native code | `native.c`, `native-ops.c`, `embed-native.c`, `native-compiler.oak` | modules, call-site caches | register, call, flush | agrees with the byte code |
| Signals, timers, crash recovery | `signals.c`, `timers.c`, `loop.c` 255-294 | poll flag, alarm counter, jump buffer | arm, deliver, recover | an interrupt is taken once, at a safe point |
| World files | `worldio.c` | - | read, dump, relocate | a dump reads back as the same world |
| Command line, line editor | `cmdline.c`, `lineedit.c` | - | parse | - |
| Cold linker | `oak-cold-linker.c`, `src/cold-compiler` | symbol, variable and layout tables | layout, patch, write | every reference is patched to what it names |
| Scheduler and synchronisation | `multiproc.oak`, `alarm.oak` | `*scheduleQ*`, mutexes, semaphores, futures, the alarm switch | `pause`, `start`, `lwp`, `wait`, `signal`, `force` | mutual exclusion; a waiter is woken once; a future is computed once |
| Dynamic state | `fluid.oak`, `catch.oak`, `unwind-protect.oak`, `continuation.oak` | fluid bindings, wind list | bind, throw, call/cc | bindings and winds match the continuation |
| Objects and operations | `kernel*.oak`, `multi-method.oak`, `has-method.oak` | types, method lists, caches | add-method, make | lookup finds the most specific method |
| Data structures | `hash-table.oak`, `symbols.oak`, `bignum*.oak`, `sort.oak`, `strings.oak` | tables, numbers | get, set, intern, arithmetic | agree with their mathematical definition |
| Compiler, assembler, reader, printer, Prolog, tools | `mac-*.oak`, `assembler.oak`, `peephole.oak`, `reader*.oak`, `print*.oak`, `prolog.oak` | mostly functional | compile, assemble, read, print | meaning is preserved |

### 1.3 How the components interact

* A thread runs the interpreter's loop and looks at `gc_pending` before every
  instruction (`POLL_GC_SIGNALS`).  A thread that finds it set raises its
  `gc_ready` flag and blocks on `gc_lock`.  A thread that needs a collection
  raises its own flag, takes `gc_lock`, sets `gc_pending`, and scans the flags of
  all slots below a snapshot of `next_index` until each is ready or dead.
* Allocation takes `alloc_lock` with a try-lock spin that is itself a safepoint,
  and calls the collector with the lock held.
* The scheduler of `multiproc.oak` runs on each of these threads.  It is
  preempted by the alarm counter that the interpreter advances, protects itself
  with a mutex and by switching that counter off, and keeps continuations in a
  queue.
* World dumping, loading and writes to heap registers are instructions too; they
  use the locks above, or fail to.

### 1.4 Hard behaviours

`PROJECT.json` lists them, each at its line, under `hazards`.  The main classes:
thread creation and exit against a handshake; locks taken outside safepoints;
recycled slots; state read before a collection and used after it; the concurrent
marker against mutators; lazily swept memory against allocation; a method cache
filled by several threads; a preemption inside a critical section; a waiter that
nobody wakes.

## 2. Modules, runs and what is left of the plan

Each module is one component, or what a component promises.

| Module | Component | Checked by |
|---|---|---|
| `StopTheWorld`, implements `HeapAccess` | threads, safepoints, locks, creation and exit in the stop-the-world build | `stw_*`, `threads_*`, `StopTheWorldProofs` |
| `Scheduler` | processes, preemption, semaphores, futures of `multiproc.oak` | `threads_*`, `sched_preempt_semaphore`, `SchedulerProofs` |
| `ListQueue`, implements `FifoQueues` | the queues below it | `machine`, `ListQueueProofs` |
| `MarkSweepCycle` | `ms_collect` among threads, its pauses, its fall-back to `gc()` | `ms_*`, `MarkSweepCycleProofs` |
| `ConcurrentMark` | snapshot marking, write barrier, remark, weak pointers, lazy sweep | `machine`, `heap_above_limit`, `ConcurrentMarkProofs` |
| `SweepHeap` | bitmaps, free lists, buffers, sweep, as a partition of the words | `machine`, `SweepHeapProofs` |
| `CopyingGc`, `HeapSizing` | both passes of `gc.c` over words and locatives; the size of the next space | `machine`, `heap_full`, `MachineProofs` (the size) |
| `WeakTable` | `weak.c` across collections | `machine` |
| `StackBuffer`, implements `HeldStack` | buffer and segments of `stacks.c` | `machine` |
| `Instructions` | what each instruction pops, checks, allocates and pushes, and its trap | `machine` |
| `Fixnums` | arithmetic on tagged words, in the emulator and in native code | `machine` |
| `Bignums`, `DivisionCache` | integers of any size; what division remembers | `machine` |
| `MethodCache`, extended by `CallSites` | one-argument lookup, its cache, installation; native call sites | `machine`, `method_cache`, `CallSitesProofs` |
| `MultiMethods` | operations on several arguments | `machine` |
| `Signals` | ^C, the alarm counter, fatal signals and recovery | `machine`, `MachineProofs` |
| `Windings` | `dynamic-wind`, `bind`, `catch`, `call/cc` | `machine` |
| `WorldImage` | dumping a world and loading it | `machine` |
| `ColdLinker` | layout and linking of the first world | `machine` |

`MCStopTheWorld`, `MCScheduler`, `MCMethodCache` and `MCMachine` give constants their
values; `MCThreads` puts StopTheWorld and Scheduler side by side, as section 9 says.
The modules whose names end in `Proofs` hold the theorems, one for each component or group of
small ones; section 10 goes through them.

| Run | Expected | Question |
|---|---|---|
| `stw_mutators` | pass | Does the handshake stop the world, does the collector visit every live stack, and does every handshake end, when threads allocate, collect, dump and exit but none is created? |
| `threads_safety` | pass | Native threads that are created, exit, fail and are created again: is a slot ever shared, and are the words an allocation found still there, with STORE-REG in play? Processes on one and two machines: is each in one place, do semaphores count and wake, is a future computed once, is code that holds the scheduler never interrupted? |
| `threads_liveness` | pass | Do creation, exit and LOAD-WORLD ever stall a handshake, and does an allocation find its words beside LOAD-WORLD? Does every queue entry run, and does every process that forces a future go on? |
| `stw_spawn_race` | violation | May a thread that is created during a collection run? |
| `sched_preempt_semaphore` | violation | May a preempted waiter deadlock the machine? |
| `ms_cycle` | pass | Does the fall-back move objects alone, who releases `gc_lock`, and does every cycle end? |
| `ms_late_thread` | violation | Does a pause of `ms_collect` stop the world? |
| `ms_gc_instruction` | violation | May the GC instruction run during a concurrent cycle? |
| `heap_full` | violation | May the copies of a collection fill the space? |
| `heap_above_limit` | violation | Is everything allocated while marking is on kept? |
| `method_cache` | violation | May two threads share a method cache? |
| `machine` | pass | Does each of the other parts do what it promises? |

What is left is to prove more about the parts of `machine`: the refinement of StackBuffer, the
inverse tables of WeakTable, the lists of Windings, what CopyingGc keeps.  None of these modules
declares a RECURSIVE operator; Bignums and ColdLinker do, and stay with TLC.

## 3. StopTheWorld

One action is one access to state other threads can see.  `pc[t]` names the point
of the C code.  The correspondence, group by group:

| Actions | Code |
|---|---|
| `Poll`, `Execute`, `ExplicitGc` | the loop of `loop.c`: `POLL_GC_SIGNALS`, one instruction, the GC and FULL-GC opcodes |
| `TryAllocLock`, `SpinAllocLock`, `TestSpace`, `Bump` | `ALLOCATE_PROT`, `data.h` 528-549 |
| `WaitForGc`, `ClearReady`, `Unpark` | `wait_for_gc` |
| `LockGc` ... `UnlockGc` | `gc()` and `set_gc_flag` |
| `LockDump`, `DumpWorld` | DUMP-WORLD, under `dump_lock` |
| `LoadWorld` | LOAD-WORLD, under `dump_lock` alone: frees spatic space, frees new space (its bounds become null), reads the world and allocates new space, resets `free_point`; four steps |
| `LockStoreReg`, `StoreReg` | STORE-REG of a heap register, under `alloc_lock` |
| `GetNextIndex` ... `CopyRegisters` | `create_thread`, `get_next_index`, `init_thread` |
| `RetireDead` ... `Release` | `oak_thread_exit_unwind`, `free_registers`, `release_thread_slot` |

The heap is abstracted to a count of free words (`EndBelow` when `new_space.end` lies below
`free_point`: `data.h` 540 compares their difference as an unsigned number, and any request
passes) and to the set of threads that
hold references into a space that has been replaced (`stale`).  A collection makes
stale every live thread whose slot it did not visit or whose stacks were not in
that slot.  `registers[s]` stands for everything a slot owns: both stacks and the
register set, which the code allocates and frees together.

*Init* is the state after boot, optionally with some threads already running; which
thread holds which slot is arbitrary apart from the main thread.

### Runs

Three threads (the main one and two others, interchangeable where the run uses
symmetry) and three slots are enough for a collector, a thread that answers the
handshake and a thread that is being created, is exiting, or holds `alloc_lock`
meanwhile; the scan, the slot table and the locks treat threads alike, so a fourth
adds no new role.  `HeapWords` and `MaxRequest` are as small as lets a request find
room, find none, and find room only after a collection.

`stw_mutators` starts with all three running.  Its next-state relation, `MutatorNext`, is
`Next` without the actions that its constants disable; those occur in the `threads_*` runs.
In `threads_safety` and `threads_liveness` the main thread creates and the others come and go: in the first with three slots and creations that
fail and are tried again (part "native"), and with two slots and a main thread that executes
STORE-REG (part "writing"); in the second with two slots, so that creation runs out of them, and
a main thread that also loads worlds.  The runs that check liveness use no symmetry.

Fairness is weak fairness of each thread's steps: the operating system keeps
running every thread.  Nothing is assumed about who wins a contended mutex or a
try-lock, nor about what a program executes next.  Deadlock is checked in all these
runs: the interpreter always has a next instruction.

### Finding

`threads.c` 266-269 says that a new thread cannot "get started and begin processing
while the gc is already running".  `get_next_index` takes `index_lock`, not `gc_lock`.
`stw_spawn_race` ends with a thread created after the snapshot starting up while objects
move.  It executes nothing before it parks (`HandshakeStopsTheOthers`, section 10), but the
operation it was created for (`info.start_operation`) is not updated: on the same instance TLC
refutes `NoStaleRoots` too.

### What the constants of the passing runs leave out

`HandshakeCompletes` is checked with at most one thread that dumps or loads, and without
`RegWriters`: two hazards of the list are real deadlocks, and excluded, not covered.  With two
dumpers the second blocks on `dump_lock` outside a safepoint and the first waits for it in
`gc()` for ever.  With register writers, STORE-REG of `free_point` or `new_space.end` blocks on
`alloc_lock` outside a safepoint while an allocation that collects holds it.  To see these,
change `Dumpers` or `RegWriters` in `stw_mutators.cfg`, with `SPECIFICATION FairSpec` for the latter.

`NoStaleRoots` is checked without `Loaders`: LOAD-WORLD frees the heap under the other threads,
without a handshake.  `WorldStopped`, `HeapShared` and `ScannedSlotsHaveStacks` are checked
without `Spawners`; the finding above says what a creation does to them.

`RequestFits` is checked with loads at every point of an allocation, and has one exception,
`Replacing`: while LOAD-WORLD has freed new space and not yet set `free_point`, another
thread's allocation passes its test whatever it asks for and bumps into no space at all.
Nothing in the code prevents that, and without the exception TLC refutes it in
`threads_liveness`.  An allocation that tests before that window and bumps after it, or waits
inside it, is covered.

A thread spawned by a thread that exits before the new one has copied its registers
(`threads.c` 220) reads freed memory.  No document claims otherwise, and in the runs only the
main thread creates, which never exits; the hazard is listed without a property.

## 4. Scheduler and its queues

`stack[v]` holds the active calls of the functions of `multiproc.oak` on machine `v`
(a native thread), innermost first; a frame names its function (`fn`) and the point
it has reached (`at`).  A queue entry is a process and a thunk.  A thunk made by
`call/cc` replaces the stack (`Throw`), any other runs on top of the stack of whoever
dequeues it (`Call`), as it does in the code: a finished process returns into the
stack below it when `start` finds nothing to run.

| Actions | Code |
|---|---|
| `DisableAlarms`, `AcquireScheduler`, `ReleaseScheduler`, `EnableAlarms` | `acquire-scheduler`, `release-scheduler`, opcodes 67-69 of `loop.c` |
| `Pause`, `Start` (both by `SwitchTo`), `Go`, `ProcessRunFn` | `pause`, `start`, `process-run-fn` |
| `Tick`, `Alarm` | the timer of `loop.c` and the handler of `alarm.oak`, which pauses |
| `AcquireMutex`, `ReleaseMutex` | `acquire-mutex`, `release-mutex` of semaphores and futures |
| `Wait`, `ReleaseWait`, `Block`, `WaitReturns`, `Signal`, `ReleaseSignal` | `wait`, `signal` |
| `Drain` ... `AppendDependants` | `force` and the process that computes the value |
| `Perform`, `Finish` | the user's program: any order of the calls `Calls[p]` allows, then idle or end |

A failed test-and-set is a stutter.  The test-and-set of `scheduled?` is one step, as
its mutex protects nothing else.  `log` only records what happened, for properties.
`alarms` and `expired` are single variables because the code has single variables.

Bounds: `MaxCalls` operations a process performs, `DrainMax` for the hundred pauses of
`force`, and an alarm does not interrupt the first step of another one's handler.
Two machines, one or two workers, the main process and busy work cover every pair of
roles: waiter and signaller, two forcers, a forcer and the filler, each with somebody
else who only pauses.

`threads_safety` starts in one of three worlds: a waiter and a signaller on two machines; two
forcers of one future on two machines; the same on one machine with alarms.  `threads_liveness`
has two, both on one machine: two forcers with alarms, and two forcers of a future whose body
waits for a signal.

A *world* is a program and a build: which machines are started, whether there is a
timer, what each process calls.  `Worlds` is a constant and a run starts in any of them,
so that one run asks its question of several programs.

`NobodySuspendsLate` and `FutureAnswersOnce` are about the second of two forcers: in the worlds
of `threads_safety` the main process and a worker force the same future, on two machines or
preempting each other, so one of them may test the value and go to sleep while the filler
stores it and hands over the dependants (the mutant stores the value and forgets the mark that
the test reads).  `ForceEnds` speaks of each process by itself: if it forces, it goes on with its
program, whoever was answered before; only where the body itself waits (`BodyBlocked`) nothing
is promised.  Its mutant wakes the first dependant and forgets the others.

`threads_safety` rests on the idle processes: there is one per machine that always comes
back to the queue, so `start` never returns.  `NeverIdle` says so; the run checks it, and
section 10 proves it for any number of machines that each have such a process.
When the main process itself waits on a semaphore, `start` does return: first finding below.

Fairness: weak for the steps and the clock of a machine; strong for the end of a
computation, because each time it is resumed it executes a thousand instructions before
the next alarm.  Liveness is checked on one machine, since nothing promises that a
spin lock contended by two is fair.  `sched_preempt_semaphore` does not check
deadlock: the spin it ends in changes nothing any more.

`ListQueue` has the pairs of `make-queue`, `enqueue`, `dequeue` and `qappend` one by
one, as the part "lists" of `machine`; it lets nobody use a queue that has been given
to another with `qappend`, as `force` does not.

### Findings

1. `wait` returns without a signal when the scheduler has nothing else to run, though
   `misc.tex` says that it blocks (multiproc.oak:426): TLC refutes `WaitersSignalled` with
   `Worlds <- OneWaiter`, which no run uses.  By the same road `force`
   returns without a value when the body of the future is blocked and nothing else can
   run (the second world of `threads_liveness` goes there).
2. A waiter preempted while it holds the mutex of the semaphore deadlocks the machine
   at the next `signal` (`sched_preempt_semaphore`).

### What the worlds of the passing runs leave out

Alarms are only combined with one machine.  `timer_increment` is one variable for all
threads (`data.c` 41), so with two machines `%enable-alarms` on one exposes the other in
its critical section to an alarm, whose handler spins for the lock it holds, and
`NeverInterrupted` fails.  Semaphores are not combined with alarms: second finding.
`qappend` does not empty its second queue, as the comment at `multiproc.oak` 21 has it:
`AppendDependants` leaves `dependantsQ` alone, and what is scheduled later stays
reachable from it.

## 5. The mark-sweep collector

### MarkSweepCycle (runs `ms_cycle`, `ms_late_thread`, `ms_gc_instruction`)

The build with `THREADS` and `USE_MARK_SWEEP`. Again one action is one access to shared
state, and `task[t]` says what a thread's handshake is for.

| Actions | Code |
|---|---|
| `Poll`, `Execute`, `WaitForGc` | the loop of `loop.c`, `wait_for_gc` |
| `AllocTlab`, `TryAllocLock`, `SpinAllocLock`, `AllocSlow` | `ALLOCATE_PROT` and `ms_alloc_slow_locked` |
| `LeaveLock`, `RaiseForWait`, `MsWaitConcurrentGc` | `ms_collect` while another thread collects |
| `BeginCycle`, `TraceConcurrent`, `EndCycle`, `FallBack`, `MsReinit` | `ms_collect` of the coordinator |
| `EnterGc`, `RequestPause`, `ScanReady`, `Work`, `Release` | `stw_request_pause` and `stw_release`, and the same in `gc()` |

The heap is three counts: room above `free_point`, words on free lists or to be swept,
words in buffers. Three threads, three words and buffers of two let one thread
coordinate, one wait inside `ms_collect` and one run; every way out of the allocator is
taken.
Fairness is weak, per thread, as in StopTheWorld. `ms_cycle` has no thread that executes
the GC instruction (`Collectors = {}`), for the reason in the finding.

Findings:

1. `gc-ms.c` 1144-1145 says of the first pause that "the world is stopped, so no mutator can be
inside the TLAB fast path", and `GC.md` 301 that all other threads park. A thread that waits in
`ms_collect` for another's cycle keeps `gc_ready` up until it has `alloc_lock` (1054-1059). The
scan of the next cycle counts it as parked; its coordinator has given up `alloc_lock` (1142); so
the thread gets the lock, lowers its flag and goes on into the allocator during the pause.
`ms_late_thread` shows it with two threads (`PausesStopWorld`). It is the only thread at large,
for any number of threads (`OneLateThread`, section 10).
2. `gc.c` 479-480 takes `gc_concurrent_in_progress` for a stopped world. The GC
and FULL-GC instructions call `gc()` too, and then it moves objects among running
threads (`ms_gc_instruction`). Nobody needs the exception: `ms_collect` lowers the flag
before it falls back. The same test at the end of `gc()` may leave `gc_lock` and
`gc_pending` set for ever when a cycle began during the handshake.

### ConcurrentMark (part "marking" of `machine`, run `heap_above_limit`)

`field`, `roots` and `weak` are the program's graph; a store is two steps, the log of
the barrier (`SatbBarrier`) and the write (`Store`). `BeginCycle`, `InitialMark`,
`MsTraceConcurrent` (one object a step), `Remark`, `EndCycle` are the stages of
`ms_collect`; `MsLazySweepOne` is the allocator's block of sweeping. Two ghosts make the
promise exact. `doomed` is what was garbage when the cycle began, for `GarbageFreed`.
`exposed` is what the snapshot does not speak for: objects carved while marking is on,
and objects that were garbage until a weak pointer was followed (WP-LOAD has no
barrier). `SnapshotKept` and `WeakNeverDangles` hold of everything else.

Bounds: two objects, two mutators, one of which follows weak pointers; the other one
holds one object at a time (`Shallow`). Without that restriction the part has 2.2
million states and holds as well; so does the one with three objects and one mutator as
far as it was explored. A lost object needs one object that is already traced and one
that is hidden behind it, hence two.

Finding (`heap_above_limit`): objects carved above `sweep_limit` are said to be
implicitly live, but `ms_collect` forgets the limit when it returns, with the sweep
unfinished. An object stored into one already traced and dropped from the stack is then
swept while reachable. For any heap and any number of mutators
`LiveIsKept` and `GarbageFreed` are proved (section 10).

### SweepHeap (part "sweep")

The words of the heap: `objstart` and `mark` are the bitmaps, `entries` the free lists
(address to actual size, the class computed by `SizeClass`), `tlab` the buffers.
`AllocTlab`, `MsFreeListAlloc`, `Carve`, `MsLazySweepOne`, `MsTlabRetireAll` within
`Collect`, and `EndCycle` are the functions of `gc-ms.c`; a collection is one step that
marks what the program holds. Nine words, four classes, requests of one, three and four
words and two buffers of four make every extent between exact fit and leftover. A
buffer may be used between the read and the write of a plain BM_SET (gc-ms.c:57 and 183): the
fast path takes no lock, and its atomic OR (gc-ms.c:189) is then undone if the words share one
of the bitmap. The ghost `intact` says that this has not happened yet. The properties speak of
the states in which it holds; in the others TLC finds `InteriorFound` violated, a locative
leading to a wrong object, and `NoWordTwice` too. The race is a hazard on the list that they do
not cover: `ms_bump_alloc_notify_atomic` (gc-ms.c:186-189) exists to avoid it, and the allocator
that holds `alloc_lock` does not use it.

## 6. The copying collector and what moves with it

`CopyingGc` (part "copying") takes all fillings of a small heap: an object of two words,
a cell by itself and an object of one word; three roots, the last visited only by the
second pass, as `e_bp` and `e_pc` are; every word a number, a reference or a locative.
`GcTouch`, `LocTouch`, `Scavenge`, `TouchRoot`, `PostGcWp` are the macros and loops of
`gc.c`. `SameGraph` compares the heap with the one before: one new place per reachable
word, objects in one piece, locatives into them. A method that is finished with its own
object may leave in `e_bp` the last pointer into it (gc.c:697); that cell is exempt, and
the exemption is in `Reached`.

`HeapSizing` (part "sizing", run `heap_full`) is the arithmetic around `e_next_newspace_size`.
`Transport` copies what survives and ends the process (`exhausted`) when the copies take the
last word of the space, as gc.c 243 and 331 do. `RoomForAll` says that a request that caused a
collection fits after at most one more, and that the survivors always leave the word that the
code insists on, unless such a request had taken the last word of its space before (`filled`).
It is proved for every factor, first size and sequence of requests. Register 18 lets a
program set the next size below what is alive; that is outside the model.

Finding (`heap_full`): the exception is a real one. gc.c 817 is satisfied when what is left is
not less than the request; ALLOCATE_PROT does not test again, so the space may be full, which it
never makes it by itself (`>=`, data.h:540). If everything survives the next collection, into a
space of the same size, the process ends with what gc.c 251 calls "a bug in the garbage
collector".

`WeakTable` (part "weak") has both tables, the free list, growth and the rebuilding
after a collection, in the whole of which addresses, and so hash keys, change. Three
objects, three keys and two collections fill a hash table of three entries and make it
grow twice. `NeverAnother` restates weak.c:92-96, that a slot is used again only once
nobody can hold the old index; TLC refutes it, because a program may keep the number. No
run checks it. `wp_to_ref` reads the table without `wp_lock` while it may be
reallocated; the model has each operation in one step.

## 7. The interpreter

`StackBuffer` (parts "values" and "contexts") implements `HeldStack` by `held <-
Flat(segments, buffer)`: flush, unflush, pops that drop whole segments, captures that
share them. The buffer has five words, segments two, and the stack seven values, which
crosses two boundaries of segments; the assumption `StackAssumption` is what the command
line enforces. `NeverFatal` is about the checks that end the process.

`Instructions` (part "interpreter") writes each kind of instruction as a program of
pops, checks, allocations and pushes over the C locals of `loop()`, and stamps each
local with the collection it was loaded before. `NoStaleUse`: nothing uses a local from
before a collection; the trap code is exempt, because `CHECKVAL_PUSH` in `arg1_tt`
(loop.c:2522) may collect before the unprotected `x` is pushed back, which is a hazard
on the list. `TrapProtocolElsewhere`: trap operations find their operands and come back
behind the instruction, except for the instructions in `Divergent`, for which TLC
refutes `TrapProtocol`: STORE-SLOT is taken for a call and pushes no context (its opcode
lies in the range tested), ^SUPER-CXT pushes a second one, ^SUPER-TAIL loses an operand
and STORE-REG pushes one twice.

`Fixnums` (part "arithmetic") runs each arithmetic instruction and its native twin on
every pair of words of six bits, fixnums of four; the tricks with tags and carries
depend on the three highest bits and the two tag bits only.

`Bignums` (part "integers") has the digit lists of `bignum.oak`: sums, differences, long
and divide-and-conquer multiplication, division with its estimated digits, and bitwise
operations by chunks. Base 8 in fixnums of eight bits keeps the proportions of the
64-bit build; the operands lie around every limit, and include pairs for which the
estimate is two too large. Base 10 and powers of 3, and more operands, were tried too.
`Exact` fails for exactly one pair: `(remainder most-negative-fixnum
least-positive-bignum)` gives the dividend instead of 0, and the quotient 0 instead of
-1, because bignum.oak 212-218 takes a bignum to exceed every fixnum in magnitude.
`IntegersExact` leaves that pair out.

`DivisionCache` (part "division"): what division remembers lies in variables that all
processes share, without a lock. With one process `QuotientRight` holds; with two, TLC
refutes it (bignum.oak 713-736: one sets the divisor that both compare, the other reads
what has not been computed from it yet).

`MethodCache` is FUNCALL with its one-entry cache and `%install-method-with-env`;
`CallSites` (part "calls") extends it by the sites of native code, garbage collections
that move what they cache, and new registrations of a module. The hierarchy of types is a
constant: `SuperList` has the supertypes, and `SearchOrder` the order in which
`find_method_type_pair` meets them, which `CacheAssumption` ties to the recursion in the
code (`Hierarchy`). One thread calls and installs in `machine`; for one thread `CallRight`
and `SiteHitRight` are proved for every hierarchy. `SiteHitRight` is about every hit, at sites of
operations and of lambdas: no moved words, the newest function of the method, and the method and
frame the search would find, unless the site is `Outdated`, that is, ADD-METHOD has given its
lambda another method since. Finding (`method_cache`): with two
threads, the three stores of a fill interleave, and a type stands beside the method of another; reading the type twice
does not help the next call. Also, a lookup that began before an installation may fill
the cache after it (`Threads = {1, 2}` with installs). `LambdaSiteRight` drops that exception, as
oak-native.h 87-89 does: the slot of a lambda is never written again. TLC refutes it, as
ADD-METHOD on a lambda writes it and no site is flushed. `*add-method-mutex*` of
`kernel1-install.oak` guards nothing: code-vector.oak:119 redefines the installer
without it.

`MultiMethods` (part "dispatch") is `multi-method.oak` with the tuples of types it
caches. `DispatchRight` compares, after every installation and call, what the next call
does with what the manual says (`Wanted`), for all argument lists but the `Contested` ones. In
those the manual contradicts itself: doc/lang/methods.tex 93-98 and multi-method.oak 33-37 say
that a method without further specializers is the least specific of all, but the search order
that they also prescribe is depth first, so for a type with two supertypes OBJECT, and the
fallback with it, comes before the second of them. The code follows the order.
The run has nine argument lists,
three specializer tuples and two cache lines; twelve lists with four tuples hold as well
(107,288 states). `FallbackIsLeast` is the other sentence; TLC refutes it on a contested call.

`Signals` (part "interrupts") has the poll flag, the alarm counter, and fatal signals
with `crash_handler`, one-shot dispositions and recovery in two threads.
`InterruptKept`: a ^C is answered although any thread may clear the flag (it first calls
the trap). `EndsOnlyAsMeant`: the process dies only of too many crashes without
progress, or when two threads crash at once, the second before the first has reinstalled
its handler. Both are proved for any number of threads. What a recovered thread holds of
locks is not modelled: crash inside `gc()` leaves `alloc_lock` and `gc_pending` set, a hazard without a property.

`Windings` (part "winds") is the dynamic state: `stack` are the frames of the program,
`todo` what the run-time system has still to do before it goes on, guards included.
`WindsMatch` says that the lists agree with the frames after every throw and every
re-entry of a continuation, `GuardsAlternate` that no guard runs twice. Guards return
(`GuardsThrow = FALSE`). With guards that throw, TLC refutes `GuardsAlternate` in nine
steps: the guard that threw is called again (`unwind-protect.oak` 81-101).

## 8. World files and the cold linker

`WorldImage` (part "world") dumps word by word, binary (through a buffer of `REFBUFSIZ`
words) or ASCII, with a disk that may fill, a process that may die and other threads
that store or allocate, and loads what came of it at another address. `WorldKept`: what
is loaded has the same structure and sharing, a dump cut short is refused. Words
allocated during the dump break it, because the count is written first (worldio.c:263)
and `free_point` read again at the end (302): the property says so with `allocations =
0`. Two words of spatic and one of new space make every kind of pointer across the two;
one of spatic and two of new space were tried too.

`ColdLinker` (part "linker") takes files of blocks with patches: `CountThings`,
`LayoutHandbuiltData`, `PatchSymbols`, `BuildBlkTable`, `SpewOpcodes` are the passes of
`oak-cold-linker.c`. The hazard is that counts, addresses and contents come from
different passes and have to agree. `Linked` reads the finished world from its boot
method and its symbol table on. The run links 162 choices of files, with shared and
nested constants, empty strings, and variables that are symbols too; 1089 were tried.

## 9. One run for many parts

`MCMachine` puts these modules side by side. A behaviour picks a `part` and is a
behaviour of that part from then on; the parts share the registers `s1` to `s15`, and
those a part does not use stay empty. Parts do not interact: each is closed under what
the others do to it (collections, other threads), which its module says. Where two of
them do interact in the code, the model of one contains the other's effect, as
`Instructions` has collections and `CallSites` has `MethodCache`. The properties of
`MCMachine` are the conjunctions of those of its parts, and of the refinements. Deadlock
is not checked: tables and heaps fill up, and bounds end installations and collections.
The run has 3.3 million states. The part "sweep" ends with
the state in which a start bit is lost, as its properties say nothing from there on. `MCThreads` does the same with
StopTheWorld and Scheduler, which share no state.

## 10. Proofs

Each proof is an inductive invariant, usually called `IInv`, with three facts: the initial
states satisfy it, every step of `[Next]_vars` keeps it, and it implies the property.  The
theorems hold for every value of the constants that satisfies the named assumption of the
module; what else they assume is said below, with what happens without it.

### Stop the world (`StopTheWorldProofs`)

For any number of threads, slots and words that satisfies `ThreadsAssumption` and
`BoundsAssumption`.

* `TypeCorrect`: `TypeOK`, from `Types`, which adds that the scan stays below its
  snapshot.  Proved by groups of variables (`PcT`, `IdentT`, ...) so that a step
  proves only the groups it changes.
* `StacksOutliveCollection`: from `Owner`, that a program point lies inside
  `gc_lock` exactly when the thread owns it.
* `SlotsAreExclusive`: `SlotsExclusive` is not inductive.  `SlotInv` adds that no
  slot at or beyond `next_index` is in use, that a slot taken by a creation in
  progress or just emptied by an exit is empty, and that empty slots stay so until
  their occupant fills them.  A step then only takes (`TakeSlot`), hands over
  (`HandSlot`), fills or empties (`FillSlot`), or frees (`FreeSlot`) one slot.
* `WorldStops`, under `Spawners = {}`: from `Flags` (a raised flag belongs to a
  thread that cannot touch the heap before it gets `gc_lock`) and `Scanning` (every
  thread below `scan` has been seen out of the heap and has not come back, because
  the collector owns `gc_lock`).  Without the assumption the claim is false:
  the finding of section 3.
* `RootsStayFresh`, `ScannedSlotsAreFurnished`, under `Spawners = {}` and
  `Loaders = {}`: from `Furnished`, that an empty slot is flagged dead and that a
  live thread finds its own stacks in its slot.
* `HandshakeShares`, under `Spawners = {}`: every step maps to a step of
  HeapAccess, or to a stutter, under the mapping of `Access`.
* `HandshakeStopsTheOthers`, whoever creates threads: what is left of `WorldStops` when
  threads are created.  While objects move, every other thread is parked, exiting, absent or
  has been created since and has executed nothing (`OnlyNewbornsRun`).  The race of section 3
  is thus confined to what a newborn does before its first poll.
  `ScanningLate` weakens `Scanning` by the newborn, `CleanSlots` says that the flags of a
  slot are down when it is handed over, `Pending` that `gc_pending` is up meanwhile.
* `WordsStay`: `RequestFits`, without hypothesis, so with any threads that create, load and
  write registers.  A collector holds `alloc_lock` from the test of the space to the bump, a
  newborn that runs cannot bump without it, and STORE-REG takes it.  LOAD-WORLD takes
  `dump_lock` only, so it may begin and end at any point of an allocation; `Room` says what of
  the test is left outside the window `Replacing` (section 3), namely that a request, of at most
  `MaxRequest` words, fits the space that LOAD-WORLD has just made.

### The cycle of the mark-sweep collector (`MarkSweepCycleProofs`)

All under `Collectors = {}`: no thread executes the GC instruction.  With one that does, TLC
refutes these claims; `ms_gc_instruction` shows one of the ways.  `IInv` says what each
thread's handshake is for (`Purpose`), who holds which lock at which point (`Owners`), that one
thread coordinates a cycle and that `gc_concurrent_in_progress` is up exactly then
(`OneCycle`), and what a flag and a scanned flag mean (`Flags`, `Scanning`).

* `LockIsReleasedByOwner`: `ReleasesOwnLock`.  The argument is in `OneCycle`: while `gc()`
  makes a handshake its caller holds `alloc_lock`, so no cycle begins, and both reads of
  `gc_concurrent_in_progress` see it down.
* `OneLateThread`: in a pause every other thread is parked or about to poll, or it is the one
  that owns `alloc_lock`.  This bounds the finding `ms_late_thread`, which refutes
  `PausesStopWorld`; it does not say that the pause is safe.
* `FallBackIsAlone`: `FallBackMovesAlone`.

### Marking (`ConcurrentMarkProofs`)

For any set of objects, fields, mutators, stack depth and sweep block (`MarkAssumption`).
`NothingKeptIsFreed` and `AllGarbageIsFreed` are the two properties that make the collector
correct.  The difficulty is that a state in the middle of marking does not contain the
snapshot it marks.  The invariant says that there is one: a set that is
the *least* one closed under the fields as they were (`Taken`, which the remark uses), such that
what a field in it referred to then and no longer does is in the log (`Logged`), and such that
what the program can reach is inside, or marked, or exposed (`Known`).  `Garbage` says how what
was garbage then stays out of the roots, the log and the marks until the sweep has listed it.
`exposed` is as in section 5.

### The words of the heap (`SweepHeapProofs`)

For any heap, size classes, requests, number of threads, buffer size and sweep block
(`SweepAssumption`), and whatever the threads do with their buffers.  The invariant, like the
properties, holds until a plain BM_SET has undone an atomic one (`intact => IInv`, section 5):
the race is in the model, and what it breaks is not claimed.  Objects and free entries are intervals that
begin at a start bit and have none inside (`Whole`).  Two of them that begin in different
places are then apart, whatever their lengths, and what splitting, carving and coalescing
keep is a fact about start bits.  `Buffers` says the same of the threads' buffers, and
`Sweeping` where the cursor of a sweep under way stands.

* `NothingHandedOutTwice`: `NoWordTwice`.
* `LocativesFindTheirObject`: `InteriorFound`; the search back ends at the greatest start bit.
* `CountIsListed`: `free_list_total_words` is the sum of the entries, as the cardinality
  of the set of their words.

### The scheduler (`SchedulerProofs`)

For any programs, processes, machines and worlds (`SchedulerAssumption`).  A continuation is a
stack whose frames may hold continuations, to any depth; the invariant (`Continued`) says that
there is a set of stacks with all that are held anywhere, whose own frames hold only members.

* `TypeCorrect`: `TypeOK`.
* `SignalFindsWaiters`: `SemaphoreBalanced`.  Alarms between the steps of `wait` and `signal`
  are included; what the second finding of section 4 breaks is progress, not the balance.
* `NoLateSuspension`: the action property `NobodySuspendsLate`.
* `HolderIsNotInterrupted` and `HoldersExclude` (`OneHolder`: at most one machine executes what
  the scheduler's mutex protects, and it has the mutex), under `AlarmsAlone`: a world with a
  timer has one machine.  With a timer and two machines TLC refutes `NeverInterrupted`, as
  section 4 explains.

The rest is about what happens to a process while it passes from machine to queue to
machine.  It holds for any programs under

* `EntriesAreSomething`: a queue entry is not the absence of one, `Nothing` (the code tests for
  `#f`);
* `AlarmsAlone`, as above;
* `MakersAssumption`: the main process, the busy-work of a machine and the filler are each made
  in one place in the code, so a program does not make them again, and there are finitely many
  machines;
* `[]NeverIdle`: the theorems state their property of every behaviour in which `start` finds a
  process to run.  The first finding of section 4 is a program in which it fails and
  `WaitersSignalled` and `ForceGivesValue` with it, so the hypothesis cannot be dropped; below
  it is replaced by one about the world.

Two invariants carry the proofs, on top of `IInv`.  `Continuing` says whose continuation each
stack is.  Of a stack only the frames above the first one that never returns (`Ended`: about to
suspend itself, or about to throw) matter, as the others are not executed again.  `Good`
relates each of these frames to the one below it and to the process the stack belongs to; what a
frame would throw to is `Good` for the process it would install (`Whole`).  `Tallied` is the
counting argument.  `Place` reduces a stack and its process to what the counts tell apart, and
`Among(A)` counts the machines and the entries whose place is in the set `A`.  For each process
the places where it is alive, those where somebody is about to make it, and the promise that
somebody may still do so are at most one together (`Once`).  `Phase` says that the body of
the future goes through its stages one after the other, and `Passing` that every signal that
has raised the value from below one has a waiter to show for it.  The steps that change no count
are proved by one lemma on places (`Calmer`); those that do (`Signal`, `Wait`, `ProcessRunFn`,
`Claim`, `Perform`, the steps of the filler) have each a lemma of their own.

* `RunsAsItself`: `RegisterFits`.
* `RunsInOnePlace`: `RunsOnce`.
* `FilledAtMostOnce` and `FutureAnswers`: `FilledOnce`, and with it `ForceGivesValue`, which
  together are `FutureAnswersOnce`.
* `WaitersPassOnSignals`: `WaitersSignalled`.

`NeverIdle` itself is proved where the world is such that each machine has a process of its
own (`Boot` on the first, its busy-work on another) that comes back to the queue for ever and
calls nothing that could suspend it, but that the boot process may force the future; the body
of the future then calls nothing that could suspend it either.  That is `IdleWork`, a
predicate on `world`, which never changes.  The three worlds of `threads_safety` are such; the
other processes may do anything.

* `MachinesFindWork`: `Spec /\ IdleWork => []NeverIdle`.
* `SchedulerKeepsPromises`: so there `RunsOnce`, `RegisterFits`, `WaitersSignalled` and
  `FutureAnswersOnce` hold with no assumption about the behaviour.

The invariant (`AllWork`) has three parts.  Each such process is kept by somebody: an entry of
the queue or a machine serves it (`Serving`), that is, runs it or is about to make it; or it is
the boot process and has suspended itself on the future, in whose dependants it is then
(`Delegated`).  From the claim of the future until its value is delivered the filler is kept,
who will bring the boot process back.  And while the boot process is among the dependants and
the filler is unclaimed, somebody is about to claim it (`Claiming`).  A place serves at most one
of them, and a machine in `start` serves none.  So if `start` found the queue empty, as many
processes as there are machines, the filler or its claim standing for the boot process where it
waits, would be served by one machine fewer: the pigeonhole principle refutes it.  The
induction needs `NeverIdle` of the present step for `Continuing`, and gives it for the next.

### The queues (`ListQueueProofs`)

`QueuesAreFifo`: `Spec => ImplementsFifo`, for any queues, objects and number of pairs
(`ListQueueAssumption`).  For each queue in use there is a chain of pairs, linked by their cdrs,
and no pair is in two chains or twice in one (`Chained`).  Queues that were given away share
pairs with others, and the last pair of an empty queue is out of date, so neither is in the
invariant.  That the contents of a queue, a recursive function of its head, are the cars of its
chain is an induction over the length of the chain, by the least-number principle and by the
induction over sets that the library states as a fact.

### Method caches and call sites (`CallSitesProofs`)

`CachesAreTransparent`, for any hierarchy of types (`CacheAssumption`), any number of
installations, collections and registrations, and one thread (`Alone`).  For two threads the run
`method_cache` refutes it.  `CacheFresh`: an unparked cache holds what a search for its type
would find now; `SiteOk`: a live call site has the newest function of its method and the
frame of the type it is for, and no address from before a collection; `CallUnderWay` and `InstallUnderWay` say what the call or the
installation has read so far.

### Smaller parts (`MachineProofs`)

* `SpacesSuffice`: `RoomForAll` of HeapSizing, the exit for an exhausted space included.
  `SizesMatch` adds that the next space is never
  smaller than this one unless a full collection starts anew, and that a second collection is
  under way only if the space was chosen for what the first one found.
* `CrashesEndOnlyAsMeant`: `InterruptKept` and `EndsOnlyAsMeant` of Signals, for any number of
  threads.  `DispositionsReturn` says that the default disposition is back only while the
  thread whose crash put it there is on its way through the handler, `CountersMeasure` that
  the crashes counted are no more than the crashes in a row.

The properties of `MCMachine` are conjunctions over its parts, and `MCMachine` reaches the
recursive modules, so the theorems about its parts name the parts' own definitions.

## 11. What is checked and not proved

* Liveness (`HandshakeCompletes`, `CycleEnds`, `ForceEnds`, `EveryEntryRuns`) needs fairness
  and ENABLED, which are out of the prover's reach, and stays with TLC; so does every run in
  which a property fails.
* In Scheduler: `NeverIdle` where the process of a machine may suspend itself otherwise, on a
  semaphore or on a future whose body suspends itself.  It then depends on what the programs
  do: the first finding of section 4 is one where it fails.
* In the parts of `machine`: `SameGraph` of CopyingGc, `OneWeakPointerEach`, `NeverFatal` and
  `ImplementsStack`, `OperandsKept`, `DispatchRight`, `WindsMatch`, `WorldKept`, and the
  arithmetic of Fixnums, DivisionCache and Bignums.  The first ones have no obstacle but their
  size.
* Bignums and ColdLinker use RECURSIVE operators, for which the prover loses its arithmetic.
  For recursive *functions* it is different: an induction can be done by hand, as in
  ListQueueProofs and CallSitesProofs, though not by the library's schemes over operators.

Definitions that restate a document and are refuted by TLC, but belong to no run, stay
in their modules as a record: `FallbackIsLeast`, `LambdaSiteRight`, `NeverAnother`,
`TrapProtocol`, `Exact`.

## 12. Not modelled

`PROJECT.json` says component by component what is left out. Apart from what the
sections above name:

* the compiler, assembler and peephole optimizer, the compiler that emits C, the reader
  and the printer, locales and the evaluator, Prolog, the tools: sequential
  transformations of trees and text, whose correctness is the meaning of the language
  and would need its semantics first;
* hash tables, symbols, strings, sorting, mapping: short sequential algorithms that a
  test reaches;
* object-file parsing, the header of a world and the obsolete formats: text;
* the build of the mark-sweep collector without threads, and its verification code: the
  sweep and the allocator are those of the threaded build with nobody beside them;
* growth of the mark stack and the log, allocation failure of the C library, the command
  line and the line editor, and the Windows and DOS layers.

Known limits that no model shows: an ASCII dump cut within its last word loads with a
wrong weak pointer; after LOAD-WORLD the weak tables of the old world survive until the
next rebuild; the rest of a buffer is abandoned when it is refilled; the alarm counter
is shared, so one thread's reset may turn another's alarm into a user trap (loop.c
2497).
