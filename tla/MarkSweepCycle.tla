--------------------------- MODULE MarkSweepCycle ---------------------------
(***************************************************************************)
(* The collection cycle of the threaded mark-sweep build among its threads *)
(* (THREADS with USE_MARK_SWEEP): the two pauses of ms_collect, the wait   *)
(* of a thread that needs memory while another thread collects, and the    *)
(* copying collector as the last resort of the allocator and as the GC     *)
(* instruction.  Threads are numbered by their slots; their creation and   *)
(* exit are the business of module StopTheWorld.                           *)
(*                                                                         *)
(* One action is one access to shared state.  The heap is three counts:    *)
(* words above free_point (room), words on free lists or still to be swept *)
(* (listed) and words of each thread's allocation buffer (tlab).  What is  *)
(* marked is the business of module ConcurrentMark.                        *)
(* A definition marked Mutant is a plausible slip that nothing here uses.  *)
(***************************************************************************)
EXTENDS Integers

CONSTANTS
    ThreadCount,    \* next_index
    HeapWords,
    TlabSize,       \* TLAB_SIZE; every request is for one word
    Collectors      \* threads that execute the GC instruction

ASSUME CycleAssumption ==
    /\ ThreadCount \in Nat \ {0} /\ TlabSize \in Nat \ {0} /\ HeapWords \in Nat \ {0}
    /\ Collectors \subseteq 0 .. ThreadCount - 1

VARIABLES
    pc, task,                   \* what the handshake of a thread is for
    gc_ready, gc_pending,
    gc_concurrent_in_progress,
    gc_lock, alloc_lock,        \* owners, -1 for none
    scan,                       \* next slot that the holder of gc_lock looks at
    room, listed, tlab

locks == <<gc_lock, alloc_lock>>
shake == <<gc_ready, gc_pending, scan>>
heap  == <<room, listed, tlab>>
vars  == <<pc, task, shake, gc_concurrent_in_progress, locks, heap>>

Threads == 0 .. ThreadCount - 1
None    == -1
Goto(t, l)      == pc' = [pc EXCEPT ![t] = l]
Step(t, k, l)   == pc[t] = k /\ Goto(t, l)
Shake(t, l, k)  == Goto(t, l) /\ task' = [task EXCEPT ![t] = k]
Raise(t)        == gc_ready' = gc_ready \cup {t} /\ UNCHANGED <<gc_pending, scan>>
Lower(t)        == gc_ready' = gc_ready \ {t} /\ UNCHANGED <<gc_pending, scan>>
LockAlloc(t)    == alloc_lock = None /\ alloc_lock' = t /\ UNCHANGED gc_lock
UnlockAlloc     == alloc_lock' = None /\ UNCHANGED gc_lock

Init ==
    /\ pc = [t \in Threads |-> "top"] /\ task = [t \in Threads |-> "pause1"]
    /\ gc_ready = {} /\ gc_pending = FALSE /\ gc_concurrent_in_progress = FALSE
    /\ gc_lock = None /\ alloc_lock = None /\ scan = 0
    /\ room = HeapWords /\ listed = 0
    /\ tlab = [t \in Threads |-> 0]

----------------------------------------------------------------------------
(* The interpreter's loop and wait_for_gc.                                 *)

Park(t, k) == task' = [task EXCEPT ![t] = k] /\ Goto(t, "park") /\ Raise(t)

\* POLL_GC_SIGNALS.
Poll(t) ==
    /\ pc[t] = "top"
    /\ IF gc_pending THEN Park(t, "instr") ELSE Goto(t, "instr") /\ UNCHANGED <<task, shake>>
    /\ UNCHANGED <<gc_concurrent_in_progress, locks, heap>>

Execute(t) ==
    /\ pc[t] = "instr"
    /\ \E l \in {"top", "alloc"} \cup (IF t \in Collectors THEN {"gc"} ELSE {}) :
          Goto(t, l) /\ task' = [task EXCEPT ![t] = IF l = "gc" THEN "explicit" ELSE @]
    /\ UNCHANGED <<shake, gc_concurrent_in_progress, locks, heap>>

\* wait_for_gc returns to where it was called from.
WaitForGc(t) ==
    /\ \/ Step(t, "park", "unpark") /\ gc_lock = None /\ gc_lock' = t /\ UNCHANGED shake
       \/ Step(t, "unpark", "parked") /\ Lower(t) /\ UNCHANGED gc_lock
       \/ Step(t, "parked", task[t]) /\ gc_lock' = None /\ UNCHANGED shake
    /\ UNCHANGED <<task, gc_concurrent_in_progress, alloc_lock, heap>>

----------------------------------------------------------------------------
(* ALLOCATE_PROT.                                                          *)

\* The buffer of the thread, without a lock.
AllocTlab(t) ==
    /\ \/ Step(t, "alloc", "top") /\ tlab[t] > 0 /\ tlab' = [tlab EXCEPT ![t] = @ - 1]
       \/ Step(t, "alloc", "try") /\ tlab[t] = 0 /\ UNCHANGED tlab
    /\ UNCHANGED <<task, shake, gc_concurrent_in_progress, locks, room, listed>>

TryAllocLock(t) ==
    /\ \/ Step(t, "try", "slow") /\ LockAlloc(t)
       \/ Step(t, "try", "spin") /\ alloc_lock # None /\ UNCHANGED locks
    /\ UNCHANGED <<task, shake, gc_concurrent_in_progress, heap>>

SpinAllocLock(t) ==
    /\ pc[t] = "spin"
    /\ IF gc_pending THEN Park(t, "try") ELSE Goto(t, "try") /\ UNCHANGED <<task, shake>>
    /\ UNCHANGED <<gc_concurrent_in_progress, locks, heap>>

\* ms_alloc_slow_locked: a free list, a new buffer, the bump pointer, or nothing,
\* and then ms_collect the first time and gc() the second.
AllocSlow(t) ==
    /\ pc[t] \in {"slow", "retry"}
    /\ \/ /\ listed > 0 /\ listed' = listed - 1
          /\ Goto(t, "top") /\ UnlockAlloc /\ UNCHANGED <<task, room, tlab>>
       \/ /\ listed = 0 /\ room > 1
          /\ LET words == IF room > TlabSize THEN TlabSize ELSE 1
             IN  room' = room - words /\ tlab' = [tlab EXCEPT ![t] = words - 1]
          /\ Goto(t, "top") /\ UnlockAlloc /\ UNCHANGED <<task, listed>>
       \/ /\ listed = 0 /\ room < 2
          /\ IF pc[t] = "slow" THEN Goto(t, "ms_collect") /\ UNCHANGED task
                               ELSE Shake(t, "gc", "last")
          /\ UNCHANGED <<locks, heap>>
    /\ UNCHANGED <<shake, gc_concurrent_in_progress>>

----------------------------------------------------------------------------
(* ms_collect, entered with alloc_lock held.                               *)

\* Another thread collects: leave it alloc_lock, and flag this thread as parked ...
LeaveLock(t) ==
    /\ Step(t, "ms_collect", "ms_raise") /\ gc_concurrent_in_progress /\ UnlockAlloc
    /\ UNCHANGED <<task, shake, gc_concurrent_in_progress, heap>>

\* Mutant: the flag is not raised for the wait.
WaitUnready(t) ==
    /\ Step(t, "ms_raise", "ms_wait")
    /\ UNCHANGED <<task, shake, gc_concurrent_in_progress, locks, heap>>

RaiseForWait(t) ==
    /\ Step(t, "ms_raise", "ms_wait") /\ Raise(t)
    /\ UNCHANGED <<task, gc_concurrent_in_progress, locks, heap>>

\* ... until that cycle is over and alloc_lock is free.
MsWaitConcurrentGc(t) ==
    /\ \/ Step(t, "ms_wait", "ms_relock") /\ ~ gc_concurrent_in_progress /\ UNCHANGED <<shake, locks>>
       \/ Step(t, "ms_relock", "ms_lower") /\ LockAlloc(t) /\ UNCHANGED shake
       \/ Step(t, "ms_lower", "retry") /\ Lower(t) /\ UNCHANGED locks
    /\ UNCHANGED <<task, gc_concurrent_in_progress, heap>>

\* This thread coordinates the cycle, and gives up alloc_lock for it.
BeginCycle(t) ==
    /\ \/ /\ Step(t, "ms_collect", "ms_begin") /\ ~ gc_concurrent_in_progress
          /\ gc_concurrent_in_progress' = TRUE /\ UNCHANGED <<task, locks>>
       \/ /\ pc[t] = "ms_begin" /\ Shake(t, "raise", "pause1")
          /\ UnlockAlloc /\ UNCHANGED gc_concurrent_in_progress
    /\ UNCHANGED <<shake, heap>>

\* Tracing touches nothing that is modelled here.
TraceConcurrent(t) ==
    /\ pc[t] = "trace" /\ Shake(t, "raise", "pause2")
    /\ UNCHANGED <<shake, gc_concurrent_in_progress, locks, heap>>

\* Mutant: the copying collector is called with the coordinator's flag still set.
FallBackFlagged(t) ==
    /\ pc[t] = "judge" /\ listed + room < 1 /\ Shake(t, "gc", "fallback")
    /\ UNCHANGED <<shake, gc_concurrent_in_progress, locks, heap>>

\* The mutators run again: the copying collector makes a handshake of its own.
FallBack(t) ==
    /\ pc[t] = "judge" /\ listed + room < 1 /\ Shake(t, "gc", "fallback")
    /\ gc_concurrent_in_progress' = FALSE
    /\ UNCHANGED <<shake, locks, heap>>

\* After the second pause: alloc_lock again, enough memory or the copying
\* collector, and the waiting threads are told.
EndCycle(t) ==
    /\ \/ Step(t, "ms_lock", "judge") /\ LockAlloc(t) /\ UNCHANGED gc_concurrent_in_progress
       \/ Step(t, "judge", "end") /\ listed + room >= 1 /\ UNCHANGED <<gc_concurrent_in_progress, locks>>
       \/ Step(t, "resume", "end") /\ gc_concurrent_in_progress' = TRUE /\ UNCHANGED locks
       \/ Step(t, "end", "retry") /\ gc_concurrent_in_progress' = FALSE /\ UNCHANGED locks
    /\ UNCHANGED <<task, shake, heap>>

----------------------------------------------------------------------------
(* The handshake, the same in stw_request_pause and stw_release as in gc().*)

\* Mutant: gc() always believes so.
EnterGcBlindly(t) ==
    /\ Step(t, "gc", "work")
    /\ UNCHANGED <<task, shake, gc_concurrent_in_progress, locks, heap>>

\* gc() believes that the world is stopped when a cycle is in progress.
EnterGc(t) ==
    /\ Step(t, "gc", IF gc_concurrent_in_progress THEN "work" ELSE "raise")
    /\ UNCHANGED <<task, shake, gc_concurrent_in_progress, locks, heap>>

RequestPause(t) ==
    /\ \/ Step(t, "raise", "lock") /\ Raise(t) /\ UNCHANGED gc_lock
       \/ Step(t, "lock", "flag") /\ gc_lock = None /\ gc_lock' = t /\ UNCHANGED shake
       \/ /\ Step(t, "flag", "scan") /\ gc_pending' = TRUE /\ scan' = 0
          /\ UNCHANGED <<gc_ready, gc_lock>>
    /\ UNCHANGED <<task, gc_concurrent_in_progress, alloc_lock, heap>>

ScanReady(t) ==
    /\ pc[t] = "scan"
    /\ IF scan = ThreadCount THEN Goto(t, "work") /\ UNCHANGED scan
       ELSE scan' = (IF scan \in gc_ready THEN scan + 1 ELSE 0) /\ UNCHANGED pc
    /\ UNCHANGED <<task, gc_ready, gc_pending, gc_concurrent_in_progress, locks, heap>>

Copying(t) == task[t] \in {"fallback", "last", "explicit"}

\* ms_tlab_retire_all, and what ms_reinit does to the buffers.
RetireTlabs == tlab' = [u \in Threads |-> 0]

\* gc() asks again at its end; what it then releases it may not hold.
ReleaseNext(t) == IF Copying(t) /\ gc_concurrent_in_progress THEN "reinit" ELSE "lower"

\* Both pauses retire every buffer; the second also decides what the sweep will
\* find.  The copying collector leaves room for the request in a new space.
Work(t) ==
    /\ Step(t, "work", ReleaseNext(t))
    /\ \/ task[t] = "pause1" /\ RetireTlabs /\ UNCHANGED <<room, listed>>
       \/ task[t] = "pause2" /\ RetireTlabs /\ listed' \in 0 .. HeapWords - room /\ UNCHANGED room
       \/ Copying(t) /\ room' \in 1 .. HeapWords /\ UNCHANGED <<listed, tlab>>
    /\ UNCHANGED <<task, shake, gc_concurrent_in_progress, locks>>

After(t) == CASE task[t] = "pause1" -> "trace" [] task[t] = "pause2" -> "ms_lock"
              [] OTHER -> "reinit"

Release(t) ==
    /\ \/ Step(t, "lower", "clear") /\ Lower(t) /\ UNCHANGED gc_lock
       \/ Step(t, "clear", "unlock") /\ gc_pending' = FALSE /\ UNCHANGED <<gc_ready, scan, gc_lock>>
       \/ Step(t, "unlock", After(t)) /\ gc_lock' = None /\ scan' = 0
          /\ UNCHANGED <<gc_ready, gc_pending>>
    /\ UNCHANGED <<task, gc_concurrent_in_progress, alloc_lock, heap>>

\* ms_reinit, after gc() has returned; the allocator then takes its word.
MsReinit(t) ==
    /\ pc[t] = "reinit" /\ listed' = 0 /\ RetireTlabs
    /\ IF task[t] = "last" THEN Goto(t, "top") /\ room' = room - 1 /\ UnlockAlloc
       ELSE Goto(t, IF task[t] = "fallback" THEN "resume" ELSE "top") /\ UNCHANGED <<room, locks>>
    /\ UNCHANGED <<task, shake, gc_concurrent_in_progress>>

----------------------------------------------------------------------------
ThreadStep(t) ==
    \/ Poll(t) \/ Execute(t) \/ WaitForGc(t)
    \/ AllocTlab(t) \/ TryAllocLock(t) \/ SpinAllocLock(t) \/ AllocSlow(t)
    \/ LeaveLock(t) \/ RaiseForWait(t) \/ MsWaitConcurrentGc(t)
    \/ BeginCycle(t) \/ TraceConcurrent(t) \/ FallBack(t) \/ EndCycle(t)
    \/ EnterGc(t) \/ RequestPause(t) \/ ScanReady(t) \/ Work(t) \/ Release(t) \/ MsReinit(t)

Next == \E t \in Threads : ThreadStep(t)

Spec == Init /\ [][Next]_vars

\* The operating system runs every thread; nothing is assumed of the mutexes.
Fairness == \A t \in Threads : WF_vars(ThreadStep(t))
FairSpec == Spec /\ Fairness

----------------------------------------------------------------------------
\* Where a thread touches no object.
Parked == {"park", "ms_wait", "ms_relock", "ms_lower", "lock"}

InPause(t) == pc[t] = "work" /\ ~ Copying(t)
Moving(t)  == pc[t] = "work" /\ Copying(t)

\* What gc-ms.c says of its pauses: the world is stopped, and no mutator is at work
\* in the allocator or on an object (one at the top of the loop sees gc_pending first).
PausesStopWorld ==
    \A t, u \in Threads : InPause(t) /\ u # t => pc[u] \in Parked \cup {"top"}

\* The copying collector that ms_collect falls back on moves objects alone,
\* although it runs after the mutators have been released, and although threads
\* that wait for the end of the cycle have their flags up.
FallBackMovesAlone ==
    \A t, u \in Threads : Moving(t) /\ task[t] = "fallback" /\ u # t => pc[u] \in Parked

\* Only the thread that holds gc_lock lowers gc_pending and releases gc_lock,
\* although gc() decides at its start and again at its end whether it holds it.
ReleasesOwnLock ==
    \A t \in Threads : pc[t] \in {"scan", "lower", "clear", "unlock"} => gc_lock = t

\* Whichever way it is called, the copying collector moves objects only while no
\* other thread can touch one: with gc_concurrent_in_progress set it takes that for
\* granted and makes no handshake.
WorldStopped ==
    \A t, u \in Threads : Moving(t) /\ u # t => pc[u] \in Parked

\* Every cycle ends: the handshakes of both pauses are answered, by threads in the
\* wait of ms_collect too, and the coordinator gets alloc_lock back, because those
\* that take it before run out of memory and wait for this very cycle.
CycleEnds == gc_concurrent_in_progress ~> ~ gc_concurrent_in_progress
=============================================================================
