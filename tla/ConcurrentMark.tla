--------------------------- MODULE ConcurrentMark ---------------------------
(***************************************************************************)
(* What the mark-sweep collector keeps and what it frees while mutators    *)
(* run beside it: the initial mark, concurrent tracing under the snapshot  *)
(* barrier, the remark, weak pointers, and the sweep that the allocator    *)
(* does a block at a time.                                                 *)
(*                                                                         *)
(* An object is its address; it has one field and fills one unit of the    *)
(* heap, so that free_point counts the objects ever carved from it.  Both  *)
(* pauses are one step each, because module MarkSweepCycle shows who runs  *)
(* in them; between pauses every access of a mutator to the heap is a step *)
(* of its own.                                                             *)
(***************************************************************************)
EXTENDS Integers, FiniteSets

CONSTANTS
    HeapSize,           \* new_space.end, in objects
    Mutators,
    StackDepth,         \* objects that a mutator holds at most
    Shallow,            \* mutators that hold only one
    SweepBlock,         \* SWEEP_BLOCK_SIZE
    WeakLoads           \* the mutators that follow weak pointers

MarkAssumption ==
    /\ HeapSize \in Nat /\ StackDepth \in Nat /\ SweepBlock \in Nat \ {0}
    /\ WeakLoads \subseteq Mutators /\ Shallow \subseteq Mutators

VARIABLES
    field, roots, weak, write,          \* the program's: write is a store in progress
    free_point, free_list,
    phase,                              \* gc_phase, and where ms_collect is
    mark, mark_stack, satb,
    sweep_limit, lazy_sweep_cursor, lazy_sweep_active,
    exposed,    \* ghost: what the snapshot does not speak for
    doomed      \* ghost: what was garbage at the snapshot

program == <<field, roots, weak, write>>
space   == <<free_point, free_list>>
marking == <<phase, mark, mark_stack, satb>>
sweep   == <<sweep_limit, lazy_sweep_cursor, lazy_sweep_active>>
ghosts  == <<exposed, doomed>>
vars    == <<program, space, marking, sweep, ghosts>>

Objects == 1 .. HeapSize
Nil     == 0
NoLimit == -1
NoWrite == <<>>

\* The least set of objects that holds S, and with an object what its field f refers
\* to: all but Nil and what lies behind M, where a trace does not go.
From(f, S, M) ==
    {o \in Objects : \A C \in SUBSET Objects :
        S \ (M \cup {Nil}) \subseteq C /\ (\A c \in C : f[c] \in C \cup M \cup {Nil}) => o \in C}

Reach(S) == From(field, S, {})

Roots == UNION {roots[t] : t \in Mutators}
Live  == Reach(Roots)

Init ==
    /\ field = [o \in Objects |-> Nil] /\ roots = [t \in Mutators |-> {}]
    /\ weak = Nil /\ write = [t \in Mutators |-> NoWrite]
    /\ free_point = 0 /\ free_list = {}
    /\ phase = "idle" /\ mark = {} /\ mark_stack = {} /\ satb = {}
    /\ sweep_limit = NoLimit /\ lazy_sweep_cursor = 0 /\ lazy_sweep_active = FALSE
    /\ exposed = {} /\ doomed = {}

----------------------------------------------------------------------------
(* The mutators.                                                           *)

Hold(t, o) ==
    /\ write[t] = NoWrite /\ o # Nil /\ Cardinality(roots[t] \cup {o}) <= (IF t \in Shallow THEN 1 ELSE StackDepth)
    /\ roots' = [roots EXCEPT ![t] = @ \cup {o}]

Load(t) ==
    /\ \E o \in roots[t] : Hold(t, field[o])
    /\ UNCHANGED <<field, weak, write, space, marking, sweep, ghosts>>

Pop(t) ==
    /\ write[t] = NoWrite
    /\ \E o \in roots[t] : roots' = [roots EXCEPT ![t] = @ \ {o}]
    /\ UNCHANGED <<field, weak, write, space, marking, sweep, ghosts>>

\* Mutant: the barrier is left out.
StoreUnlogged(t) ==
    /\ write[t] = NoWrite
    /\ \E o \in roots[t], v \in roots[t] \cup {Nil} : write' = [write EXCEPT ![t] = <<o, v>>]
    /\ UNCHANGED <<field, roots, weak, space, marking, sweep, ghosts>>

\* A store reads the old value for the log first ...
SatbBarrier(t) ==
    /\ write[t] = NoWrite
    /\ \E o \in roots[t], v \in roots[t] \cup {Nil} :
          /\ write' = [write EXCEPT ![t] = <<o, v>>]
          /\ satb' = IF phase = "mark" THEN satb \cup ({field[o]} \ {Nil}) ELSE satb
    /\ UNCHANGED <<field, roots, weak, space, phase, mark, mark_stack, sweep, ghosts>>

\* ... and overwrites what is there by then.
Store(t) ==
    /\ write[t] # NoWrite
    /\ field' = [field EXCEPT ![write[t][1]] = write[t][2]]
    /\ write' = [write EXCEPT ![t] = NoWrite]
    /\ UNCHANGED <<roots, weak, space, marking, sweep, ghosts>>

MakeWeak(t) ==
    /\ write[t] = NoWrite
    /\ weak = Nil /\ weak' \in roots[t]
    /\ UNCHANGED <<field, roots, write, space, marking, sweep, ghosts>>

\* WP-LOAD has no barrier.
LoadWeak(t) ==
    /\ t \in WeakLoads /\ Hold(t, weak)
    /\ exposed' = IF phase = "mark" THEN exposed \cup (Reach({weak}) \ Live) ELSE exposed
    /\ doomed' = doomed \ Reach({weak})
    /\ UNCHANGED <<field, weak, write, space, marking, sweep>>

Initialise(t, o) ==
    \E v \in roots[t] \cup {Nil} : field' = [field EXCEPT ![o] = v] /\ Hold(t, o)

\* ms_free_list_alloc: born black while marking is on.  What is freed although
\* it is exposed is not followed into its second use.
AllocListed(t) ==
    /\ \E o \in free_list \ exposed :
          /\ Initialise(t, o) /\ free_list' = free_list \ {o} /\ doomed' = doomed \ {o}
          /\ mark' = IF phase = "mark" THEN mark \cup {o} ELSE mark
    /\ UNCHANGED <<weak, write, free_point, phase, mark_stack, satb, sweep, exposed>>

\* A buffer or the bump pointer, never before the sweep has come to its end.
AllocBump(t) ==
    /\ ~ lazy_sweep_active /\ free_point < HeapSize
    /\ free_point' = free_point + 1 /\ Initialise(t, free_point')
    /\ exposed' = IF phase = "mark" THEN exposed \cup {free_point'} ELSE exposed
    /\ UNCHANGED <<weak, write, free_list, marking, sweep, doomed>>

----------------------------------------------------------------------------
(* The sweep.                                                              *)

Limit == IF sweep_limit = NoLimit THEN free_point ELSE sweep_limit

\* Sweeps the objects up to end: marks are cleared, what has none is freed.
SweepTo(end) ==
    LET block == lazy_sweep_cursor + 1 .. end
    IN  free_list' = free_list \cup (block \ mark) /\ mark' = mark \ block

\* Mutant: the first object after a block is taken for swept.
SweepSkips ==
    /\ lazy_sweep_active
    /\ IF lazy_sweep_cursor >= Limit
       THEN lazy_sweep_active' = FALSE /\ UNCHANGED <<lazy_sweep_cursor, free_list, mark>>
       ELSE LET end == lazy_sweep_cursor + SweepBlock
            IN  lazy_sweep_cursor' = end + 1 /\ SweepTo(IF end > Limit THEN Limit ELSE end)
                /\ UNCHANGED lazy_sweep_active
    /\ UNCHANGED <<program, free_point, phase, mark_stack, satb, sweep_limit, ghosts>>

\* The allocator's, and that of the collector at the end of its second pause.
MsLazySweepOne ==
    /\ lazy_sweep_active
    /\ IF lazy_sweep_cursor >= Limit
       THEN lazy_sweep_active' = FALSE /\ UNCHANGED <<lazy_sweep_cursor, free_list, mark>>
       ELSE LET end == lazy_sweep_cursor + SweepBlock
                stop == IF end > Limit THEN Limit ELSE end
            IN  lazy_sweep_cursor' = stop /\ SweepTo(stop) /\ UNCHANGED lazy_sweep_active
    /\ UNCHANGED <<program, free_point, phase, mark_stack, satb, sweep_limit, ghosts>>

----------------------------------------------------------------------------
(* The collector.                                                          *)

\* The rest of the last sweep, then the marks are cleared.
BeginCycle ==
    /\ phase = "idle" /\ phase' = "begun" /\ mark' = {}
    /\ lazy_sweep_active' = FALSE
    /\ free_list' = free_list \cup (IF lazy_sweep_active THEN (lazy_sweep_cursor + 1 .. Limit) \ mark ELSE {})
    /\ UNCHANGED <<program, free_point, mark_stack, satb, sweep_limit, lazy_sweep_cursor, ghosts>>

Stopped == \A t \in Mutators : write[t] = NoWrite

InitialMark ==
    /\ phase = "begun" /\ Stopped /\ phase' = "mark"
    /\ sweep_limit' = free_point
    /\ mark' = Roots /\ mark_stack' = Roots
    /\ exposed' = free_list \cap (Live \cup {weak}) /\ doomed' = (1 .. free_point) \ Live
    /\ UNCHANGED <<program, space, satb, lazy_sweep_cursor, lazy_sweep_active>>

MsTraceConcurrent ==
    /\ phase = "mark"
    /\ \E o \in mark_stack :
          LET found == {field[o]} \ (mark \cup {Nil})
          IN  mark' = mark \cup found /\ mark_stack' = (mark_stack \ {o}) \cup found
    /\ UNCHANGED <<program, space, phase, satb, sweep, ghosts>>

\* What the second pause traces from: the log, the stacks again, and what lies
\* in the objects carved since the first.
Found == satb \cup Roots \cup {field[o] : o \in sweep_limit + 1 .. free_point}

\* Tracing does not go through what is already marked.
Unmarked(S) == From(field, S, mark)

MsPostGcWp == weak' = IF weak \in mark' THEN weak ELSE Nil

Remark ==
    /\ phase = "mark" /\ mark_stack = {} /\ Stopped /\ phase' = "end"
    /\ mark' = mark \cup Unmarked(Found) /\ satb' = {}
    /\ MsPostGcWp
    /\ free_list' = {} /\ lazy_sweep_cursor' = 0 /\ lazy_sweep_active' = TRUE
    /\ UNCHANGED <<field, roots, write, free_point, mark_stack, sweep_limit, ghosts>>

\* After the release.
EndCycle ==
    /\ phase = "end" /\ phase' = "idle" /\ sweep_limit' = NoLimit
    /\ UNCHANGED <<program, space, mark, mark_stack, satb, lazy_sweep_cursor, lazy_sweep_active, ghosts>>

----------------------------------------------------------------------------
Next ==
    \/ \E t \in Mutators : \/ Load(t) \/ Pop(t) \/ SatbBarrier(t) \/ Store(t)
                           \/ MakeWeak(t) \/ LoadWeak(t) \/ AllocListed(t) \/ AllocBump(t)
    \/ MsLazySweepOne \/ BeginCycle \/ InitialMark \/ MsTraceConcurrent \/ Remark \/ EndCycle

Spec == Init /\ [][Next]_vars

----------------------------------------------------------------------------
\* No object that the program can reach is on a free list, unless the snapshot
\* does not speak for it: an object carved while marking was on, or one that was
\* garbage until a weak pointer was followed.
SnapshotKept == Live \cap free_list \subseteq exposed

\* A weak pointer never denotes freed memory, with the same exceptions.
WeakNeverDangles == weak \in free_list => weak \in exposed

\* Both: what the program can still get at is never freed under it, with these exceptions.
LiveIsKept == SnapshotKept /\ WeakNeverDangles

\* Precision: once the sweep of a cycle is over, all that was garbage when it
\* began is free or in use again.
GarbageFreed ==
    phase = "idle" /\ ~ lazy_sweep_active => doomed \subseteq free_list

\* GC.md:553: an object carved from the bump pointer while marking is on lies above
\* sweep_limit and is never swept; so nothing that is reachable is ever free.
NothingLiveIsFree == Live \cap free_list = {}
=============================================================================
