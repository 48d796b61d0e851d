------------------------------- MODULE MCThreads -------------------------------
(***************************************************************************)
(* The two kinds of threads in one run: the native threads of StopTheWorld *)
(* and the green threads of Scheduler, with the programs of MCScheduler.   *)
(* They share no state, so a behaviour belongs to one of the two (part)    *)
(* and the other stays where it starts.  Writing has the native threads of *)
(* a program that also writes heap registers.                              *)
(***************************************************************************)
EXTENDS MCScheduler, TLC

CONSTANTS
  boot, t1, t2,                               \* OS threads
  Nobody, MaxThreads, HeapWords, MaxRequest,  \* as in StopTheWorld
  Dumpers, Loaders,
  Parts                                       \* that the run looks at

JustBoot  == {boot}
NoThreads == {}
EveryPart == {"native", "writing", "green"}
LivingParts == {"native", "green"}

VARIABLES
  part,
  pc, slotOf, newSlot, parent, after, gc_ready, gc_thread_dead, slot_reusable,
  next_index, registers, gc_lock, alloc_lock, dump_lock, gc_pending,
  gc_thread_count, scan, need, free, stale

\* The boot thread runs alone, and creates the others.
Native == INSTANCE StopTheWorld WITH
  Threads <- {boot, t1, t2}, Main <- boot, Running <- JustBoot, Spawners <- JustBoot,
  RegWriters <- NoThreads

\* With two slots, so one other thread at a time, and STORE-REG in the boot thread.
Writing == INSTANCE StopTheWorld WITH
  Threads <- {boot, t1, t2}, Main <- boot, Running <- JustBoot, Spawners <- JustBoot,
  RegWriters <- JustBoot, MaxThreads <- 2

nativeVars == <<pc, slotOf, newSlot, parent, after, gc_ready, gc_thread_dead, slot_reusable,
                next_index, registers, gc_lock, alloc_lock, dump_lock, gc_pending,
                gc_thread_count, scan, need, free, stale>>
allVars == <<part, vars, nativeVars>>

\* The threads that are created are interchangeable.
Others == Permutations({t1, t2})

EitherInit ==
  /\ part \in Parts /\ Init
  /\ IF part = "writing" THEN Writing!Init ELSE Native!Init
  /\ part # "green" => world = CHOOSE w \in Worlds : TRUE

EitherNext ==
  \/ part = "green" /\ Next /\ UNCHANGED <<part, nativeVars>>
  \/ part = "native" /\ Native!Next /\ UNCHANGED <<part, vars>>
  \/ part = "writing" /\ Writing!Next /\ UNCHANGED <<part, vars>>

EitherSpec == EitherInit /\ [][EitherNext]_allVars

\* The fairness of the two modules, each where its part is the one that runs.
Green(action) == part = "green" /\ action
EitherFairSpec ==
  /\ EitherSpec
  /\ \A t \in {boot, t1, t2} :
        WF_allVars(part = "native" /\ Native!ThreadStep(t) /\ UNCHANGED <<part, vars>>)
  /\ \A v \in VMs : WF_vars(Green(Step(v))) /\ WF_vars(Green(Tick(v)))
  /\ \A p \in Procs : SF_vars(Green(\E v \in VMs : Ends(v, p)))

--------------------------------------------------------------------------------
\* The properties of StopTheWorld, which says what each means.

\* Type correctness, with the bound on next_index.
NativeTypeOK ==
  /\ part = "native" => Native!TypeOK
  /\ part = "writing" => Writing!TypeOK

\* A slot belongs to one thread, to one create_thread, or is for reuse.
SlotsExclusive ==
  /\ part = "native" => Native!SlotsExclusive
  /\ part = "writing" => Writing!SlotsExclusive

\* The words an allocation found are there when it takes them.
RequestFits ==
  /\ part = "native" => Native!RequestFits
  /\ part = "writing" => Writing!RequestFits

\* Every handshake gets its answer and ends.
HandshakeCompletes == Native!HandshakeCompletes
================================================================================
