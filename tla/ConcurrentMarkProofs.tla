------------------------ MODULE ConcurrentMarkProofs ------------------------
(***************************************************************************)
(* Proofs about module ConcurrentMark: for every heap and every number of  *)
(* mutators, what the program can reach is not freed (but for the objects  *)
(* that the snapshot does not speak for), and what was garbage when a      *)
(* cycle began is free when its sweep is over.                             *)
(*                                                                         *)
(* A state while marking is on does not contain the snapshot it was taken  *)
(* of; the invariant says that there is one (Taken), and the remark     *)
(* uses that the snapshot is the least set that is closed.                 *)
(***************************************************************************)
EXTENDS ConcurrentMark, TLAPS

Carved == 1 .. free_point

\* What can be reached, by the program or through the weak pointer.
Usable == Reach(Roots \cup {weak})

\* The part of the heap that a lazy sweep has still to come to, unless it ends
\* before (at sweep_limit).
Unswept == lazy_sweep_cursor + 1 .. free_point

Closed(f, C) == \A c \in C : f[c] \in C \cup {Nil}

----------------------------------------------------------------------------
(* The inductive invariant.                                                *)

ProgramTypes ==
    /\ free_point \in 0 .. HeapSize
    /\ field \in [Objects -> 0 .. free_point]
    /\ roots \in [Mutators -> SUBSET Carved]
    /\ weak \in 0 .. free_point
    /\ write \in [Mutators -> {NoWrite} \cup (Carved \X (0 .. free_point))]

SetTypes ==
    /\ free_list \subseteq Carved /\ mark \subseteq Carved /\ satb \subseteq Carved
    /\ mark_stack \subseteq mark
    /\ exposed \subseteq Objects /\ doomed \subseteq Carved

PhaseTypes ==
    /\ phase \in {"idle", "begun", "mark", "end"}
    /\ sweep_limit \in 0 .. free_point \cup {NoLimit}
    /\ lazy_sweep_cursor \in 0 .. free_point
    /\ lazy_sweep_active \in BOOLEAN

Types == ProgramTypes /\ SetTypes /\ PhaseTypes

\* What belongs to which phase.
Phases ==
    /\ phase # "mark" => satb = {} /\ mark_stack = {}
    /\ sweep_limit = NoLimit <=> phase \in {"idle", "begun"}
    /\ lazy_sweep_active => phase \in {"idle", "end"}

\* A mutator holds both objects of a store that it has begun.
Stores ==
    \A t \in Mutators : write[t] # NoWrite =>
        write[t][1] \in roots[t] /\ write[t][2] \in roots[t] \cup {Nil}

\* While marking is off, nothing usable is free, nor will be when it is swept.
Outside ==
    phase # "mark" =>
        /\ Usable \cap free_list \subseteq exposed
        /\ lazy_sweep_active =>
              /\ free_list \cap Unswept = {}
              /\ Usable \cap Unswept \subseteq mark \cup exposed

\* S is what was reachable at the first pause, by fields f from the objects that were
\* marked there (first), and the least such set.
Taken(S, f, first) ==
    /\ S \subseteq 1 .. sweep_limit /\ S \cap free_list \subseteq exposed
    /\ first \subseteq mark /\ first \subseteq S
    /\ Closed(f, S) /\ \A C \in SUBSET S : first \subseteq C /\ Closed(f, C) => C = S

\* What the program can reach was reachable then, or is marked, or is in later: what it
\* got at since without a mark.
Known(S, later) ==
    /\ later \subseteq exposed
    /\ Roots \subseteq S \cup mark \cup later /\ Closed(field, S \cup mark \cup later)

\* What a field of S referred to and no longer does is in the log, before the store; and
\* what it referred to is marked or in the log once the field has been traced.
Logged(S, f) ==
    /\ \A o \in S : field[o] = f[o] \/ f[o] \in satb \cup {Nil}
    /\ \A t \in Mutators : write[t] # NoWrite /\ write[t][1] \in S => f[write[t][1]] \in satb \cup {Nil}
    /\ \A o \in (mark \ mark_stack) \cap S : f[o] \in mark \cup satb \cup {Nil}

Inside ==
    phase = "mark" =>
        /\ Live \cap free_list \subseteq exposed
        /\ weak \in free_list => weak \in exposed
        /\ \E S \in SUBSET Objects, f \in [Objects -> 0 .. HeapSize],
              first \in SUBSET Objects, later \in SUBSET Objects : Taken(S, f, first) /\ Known(S, later) /\ Logged(S, f)

\* What was garbage stays out of the reach of the program, the log and the marks.
Garbage ==
    /\ phase = "mark" =>
          /\ doomed \subseteq 1 .. sweep_limit
          /\ Roots \cup mark \cup satb \subseteq Carved \ doomed
          /\ Closed(field, Carved \ doomed)
    /\ lazy_sweep_active =>
          doomed \cap mark = {} /\ doomed \subseteq free_list \cup (lazy_sweep_cursor + 1 .. Limit)
    /\ phase # "mark" /\ ~ lazy_sweep_active => doomed \subseteq free_list

IInv == Types /\ Phases /\ Stores /\ Outside /\ Inside /\ Garbage

----------------------------------------------------------------------------
(* Reachability.                                                           *)

\* An interval that is cut in two.
LEMMA Intervals ==
    ASSUME NEW a \in Int, NEW b \in Int, NEW c \in Int
    PROVE  /\ a + 1 .. c \subseteq (a + 1 .. b) \cup (b + 1 .. c)
           /\ (a + 1 .. b) \cap (b + 1 .. c) = {}
           /\ a <= b /\ b <= c => a + 1 .. c = (a + 1 .. b) \cup (b + 1 .. c)
OBVIOUS

\* Addresses and Nil.
LEMMA Addresses ==
    ASSUME HeapSize \in Nat, Types
    PROVE  /\ Carved \subseteq Objects /\ Nil \notin Carved /\ Nil \in 0 .. free_point
           /\ Carved \cup {Nil} = 0 .. free_point
           /\ 0 .. free_point \subseteq 0 .. HeapSize
           /\ \A o \in Objects : field[o] \in Carved \cup {Nil}
           /\ weak \in Carved \cup {Nil}
           /\ Roots \subseteq Carved /\ \A t \in Mutators : roots[t] \subseteq Roots
<1>1. /\ Carved \subseteq Objects /\ Nil \notin Carved /\ Nil \in 0 .. free_point
      /\ Carved \cup {Nil} = 0 .. free_point
      /\ 0 .. free_point \subseteq 0 .. HeapSize
  BY DEF Types, ProgramTypes, Carved, Objects, Nil
<1>2. \A o \in Objects : field[o] \in Carved \cup {Nil}
  BY <1>1 DEF Types, ProgramTypes
<1>3. weak \in Carved \cup {Nil}
  BY <1>1 DEF Types, ProgramTypes
<1>4. Roots \subseteq Carved /\ \A t \in Mutators : roots[t] \subseteq Roots
  BY DEF Types, ProgramTypes, Roots
<1> QED BY <1>1, <1>2, <1>3, <1>4

\* What is reached from S contains S, is closed, and is the least such set.
LEMMA FromIsLeast ==
    ASSUME HeapSize \in Nat, NEW f \in [Objects -> 0 .. HeapSize], NEW S \in SUBSET (0 .. HeapSize), NEW M
    PROVE  /\ From(f, S, M) \subseteq Objects
           /\ S \subseteq From(f, S, M) \cup M \cup {Nil}
           /\ \A c \in From(f, S, M) : f[c] \in From(f, S, M) \cup M \cup {Nil}
           /\ \A C \in SUBSET Objects :
                 S \subseteq C \cup M \cup {Nil} /\ (\A c \in C : f[c] \in C \cup M \cup {Nil}) => From(f, S, M) \subseteq C
<1>1. From(f, S, M) \subseteq Objects
  BY DEF From
<1>2. ASSUME NEW s \in S, s \notin M \cup {Nil}
      PROVE  s \in From(f, S, M)
  <2>1. s \in Objects
    BY <1>2 DEF Objects, Nil
  <2> QED BY <2>1, <1>2 DEF From
<1>3. ASSUME NEW c \in From(f, S, M), f[c] \notin M \cup {Nil}
      PROVE  f[c] \in From(f, S, M)
  <2>1. c \in Objects /\ f[c] \in Objects
    BY <1>1, <1>3 DEF Objects, Nil
  <2>2. ASSUME NEW C \in SUBSET Objects, S \ (M \cup {Nil}) \subseteq C, \A d \in C : f[d] \in C \cup M \cup {Nil}
        PROVE  f[c] \in C
    <3>1. c \in C
      BY <2>2 DEF From
    <3> QED BY <3>1, <2>2, <1>3
  <2> QED BY <2>1, <2>2 DEF From
<1>4. ASSUME NEW C \in SUBSET Objects, S \subseteq C \cup M \cup {Nil}, \A c \in C : f[c] \in C \cup M \cup {Nil}
      PROVE  From(f, S, M) \subseteq C
  BY <1>4 DEF From
<1> QED BY <1>1, <1>2, <1>3, <1>4

\* The same for what is reached in a state.
LEMMA ReachIsLeast ==
    ASSUME HeapSize \in Nat, Types, NEW S \in SUBSET (0 .. free_point)
    PROVE  /\ Reach(S) \subseteq Carved
           /\ S \subseteq Reach(S) \cup {Nil}
           /\ Closed(field, Reach(S))
           /\ \A C \in SUBSET Objects : S \subseteq C \cup {Nil} /\ Closed(field, C) => Reach(S) \subseteq C
<1>1. field \in [Objects -> 0 .. HeapSize] /\ S \in SUBSET (0 .. HeapSize)
  BY DEF Types, ProgramTypes
<1>2. /\ S \subseteq Reach(S) \cup {Nil}
      /\ Closed(field, Reach(S))
      /\ \A C \in SUBSET Objects : S \subseteq C \cup {Nil} /\ Closed(field, C) => Reach(S) \subseteq C
  BY <1>1, FromIsLeast DEF Reach, Closed
<1>3. Carved \in SUBSET Objects /\ S \subseteq Carved \cup {Nil} /\ Closed(field, Carved)
  BY Addresses DEF Closed
<1> QED BY <1>2, <1>3

\* What the roots and the weak pointer reach.
LEMMA LiveIsLeast ==
    ASSUME HeapSize \in Nat, Types
    PROVE  /\ Live \subseteq Carved /\ Roots \subseteq Live /\ Closed(field, Live)
           /\ \A C \in SUBSET Objects : Roots \subseteq C /\ Closed(field, C) => Live \subseteq C
<1>1. Roots \in SUBSET (0 .. free_point) /\ Nil \notin Roots
  BY Addresses
<1> QED BY <1>1, ReachIsLeast DEF Live

\* The same with the weak pointer.
LEMMA UsableIsLeast ==
    ASSUME HeapSize \in Nat, Types
    PROVE  /\ Usable \subseteq Carved /\ Roots \subseteq Usable /\ weak \in Usable \cup {Nil} /\ Closed(field, Usable)
           /\ \A C \in SUBSET Objects :
                 Roots \cup {weak} \subseteq C \cup {Nil} /\ Closed(field, C) => Usable \subseteq C
           /\ Live \subseteq Usable
<1>1. Roots \cup {weak} \in SUBSET (0 .. free_point) /\ Nil \notin Roots
  BY Addresses
<1>2. /\ Usable \subseteq Carved /\ Roots \cup {weak} \subseteq Usable \cup {Nil} /\ Closed(field, Usable)
      /\ \A C \in SUBSET Objects : Roots \cup {weak} \subseteq C \cup {Nil} /\ Closed(field, C) => Usable \subseteq C
  BY <1>1, ReachIsLeast DEF Usable
<1>3. Live \subseteq Usable
  BY <1>1, <1>2, LiveIsLeast, Addresses
<1> QED BY <1>1, <1>2, <1>3

\* What the second pause marks besides what is marked.
LEMMA UnmarkedIsLeast ==
    ASSUME HeapSize \in Nat, Types, Phases, phase = "mark"
    PROVE  /\ Unmarked(Found) \subseteq Carved
           /\ satb \cup Roots \subseteq Unmarked(Found) \cup mark
           /\ \A c \in Unmarked(Found) : field[c] \in Unmarked(Found) \cup mark \cup {Nil}
           /\ \A C \in SUBSET Objects :
                 Found \subseteq C \cup mark \cup {Nil} /\ (\A c \in C : field[c] \in C \cup mark \cup {Nil})
                    => Unmarked(Found) \subseteq C
<1>1. field \in [Objects -> 0 .. HeapSize]
  BY DEF Types, ProgramTypes
<1>2. satb \cup Roots \subseteq Carved /\ Nil \notin Carved
  BY Addresses DEF Types, SetTypes
<1>3. sweep_limit + 1 .. free_point \subseteq Objects
  BY DEF Types, ProgramTypes, PhaseTypes, Phases, NoLimit, Objects
<1>4. satb \cup Roots \subseteq Found /\ Found \subseteq Carved \cup {Nil}
  BY <1>2, <1>3, Addresses DEF Found
<1>5. Found \in SUBSET (0 .. HeapSize)
  BY <1>4, Addresses
<1>6. /\ Found \subseteq Unmarked(Found) \cup mark \cup {Nil}
      /\ \A c \in Unmarked(Found) : field[c] \in Unmarked(Found) \cup mark \cup {Nil}
      /\ \A C \in SUBSET Objects :
            Found \subseteq C \cup mark \cup {Nil} /\ (\A c \in C : field[c] \in C \cup mark \cup {Nil})
               => Unmarked(Found) \subseteq C
  BY <1>1, <1>5, FromIsLeast DEF Unmarked
<1>7. Carved \in SUBSET Objects /\ \A c \in Carved : field[c] \in Carved \cup {Nil}
  BY Addresses
<1>8. Unmarked(Found) \subseteq Carved
  BY <1>4, <1>6, <1>7
<1> QED BY <1>2, <1>4, <1>6, <1>8

----------------------------------------------------------------------------
(* Types, phases and stores.                                               *)

\* The steps of the mutators, and those of the sweep and the collector.
Mutate(t) ==
    \/ Load(t) \/ Pop(t) \/ SatbBarrier(t) \/ Store(t) \/ MakeWeak(t) \/ LoadWeak(t) \/ AllocListed(t) \/ AllocBump(t)

Collect ==
    MsLazySweepOne \/ BeginCycle \/ InitialMark \/ MsTraceConcurrent \/ Remark \/ EndCycle

\* Everything is empty at first.
LEMMA InitTypes ==
    ASSUME MarkAssumption, Init
    PROVE  Types /\ Phases /\ Stores
<1> USE DEF MarkAssumption, Init
<1>1. ProgramTypes
  BY DEF ProgramTypes, Objects, Carved, Nil
<1>2. SetTypes
  BY DEF SetTypes
<1>4. PhaseTypes
  <2>1. phase = "idle" /\ sweep_limit = NoLimit
    OBVIOUS
  <2>2. lazy_sweep_cursor \in 0 .. free_point
    BY lazy_sweep_cursor = 0, free_point = 0
  <2>3. lazy_sweep_active \in BOOLEAN
    BY lazy_sweep_active = FALSE
  <2> QED BY <2>1, <2>2, <2>3 DEF PhaseTypes
<1>3. Phases /\ Stores
  BY DEF Phases, Stores
<1> QED BY <1>1, <1>2, <1>3, <1>4 DEF Types

\* A mutator's step.
LEMMA MutatorTypes ==
    ASSUME MarkAssumption, Types, Phases, Stores, NEW t \in Mutators,
           Mutate(t)
    PROVE  Types' /\ Phases' /\ Stores'
<1> USE DEF MarkAssumption
<1>1. CASE Load(t)
  <2>1. PICK o \in roots[t] : roots' = [roots EXCEPT ![t] = @ \cup {field[o]}] /\ field[o] # Nil /\ write[t] = NoWrite
    BY <1>1 DEF Load, Hold
  <2>2. field[o] \in Carved
    BY <2>1, Addresses
  <2>3. ProgramTypes'
    BY <1>1, <2>1, <2>2 DEF Load, Types, ProgramTypes, Carved, Objects, space
  <2>4. SetTypes' /\ PhaseTypes' /\ Phases'
    BY <1>1 DEF Load, Types, SetTypes, PhaseTypes, Phases, Carved, space, marking, sweep, ghosts
  <2>5. Stores'
    BY <1>1, <2>1 DEF Load, Stores, Types, ProgramTypes
  <2> QED BY <2>3, <2>4, <2>5 DEF Types
<1>2. CASE Pop(t)
  <2>1. PICK o \in roots[t] : roots' = [roots EXCEPT ![t] = @ \ {o}] /\ write[t] = NoWrite
    BY <1>2 DEF Pop
  <2>2. ProgramTypes'
    BY <1>2, <2>1 DEF Pop, Types, ProgramTypes, Carved, Objects, space
  <2>3. SetTypes' /\ PhaseTypes' /\ Phases'
    BY <1>2 DEF Pop, Types, SetTypes, PhaseTypes, Phases, Carved, space, marking, sweep, ghosts
  <2>4. Stores'
    BY <1>2, <2>1 DEF Pop, Stores, Types, ProgramTypes
  <2> QED BY <2>2, <2>3, <2>4 DEF Types
<1>3. CASE SatbBarrier(t)
  <2>1. PICK o \in roots[t], v \in roots[t] \cup {Nil} :
            /\ write' = [write EXCEPT ![t] = <<o, v>>]
            /\ satb' = IF phase = "mark" THEN satb \cup ({field[o]} \ {Nil}) ELSE satb
    BY <1>3 DEF SatbBarrier
  <2>2. o \in Carved /\ v \in 0 .. free_point /\ field[o] \in Carved \cup {Nil}
    BY Addresses
  <2>3. ProgramTypes'
    BY <1>3, <2>1, <2>2 DEF SatbBarrier, Types, ProgramTypes, Carved, Objects, space
  <2>4. satb' \subseteq Carved
    BY <2>1, <2>2 DEF Types, SetTypes
  <2>5. SetTypes' /\ PhaseTypes'
    BY <1>3, <2>4 DEF SatbBarrier, Types, SetTypes, PhaseTypes, Carved, space, sweep, ghosts
  <2>6. Phases'
    BY <1>3, <2>1 DEF SatbBarrier, Phases, sweep
  <2>7. Stores'
    BY <1>3, <2>1 DEF SatbBarrier, Stores, Types, ProgramTypes
  <2> QED BY <2>3, <2>5, <2>6, <2>7 DEF Types
<1>4. CASE Store(t)
  <2>1. /\ field' = [field EXCEPT ![write[t][1]] = write[t][2]]
        /\ write' = [write EXCEPT ![t] = NoWrite] /\ write[t] # NoWrite
    BY <1>4 DEF Store
  <2>2. write[t][1] \in Carved /\ write[t][2] \in 0 .. free_point
    BY <2>1 DEF Types, ProgramTypes
  <2>3. ProgramTypes'
    BY <1>4, <2>1, <2>2 DEF Store, Types, ProgramTypes, Carved, Objects, space
  <2>4. SetTypes' /\ PhaseTypes' /\ Phases'
    BY <1>4 DEF Store, Types, SetTypes, PhaseTypes, Phases, Carved, space, marking, sweep, ghosts
  <2>5. Stores'
    BY <1>4, <2>1 DEF Store, Stores, Types, ProgramTypes
  <2> QED BY <2>3, <2>4, <2>5 DEF Types
<1>5. CASE MakeWeak(t)
  <2>1. weak' \in 0 .. free_point
    BY <1>5, Addresses DEF MakeWeak
  <2>2. ProgramTypes'
    BY <1>5, <2>1 DEF MakeWeak, Types, ProgramTypes, Carved, Objects, space
  <2>3. SetTypes' /\ PhaseTypes' /\ Phases' /\ Stores'
    BY <1>5 DEF MakeWeak, Types, SetTypes, PhaseTypes, Phases, Stores, Carved, space, marking, sweep, ghosts
  <2> QED BY <2>2, <2>3 DEF Types
<1>6. CASE LoadWeak(t)
  <2>1. roots' = [roots EXCEPT ![t] = @ \cup {weak}] /\ weak # Nil /\ write[t] = NoWrite
    BY <1>6 DEF LoadWeak, Hold
  <2>2. weak \in Carved /\ {weak} \in SUBSET (0 .. free_point)
    BY <2>1, Addresses
  <2>3. Reach({weak}) \subseteq Objects
    BY <2>2, ReachIsLeast, Addresses
  <2>4. ProgramTypes'
    BY <1>6, <2>1, <2>2 DEF LoadWeak, Types, ProgramTypes, Carved, Objects, space
  <2>5. exposed' \subseteq Objects /\ doomed' \subseteq Carved
    BY <1>6, <2>3 DEF LoadWeak, Types, SetTypes
  <2>6. SetTypes' /\ PhaseTypes' /\ Phases'
    BY <1>6, <2>5 DEF LoadWeak, Types, SetTypes, PhaseTypes, Phases, Carved, Objects, space, marking, sweep
  <2>7. Stores'
    BY <1>6, <2>1 DEF LoadWeak, Stores, Types, ProgramTypes
  <2> QED BY <2>4, <2>6, <2>7 DEF Types
<1>7. CASE AllocListed(t)
  <2>1. PICK o \in free_list \ exposed, v \in roots[t] \cup {Nil} :
            /\ field' = [field EXCEPT ![o] = v] /\ roots' = [roots EXCEPT ![t] = @ \cup {o}] /\ write[t] = NoWrite
            /\ free_list' = free_list \ {o} /\ doomed' = doomed \ {o}
            /\ mark' = IF phase = "mark" THEN mark \cup {o} ELSE mark
    BY <1>7 DEF AllocListed, Initialise, Hold
  <2>2. o \in Carved /\ v \in 0 .. free_point
    BY <2>1, Addresses DEF Types, SetTypes
  <2>3. ProgramTypes'
    BY <1>7, <2>1, <2>2 DEF AllocListed, Types, ProgramTypes, Carved, Objects
  <2>4. /\ mark' \subseteq Carved /\ mark \subseteq mark'
        /\ free_list' \subseteq Carved /\ doomed' \subseteq Carved
    BY <2>1, <2>2 DEF Types, SetTypes
  <2>5. SetTypes' /\ PhaseTypes' /\ Phases'
    BY <1>7, <2>4 DEF AllocListed, Types, SetTypes, PhaseTypes, Phases, Carved, Objects, sweep
  <2>6. Stores'
    BY <1>7, <2>1 DEF AllocListed, Stores, Types, ProgramTypes
  <2> QED BY <2>3, <2>5, <2>6 DEF Types
<1>8. CASE AllocBump(t)
  <2>1. PICK v \in roots[t] \cup {Nil} :
            /\ field' = [field EXCEPT ![free_point'] = v] /\ write[t] = NoWrite
            /\ roots' = [roots EXCEPT ![t] = @ \cup {free_point'}]
            /\ free_point' = free_point + 1 /\ free_point < HeapSize
    BY <1>8 DEF AllocBump, Initialise, Hold
  <2>2. /\ Carved \subseteq Carved' /\ free_point' \in Carved' /\ free_point' \in 0 .. HeapSize
        /\ 0 .. free_point \subseteq 0 .. free_point' /\ free_point' \in Objects
    BY <2>1 DEF Types, ProgramTypes, Carved, Objects
  <2>3. v \in 0 .. free_point'
    BY <2>2, Addresses
  <2>4. field' \in [Objects -> 0 .. free_point'] /\ weak' \in 0 .. free_point'
    BY <1>8, <2>1, <2>2, <2>3 DEF AllocBump, Types, ProgramTypes
  <2>5. roots' \in [Mutators -> SUBSET Carved']
    BY <2>1, <2>2 DEF Types, ProgramTypes
  <2>6. write' \in [Mutators -> {NoWrite} \cup (Carved' \X (0 .. free_point'))]
    BY <1>8, <2>2 DEF Types, ProgramTypes, AllocBump
  <2>7. ProgramTypes'
    BY <2>2, <2>4, <2>5, <2>6 DEF ProgramTypes, Objects
  <2>8. SetTypes'
    BY <1>8, <2>2 DEF AllocBump, Types, SetTypes, Objects, marking, sweep
  <2>9. PhaseTypes' /\ Phases'
    BY <1>8, <2>2 DEF AllocBump, Types, PhaseTypes, Phases, marking, sweep
  <2>10. Stores'
    BY <1>8, <2>1 DEF AllocBump, Stores, Types, ProgramTypes
  <2> QED BY <2>7, <2>8, <2>9, <2>10 DEF Types
<1> QED BY <1>1, <1>2, <1>3, <1>4, <1>5, <1>6, <1>7, <1>8 DEF Mutate

\* The sweep goes on by a block, which is not empty, up to its limit.
LEMMA SweepBlockStep ==
    ASSUME MarkAssumption, Types, MsLazySweepOne
    PROVE  /\ Limit \in 0 .. free_point
           /\ lazy_sweep_cursor \in 0 .. free_point /\ lazy_sweep_cursor' \in 0 .. free_point
           /\ lazy_sweep_cursor <= lazy_sweep_cursor'
           /\ lazy_sweep_active' => lazy_sweep_cursor' <= Limit
           /\ ~ lazy_sweep_active' => lazy_sweep_cursor >= Limit
           /\ free_list' = free_list \cup ((lazy_sweep_cursor + 1 .. lazy_sweep_cursor') \ mark)
           /\ mark' = mark \ (lazy_sweep_cursor + 1 .. lazy_sweep_cursor')
           /\ free_list' \subseteq Carved /\ mark' \subseteq mark
<1> USE DEF MarkAssumption
<1>1. Limit \in 0 .. free_point /\ lazy_sweep_cursor \in 0 .. free_point /\ free_point \in Nat
  BY DEF Limit, Types, ProgramTypes, PhaseTypes
<1>2. free_list \subseteq Carved
  BY DEF Types, SetTypes
<1>3. CASE lazy_sweep_cursor >= Limit
  <2>1. /\ lazy_sweep_active' = FALSE /\ lazy_sweep_cursor' = lazy_sweep_cursor
        /\ free_list' = free_list /\ mark' = mark
    BY <1>3 DEF MsLazySweepOne
  <2>2. lazy_sweep_cursor + 1 .. lazy_sweep_cursor = {}
    BY <1>1
  <2> QED BY <1>1, <1>2, <1>3, <2>1, <2>2
<1>4. CASE ~ (lazy_sweep_cursor >= Limit)
  <2> DEFINE end  == lazy_sweep_cursor + SweepBlock
             stop == IF end > Limit THEN Limit ELSE end
  <2>1. /\ lazy_sweep_active /\ lazy_sweep_cursor' = stop /\ SweepTo(stop)
        /\ lazy_sweep_active' = lazy_sweep_active
    BY <1>4 DEF MsLazySweepOne
  <2>2. stop \in 0 .. free_point /\ lazy_sweep_cursor <= stop /\ stop <= Limit
    BY <1>1, <1>4
  <2>3. lazy_sweep_cursor + 1 .. stop \subseteq Carved
    BY <1>1, <2>2 DEF Carved
  <2>4. /\ free_list' = free_list \cup ((lazy_sweep_cursor + 1 .. stop) \ mark)
        /\ mark' = mark \ (lazy_sweep_cursor + 1 .. stop)
    BY <2>1 DEF SweepTo
  <2> HIDE DEF stop
  <2> QED BY <1>1, <1>2, <2>1, <2>2, <2>3, <2>4
<1> QED BY <1>3, <1>4

\* A step of the sweep or of the collector.
LEMMA CollectorTypes ==
    ASSUME MarkAssumption, Types, Phases, Stores,
           Collect
    PROVE  Types' /\ Phases' /\ Stores'
<1> USE DEF MarkAssumption
<1>1. CASE MsLazySweepOne
  <2>1. ProgramTypes' /\ Stores'
    BY <1>1 DEF MsLazySweepOne, Types, ProgramTypes, Stores, Carved, Objects, program
  <2>2. free_list' \subseteq Carved /\ mark' \subseteq mark /\ lazy_sweep_cursor' \in 0 .. free_point
    BY <1>1, SweepBlockStep DEF Types, SetTypes
  <2>3. lazy_sweep_active /\ mark_stack = {} /\ mark_stack' = {} /\ lazy_sweep_active' \in BOOLEAN
    BY <1>1 DEF MsLazySweepOne, Phases, Types, PhaseTypes
  <2>4. SetTypes'
    BY <1>1, <2>2, <2>3 DEF MsLazySweepOne, Types, SetTypes, Carved, Objects, ghosts
  <2>5. PhaseTypes' /\ Phases'
    BY <1>1, <2>2, <2>3 DEF MsLazySweepOne, Types, PhaseTypes, Phases
  <2> QED BY <2>1, <2>4, <2>5 DEF Types
<1>2. CASE BeginCycle
  <2>1. ProgramTypes' /\ Stores'
    BY <1>2 DEF BeginCycle, Types, ProgramTypes, Stores, Carved, Objects, program
  <2>2. lazy_sweep_cursor + 1 .. Limit \subseteq Carved
    BY DEF Limit, Types, ProgramTypes, PhaseTypes, Carved
  <2>3. free_list' \subseteq Carved
    BY <1>2, <2>2 DEF BeginCycle, Types, SetTypes
  <2>4. SetTypes'
    BY <1>2, <2>3 DEF BeginCycle, Types, SetTypes, Phases, Carved, Objects, ghosts
  <2>5. PhaseTypes' /\ Phases'
    BY <1>2 DEF BeginCycle, Types, PhaseTypes, Phases
  <2> QED BY <2>1, <2>4, <2>5 DEF Types
<1>3. CASE InitialMark
  <2>1. ProgramTypes' /\ Stores'
    BY <1>3 DEF InitialMark, Types, ProgramTypes, Stores, Carved, Objects, program, space
  <2>2. SetTypes'
    BY <1>3, Addresses DEF InitialMark, Types, SetTypes, Carved, Objects, space
  <2>3. PhaseTypes' /\ Phases'
    BY <1>3 DEF InitialMark, Types, ProgramTypes, PhaseTypes, Phases, NoLimit, space
  <2> QED BY <2>1, <2>2, <2>3 DEF Types
<1>4. CASE MsTraceConcurrent
  <2>1. ProgramTypes' /\ Stores'
    BY <1>4 DEF MsTraceConcurrent, Types, ProgramTypes, Stores, Carved, Objects, program, space
  <2>2. PICK o \in mark_stack :
            /\ mark' = mark \cup ({field[o]} \ (mark \cup {Nil}))
            /\ mark_stack' = (mark_stack \ {o}) \cup ({field[o]} \ (mark \cup {Nil}))
    BY <1>4 DEF MsTraceConcurrent
  <2>3. field[o] \in Carved \cup {Nil}
    BY Addresses DEF Types, SetTypes
  <2>4. SetTypes'
    BY <1>4, <2>2, <2>3 DEF MsTraceConcurrent, Types, SetTypes, Carved, Objects, space, ghosts
  <2>5. PhaseTypes' /\ Phases'
    BY <1>4 DEF MsTraceConcurrent, Types, PhaseTypes, Phases, space, sweep
  <2> QED BY <2>1, <2>4, <2>5 DEF Types
<1>5. CASE Remark
  <2>1. weak' \in 0 .. free_point
    BY <1>5 DEF Remark, MsPostGcWp, Nil, Types, ProgramTypes
  <2>2. ProgramTypes' /\ Stores'
    BY <1>5, <2>1 DEF Remark, Types, ProgramTypes, Stores, Carved, Objects
  <2>3. Unmarked(Found) \subseteq Carved /\ phase = "mark" /\ mark_stack = {}
    BY <1>5, UnmarkedIsLeast DEF Remark
  <2>4. SetTypes'
    BY <1>5, <2>3 DEF Remark, Types, SetTypes, Carved, Objects, ghosts
  <2>5. PhaseTypes' /\ Phases'
    BY <1>5 DEF Remark, Types, ProgramTypes, PhaseTypes, Phases, NoLimit
  <2> QED BY <2>2, <2>4, <2>5 DEF Types
<1>6. CASE EndCycle
  <2>1. ProgramTypes' /\ Stores' /\ SetTypes'
    BY <1>6 DEF EndCycle, Types, ProgramTypes, SetTypes, Stores, Carved, Objects, program, space, ghosts
  <2>2. PhaseTypes' /\ Phases'
    BY <1>6 DEF EndCycle, Types, PhaseTypes, Phases, space
  <2> QED BY <2>1, <2>2 DEF Types
<1> QED BY <1>1, <1>2, <1>3, <1>4, <1>5, <1>6 DEF Collect

----------------------------------------------------------------------------
(* What a mutator's step adds to what is reachable.                        *)

\* What the roots of the next state reach is in every closed set that holds them.
LEMMA LeastNext ==
    ASSUME MarkAssumption, Types', NEW C \in SUBSET Objects, Closed(field', C)
    PROVE  /\ Roots' \subseteq C => Live' \subseteq C
           /\ Roots' \cup {weak'} \subseteq C \cup {Nil} => Usable' \subseteq C
<1>1. field' \in [Objects -> 0 .. HeapSize]
  BY DEF MarkAssumption, Types, ProgramTypes
<1>2. Roots' \subseteq 0 .. HeapSize /\ weak' \in 0 .. HeapSize
  BY DEF MarkAssumption, Types, ProgramTypes, Roots, Carved
<1>3. ASSUME NEW S \in SUBSET (0 .. HeapSize), S \subseteq C \cup {Nil}
      PROVE  From(field', S, {}) \subseteq C
  BY <1>1, <1>3, FromIsLeast DEF MarkAssumption, Closed
<1>4. Roots' \subseteq C => Live' \subseteq C
  BY <1>2, <1>3 DEF Live, Reach
<1>5. Roots' \cup {weak'} \subseteq C \cup {Nil} => Usable' \subseteq C
  <2>1. Roots' \cup {weak'} \in SUBSET (0 .. HeapSize)
    BY <1>2
  <2> QED BY <2>1, <1>3 DEF Usable, Reach
<1> QED BY <1>4, <1>5

\* Taking up objects X into the roots.
LEMMA RootsGrow ==
    ASSUME Types, NEW t \in Mutators, NEW X, roots' = [roots EXCEPT ![t] = @ \cup X]
    PROVE  Roots' = Roots \cup X
BY DEF Types, ProgramTypes, Roots

\* What a mutator leaves as it is.
LEMMA MutatorFrame ==
    ASSUME MarkAssumption, Types, NEW t \in Mutators, Mutate(t)
    PROVE  /\ phase' = phase /\ mark_stack' = mark_stack
           /\ sweep_limit' = sweep_limit /\ lazy_sweep_cursor' = lazy_sweep_cursor
           /\ lazy_sweep_active' = lazy_sweep_active
           /\ free_list' \subseteq free_list /\ exposed \subseteq exposed' /\ mark \subseteq mark'
           /\ phase # "mark" => exposed' = exposed /\ mark' = mark
           /\ lazy_sweep_active => free_point' = free_point
           /\ doomed' \subseteq doomed
BY DEF Mutate, Load, Pop, SatbBarrier, Store, MakeWeak, LoadWeak, AllocListed, AllocBump,
       space, marking, sweep, ghosts

\* A mutator reaches nothing new but what it was given: an object from a free list, or one
\* carved from the heap; what it gets at through the weak pointer while marking is on counts
\* as exposed.
LEMMA MutatorReach ==
    ASSUME MarkAssumption, Types, Stores, NEW t \in Mutators, Mutate(t), Types'
    PROVE  /\ Usable' \subseteq Usable \cup (free_list \ free_list') \cup (Carved' \ Carved)
           /\ phase = "mark" => Live' \subseteq Live \cup (free_list \ free_list') \cup exposed'
<1> USE DEF MarkAssumption
<1> DEFINE New == (free_list \ free_list') \cup (Carved' \ Carved)
<1>1. /\ Live \subseteq Carved /\ Roots \subseteq Live /\ Closed(field, Live)
      /\ Usable \subseteq Carved /\ Roots \subseteq Usable /\ weak \in Usable \cup {Nil} /\ Closed(field, Usable)
      /\ Live \subseteq Usable /\ Carved \subseteq Objects
  BY LiveIsLeast, UsableIsLeast, Addresses
<1>2. CASE Load(t)
  <2>1. PICK o \in roots[t] : roots' = [roots EXCEPT ![t] = @ \cup {field[o]}] /\ field[o] # Nil
    BY <1>2 DEF Load, Hold
  <2>2. Roots' = Roots \cup {field[o]} /\ field[o] \in Live
    BY <1>1, <2>1, RootsGrow, Addresses DEF Closed
  <2>3. field' = field /\ weak' = weak
    BY <1>2 DEF Load
  <2>4. Live' \subseteq Live /\ Usable' \subseteq Usable
    BY <1>1, <2>2, <2>3, LeastNext
  <2> QED BY <2>4
<1>3. CASE Pop(t)
  <2>1. PICK o \in roots[t] : roots' = [roots EXCEPT ![t] = @ \ {o}]
    BY <1>3 DEF Pop
  <2>2. Roots' \subseteq Roots
    BY <2>1 DEF Roots, Types, ProgramTypes
  <2>3. field' = field /\ weak' = weak
    BY <1>3 DEF Pop
  <2>4. Live' \subseteq Live /\ Usable' \subseteq Usable
    BY <1>1, <2>2, <2>3, LeastNext
  <2> QED BY <2>4
<1>4. CASE SatbBarrier(t)
  <2>1. field' = field /\ weak' = weak /\ Roots' = Roots
    BY <1>4 DEF SatbBarrier, Roots
  <2>2. Live' \subseteq Live /\ Usable' \subseteq Usable
    BY <1>1, <2>1, LeastNext
  <2> QED BY <2>2
<1>5. CASE Store(t)
  <2>1. /\ field' = [field EXCEPT ![write[t][1]] = write[t][2]] /\ write[t] # NoWrite
        /\ weak' = weak /\ Roots' = Roots
    BY <1>5 DEF Store, Roots
  <2>2. write[t][2] \in Roots \cup {Nil}
    BY <2>1, Addresses DEF Stores
  <2>3. ASSUME NEW C \in SUBSET Objects, Roots \subseteq C, Closed(field, C)
        PROVE  Closed(field', C)
    BY <2>1, <2>2, <2>3 DEF Closed, Types, ProgramTypes
  <2>4. Closed(field', Live) /\ Closed(field', Usable)
    BY <1>1, <2>3
  <2>5. Live' \subseteq Live /\ Usable' \subseteq Usable
    BY <1>1, <2>1, <2>4, LeastNext, ZenonT(30)
  <2> QED BY <2>5
<1>6. CASE MakeWeak(t)
  <2>1. field' = field /\ Roots' = Roots /\ weak' \in Roots
    BY <1>6, Addresses DEF MakeWeak, Roots
  <2>2. Live' \subseteq Live /\ Usable' \subseteq Usable
    BY <1>1, <2>1, LeastNext
  <2> QED BY <2>2
<1>7. CASE LoadWeak(t)
  <2>1. /\ roots' = [roots EXCEPT ![t] = @ \cup {weak}] /\ weak # Nil
        /\ field' = field /\ weak' = weak
        /\ phase = "mark" => exposed' = exposed \cup (Reach({weak}) \ Live)
    BY <1>7 DEF LoadWeak, Hold
  <2>2. Roots' = Roots \cup {weak}
    BY <2>1, RootsGrow
  <2>3. Usable' \subseteq Usable
    BY <1>1, <2>1, <2>2, LeastNext
  <2>4. Reach({weak}) \subseteq Carved /\ weak \in Reach({weak}) /\ Closed(field, Reach({weak}))
    BY <2>1, Addresses, ReachIsLeast
  <2>5. Closed(field', Live \cup Reach({weak}))
    BY <1>1, <2>1, <2>4 DEF Closed
  <2>6. Live' \subseteq Live \cup Reach({weak})
    BY <1>1, <2>2, <2>4, <2>5, LeastNext
  <2> QED BY <2>1, <2>3, <2>6
<1>8. CASE AllocListed(t)
  <2>1. PICK o \in free_list \ exposed, v \in roots[t] \cup {Nil} :
            /\ field' = [field EXCEPT ![o] = v] /\ roots' = [roots EXCEPT ![t] = @ \cup {o}]
            /\ free_list' = free_list \ {o} /\ weak' = weak
    BY <1>8 DEF AllocListed, Initialise, Hold
  <2>2. Roots' = Roots \cup {o} /\ v \in Roots \cup {Nil} /\ o \in Objects
    BY <2>1, RootsGrow, <1>1, Addresses DEF Types, SetTypes
  <2>3. ASSUME NEW C \in SUBSET Objects, Roots \subseteq C, Closed(field, C)
        PROVE  Closed(field', C \cup {o})
    BY <2>1, <2>2, <2>3 DEF Closed, Types, ProgramTypes
  <2>4. Live' \subseteq Live \cup {o} /\ Usable' \subseteq Usable \cup {o}
    <3>1. Closed(field', Live \cup {o}) /\ Closed(field', Usable \cup {o})
      BY <1>1, <2>3
    <3>2. Live \cup {o} \in SUBSET Objects /\ Usable \cup {o} \in SUBSET Objects
      BY <1>1, <2>2
    <3>3. Roots' \subseteq Live \cup {o} /\ Roots' \cup {weak'} \subseteq (Usable \cup {o}) \cup {Nil}
      BY <1>1, <2>1, <2>2
    <3> QED BY <3>1, <3>2, <3>3, LeastNext
  <2> QED BY <2>1, <2>4
<1>9. CASE AllocBump(t)
  <2>1. PICK v \in roots[t] \cup {Nil} :
            /\ field' = [field EXCEPT ![free_point'] = v] /\ roots' = [roots EXCEPT ![t] = @ \cup {free_point'}]
            /\ free_point' = free_point + 1 /\ free_point < HeapSize /\ weak' = weak
            /\ phase = "mark" => free_point' \in exposed'
    BY <1>9 DEF AllocBump, Initialise, Hold
  <2>2. free_point' \in Carved' \ Carved /\ free_point' \in Objects
    BY <2>1 DEF Types, ProgramTypes, Carved, Objects
  <2>3. Roots' = Roots \cup {free_point'} /\ v \in Roots \cup {Nil}
    BY <2>1, RootsGrow, Addresses
  <2>4. ASSUME NEW C \in SUBSET Objects, Roots \subseteq C, Closed(field, C)
        PROVE  Closed(field', C \cup {free_point'})
    BY <2>1, <2>2, <2>3, <2>4 DEF Closed, Types, ProgramTypes
  <2>5. Live' \subseteq Live \cup {free_point'} /\ Usable' \subseteq Usable \cup {free_point'}
    <3>1. Closed(field', Live \cup {free_point'}) /\ Closed(field', Usable \cup {free_point'})
      BY <1>1, <2>4
    <3>2. Live \cup {free_point'} \in SUBSET Objects /\ Usable \cup {free_point'} \in SUBSET Objects
      BY <1>1, <2>2
    <3>3. Roots' \subseteq Live \cup {free_point'} /\ Roots' \cup {weak'} \subseteq (Usable \cup {free_point'}) \cup {Nil}
      BY <1>1, <2>1, <2>2, <2>3
    <3> QED BY <3>1, <3>2, <3>3, LeastNext
  <2> QED BY <2>1, <2>2, <2>5
<1> QED BY <1>2, <1>3, <1>4, <1>5, <1>6, <1>7, <1>8, <1>9 DEF Mutate

----------------------------------------------------------------------------
(* While marking is off.                                                   *)

\* What a mutator gets from a free list or the heap is not free, nor is it to be swept.
LEMMA MutatorOutside ==
    ASSUME MarkAssumption, Types, Phases, Stores, Outside, NEW t \in Mutators, Mutate(t), Types'
    PROVE  Outside'
<1>1. SUFFICES ASSUME phase # "mark" PROVE Outside'
  BY MutatorFrame DEF Outside
<1>2. /\ Usable' \subseteq Usable \cup (free_list \ free_list') \cup (Carved' \ Carved)
      /\ free_list' \subseteq free_list /\ free_list \subseteq Carved
      /\ exposed' = exposed /\ mark' = mark
      /\ Usable \cap free_list \subseteq exposed
  BY <1>1, MutatorReach, MutatorFrame DEF Outside, Types, SetTypes
<1>3. Usable' \cap free_list' \subseteq exposed'
  BY <1>2
<1>4. ASSUME lazy_sweep_active'
      PROVE  free_list' \cap Unswept' = {} /\ Usable' \cap Unswept' \subseteq mark' \cup exposed'
  <2>1. lazy_sweep_active /\ Unswept' = Unswept /\ Carved' = Carved
    BY <1>4, MutatorFrame DEF Unswept, Carved
  <2>2. free_list \cap Unswept = {} /\ Usable \cap Unswept \subseteq mark \cup exposed
    BY <1>1, <2>1 DEF Outside
  <2> QED BY <1>2, <2>1, <2>2
<1> QED BY <1>3, <1>4 DEF Outside

\* After the remark: all that was reachable at the first pause is marked, by the leastness
\* of the snapshot; and so what can be reached now is marked or exposed.
LEMMA RemarkMarks ==
    ASSUME MarkAssumption, Types, Phases, Inside, Remark, Types'
    PROVE  Usable' \subseteq mark' \cup exposed
<1> USE DEF MarkAssumption
<1>1. phase = "mark" /\ mark_stack = {} /\ mark' = mark \cup Unmarked(Found) /\ field' = field /\ Roots' = Roots
      /\ weak' \in mark' \cup {Nil}
  BY DEF Remark, MsPostGcWp, Roots
<1>2. PICK S \in SUBSET Objects, f \in [Objects -> 0 .. HeapSize], first \in SUBSET Objects, later \in SUBSET Objects :
          Taken(S, f, first) /\ Known(S, later) /\ Logged(S, f)
  BY <1>1 DEF Inside
<1>3. /\ Unmarked(Found) \subseteq Carved
      /\ satb \cup Roots \subseteq mark'
      /\ \A c \in Unmarked(Found) : field[c] \in mark' \cup {Nil}
  BY <1>1, UnmarkedIsLeast
<1>4. S \subseteq mark'
  <2> DEFINE C == mark' \cap S
  <2>1. first \subseteq C
    BY <1>1, <1>2 DEF Taken
  <2>2. ASSUME NEW o \in C
        PROVE  f[o] \in C \cup {Nil}
    <3>1. f[o] \in S \cup {Nil}
      BY <1>2 DEF Taken, Closed
    <3>2. CASE o \in mark
      BY <1>1, <1>2, <1>3, <3>1, <3>2 DEF Logged
    <3>3. CASE o \in Unmarked(Found)
      BY <1>1, <1>2, <1>3, <3>1, <3>3 DEF Logged
    <3> QED BY <1>1, <3>2, <3>3
  <2>3. C = S
    BY <1>2, <2>1, <2>2 DEF Taken, Closed
  <2> QED BY <2>3
<1>5. later \subseteq exposed /\ Closed(field, mark' \cup later)
  BY <1>1, <1>2, <1>3, <1>4 DEF Known, Closed
<1>6. mark' \cup later \in SUBSET Objects
  BY <1>1, <1>3, Addresses DEF Types, SetTypes
<1>7. Usable' \subseteq mark' \cup later
  BY <1>1, <1>3, <1>5, <1>6, LeastNext
<1> QED BY <1>5, <1>7

\* The sweep frees only what is neither marked nor exposed; the remark starts one anew.
LEMMA CollectorOutside ==
    ASSUME MarkAssumption, Types, Phases, Outside, Inside, Collect, Types', Phases'
    PROVE  Outside'
<1> USE DEF MarkAssumption
<1>1. CASE MsLazySweepOne
  <2> DEFINE block == lazy_sweep_cursor + 1 .. lazy_sweep_cursor'
  <2>1. /\ free_list' = free_list \cup (block \ mark) /\ mark' = mark \ block /\ exposed' = exposed
        /\ lazy_sweep_active /\ phase # "mark" /\ Usable' = Usable
    BY <1>1, SweepBlockStep DEF MsLazySweepOne, Phases, Usable, Reach, Roots, program, ghosts
  <2>2. Unswept = block \cup Unswept' /\ block \cap Unswept' = {}
    <3>1. /\ lazy_sweep_cursor \in 0 .. free_point /\ lazy_sweep_cursor' \in 0 .. free_point
          /\ lazy_sweep_cursor <= lazy_sweep_cursor'
      BY <1>1, SweepBlockStep
    <3>2. free_point' = free_point
      BY <1>1 DEF MsLazySweepOne
    <3>3. free_point \in Nat
      BY DEF Types, ProgramTypes
    <3>4. lazy_sweep_cursor \in Int /\ lazy_sweep_cursor' \in Int /\ free_point \in Int /\ lazy_sweep_cursor' <= free_point
      BY <3>1, <3>3
    <3> QED BY <3>1, <3>2, <3>4, Intervals DEF Unswept
  <2>3. /\ Usable \cap free_list \subseteq exposed
        /\ free_list \cap Unswept = {} /\ Usable \cap Unswept \subseteq mark \cup exposed
    BY <2>1 DEF Outside
  <2>4. Usable' \cap free_list' \subseteq exposed'
    BY <2>1, <2>2, <2>3
  <2>5. free_list' \cap Unswept' = {} /\ Usable' \cap Unswept' \subseteq mark' \cup exposed'
    BY <2>1, <2>2, <2>3
  <2> QED BY <2>4, <2>5 DEF Outside
<1>2. CASE BeginCycle
  <2>1. /\ phase = "idle" /\ lazy_sweep_active' = FALSE /\ exposed' = exposed /\ Usable' = Usable
        /\ free_list' = free_list \cup (IF lazy_sweep_active THEN (lazy_sweep_cursor + 1 .. Limit) \ mark ELSE {})
    BY <1>2 DEF BeginCycle, Usable, Reach, Roots, program, ghosts
  <2>2. lazy_sweep_cursor + 1 .. Limit = Unswept
    BY <2>1 DEF Phases, Limit, Unswept
  <2> QED BY <2>1, <2>2 DEF Outside
<1>3. CASE InitialMark
  BY <1>3 DEF InitialMark, Outside
<1>4. CASE MsTraceConcurrent
  BY <1>4 DEF MsTraceConcurrent, Outside
<1>5. CASE Remark
  <2>1. free_list' = {} /\ exposed' = exposed
    BY <1>5 DEF Remark, ghosts
  <2>2. Usable' \subseteq mark' \cup exposed
    BY <1>5, RemarkMarks
  <2> QED BY <2>1, <2>2 DEF Outside
<1>6. CASE EndCycle
  BY <1>6 DEF EndCycle, Outside, Usable, Unswept, Reach, Roots, program, space, ghosts
<1> QED BY <1>1, <1>2, <1>3, <1>4, <1>5, <1>6 DEF Collect

----------------------------------------------------------------------------
(* While marking is on.                                                    *)

\* The snapshot is not touched by what mutators do.
LEMMA MutatorTaken ==
    ASSUME MarkAssumption, Types, NEW t \in Mutators, Mutate(t), NEW S, NEW f, NEW first, Taken(S, f, first)
    PROVE  Taken(S, f, first)'
<1>1. /\ sweep_limit' = sweep_limit /\ free_list' \subseteq free_list /\ exposed \subseteq exposed' /\ mark \subseteq mark'
  BY MutatorFrame
<1> QED BY <1>1 DEF Taken

\* All that the program can reach is known.
LEMMA KnownIsLive ==
    ASSUME MarkAssumption, Types, NEW S \in SUBSET Objects, NEW later \in SUBSET Objects, Known(S, later)
    PROVE  Live \subseteq S \cup mark \cup later
BY LiveIsLeast, Addresses DEF MarkAssumption, Known, Types, SetTypes

\* A mutator links what it can reach, and what it newly gets at is marked or exposed.
LEMMA MutatorKnown ==
    ASSUME MarkAssumption, Types, Stores, NEW t \in Mutators, Mutate(t), Types', phase = "mark",
           NEW S \in SUBSET Objects, NEW later \in SUBSET Objects, Known(S, later)
    PROVE  \E l \in SUBSET Objects : Known(S, l)'
<1> USE DEF MarkAssumption
<1> DEFINE K == S \cup mark \cup later
<1>1. /\ Roots \subseteq Live /\ Live \subseteq K /\ K \subseteq Objects /\ Closed(field, Live) /\ Closed(field, K)
      /\ Roots \subseteq K /\ later \subseteq exposed
  BY LiveIsLeast, KnownIsLive, Addresses DEF Types, SetTypes, Known
<1>2. CASE Load(t)
  <2>1. PICK o \in roots[t] : roots' = [roots EXCEPT ![t] = @ \cup {field[o]}] /\ field[o] # Nil
    BY <1>2 DEF Load, Hold
  <2>2. Roots' = Roots \cup {field[o]} /\ field[o] \in Live
    BY <1>1, <2>1, RootsGrow, Addresses DEF Closed
  <2>3. field' = field /\ mark' = mark /\ exposed' = exposed
    BY <1>2 DEF Load, marking, ghosts
  <2> QED BY <1>1, <2>2, <2>3 DEF Known
<1>3. CASE Pop(t)
  <2>1. PICK o \in roots[t] : roots' = [roots EXCEPT ![t] = @ \ {o}]
    BY <1>3 DEF Pop
  <2>2. Roots' \subseteq Roots
    BY <2>1 DEF Roots, Types, ProgramTypes
  <2>3. field' = field /\ mark' = mark /\ exposed' = exposed
    BY <1>3 DEF Pop, marking, ghosts
  <2> QED BY <1>1, <2>2, <2>3 DEF Known
<1>4. CASE SatbBarrier(t)
  <2>1. field' = field /\ Roots' = Roots /\ mark' = mark /\ exposed' = exposed
    BY <1>4 DEF SatbBarrier, Roots, ghosts
  <2> QED BY <1>1, <2>1 DEF Known
<1>5. CASE Store(t)
  <2>1. /\ field' = [field EXCEPT ![write[t][1]] = write[t][2]] /\ write[t] # NoWrite
        /\ Roots' = Roots /\ mark' = mark /\ exposed' = exposed
    BY <1>5 DEF Store, Roots, marking, ghosts
  <2>2. write[t][2] \in Roots \cup {Nil}
    BY <2>1, Addresses DEF Stores
  <2>3. Closed(field', K)
    BY <1>1, <2>1, <2>2 DEF Closed, Types, ProgramTypes
  <2> QED BY <1>1, <2>1, <2>3 DEF Known
<1>6. CASE MakeWeak(t)
  <2>1. field' = field /\ Roots' = Roots /\ mark' = mark /\ exposed' = exposed
    BY <1>6 DEF MakeWeak, Roots, marking, ghosts
  <2> QED BY <1>1, <2>1 DEF Known
<1>7. CASE LoadWeak(t)
  <2>1. /\ roots' = [roots EXCEPT ![t] = @ \cup {weak}] /\ weak # Nil
        /\ field' = field /\ mark' = mark
        /\ exposed' = exposed \cup (Reach({weak}) \ Live)
    BY <1>7 DEF LoadWeak, Hold, marking
  <2>2. Roots' = Roots \cup {weak}
    BY <2>1, RootsGrow
  <2>3. Reach({weak}) \subseteq Carved /\ weak \in Reach({weak}) /\ Closed(field, Reach({weak}))
    BY <2>1, Addresses, ReachIsLeast
  <2>4. PICK l \in SUBSET Objects : l = later \cup (Reach({weak}) \ Live)
    BY <2>3, Addresses
  <2>5. S \cup mark \cup l = K \cup Reach({weak})
    BY <1>1, <2>4
  <2>6. Closed(field, S \cup mark \cup l) /\ Roots' \subseteq S \cup mark \cup l /\ l \subseteq exposed'
    BY <1>1, <2>1, <2>2, <2>3, <2>4, <2>5 DEF Closed
  <2> QED BY <2>1, <2>6 DEF Known
<1>8. CASE AllocListed(t)
  <2>1. PICK o \in free_list \ exposed, v \in roots[t] \cup {Nil} :
            /\ field' = [field EXCEPT ![o] = v] /\ roots' = [roots EXCEPT ![t] = @ \cup {o}]
            /\ mark' = mark \cup {o} /\ exposed' = exposed
    BY <1>8 DEF AllocListed, Initialise, Hold
  <2>2. Roots' = Roots \cup {o} /\ v \in Roots \cup {Nil}
    BY <2>1, RootsGrow, Addresses
  <2>3. Closed(field', S \cup mark' \cup later)
    BY <1>1, <2>1, <2>2 DEF Closed, Types, ProgramTypes
  <2> QED BY <1>1, <2>1, <2>2, <2>3 DEF Known
<1>9. CASE AllocBump(t)
  <2>1. PICK v \in roots[t] \cup {Nil} :
            /\ field' = [field EXCEPT ![free_point'] = v] /\ roots' = [roots EXCEPT ![t] = @ \cup {free_point'}]
            /\ free_point' = free_point + 1 /\ free_point < HeapSize
            /\ mark' = mark /\ exposed' = exposed \cup {free_point'}
    BY <1>9 DEF AllocBump, Initialise, Hold, marking
  <2>2. free_point' \in Objects
    BY <2>1 DEF Types, ProgramTypes, Objects
  <2>3. Roots' = Roots \cup {free_point'} /\ v \in Roots \cup {Nil}
    BY <2>1, RootsGrow, Addresses
  <2>4. PICK l \in SUBSET Objects : l = later \cup {free_point'}
    BY <2>2
  <2>5. Closed(field', S \cup mark \cup l)
    BY <1>1, <2>1, <2>2, <2>3, <2>4 DEF Closed, Types, ProgramTypes
  <2> QED BY <1>1, <2>1, <2>3, <2>4, <2>5 DEF Known
<1> QED BY <1>2, <1>3, <1>4, <1>5, <1>6, <1>7, <1>8, <1>9 DEF Mutate

\* A reference of the snapshot is logged before the store that overwrites it.
LEMMA MutatorLogged ==
    ASSUME MarkAssumption, Types, Phases, Stores, NEW t \in Mutators, Mutate(t), Types', phase = "mark",
           NEW S \in SUBSET Objects, NEW f \in [Objects -> 0 .. HeapSize], NEW first \in SUBSET Objects,
           Taken(S, f, first), Logged(S, f)
    PROVE  Logged(S, f)'
<1>1. CASE Load(t)
  BY <1>1 DEF Load, Logged, marking
<1>2. CASE Pop(t)
  BY <1>2 DEF Pop, Logged, marking
<1>3. CASE SatbBarrier(t)
  <2>1. PICK o \in roots[t], v \in roots[t] \cup {Nil} :
            /\ write' = [write EXCEPT ![t] = <<o, v>>]
            /\ satb' = satb \cup ({field[o]} \ {Nil})
    BY <1>3 DEF SatbBarrier
  <2>2. field' = field /\ mark' = mark /\ mark_stack' = mark_stack
    BY <1>3 DEF SatbBarrier
  <2>3. o \in S => f[o] \in satb' \cup {Nil}
    BY <2>1 DEF Logged
  <2>4. \A u \in Mutators : write'[u] # NoWrite /\ write'[u][1] \in S => f[write'[u][1]] \in satb' \cup {Nil}
    BY <2>1, <2>3 DEF Logged, Types, ProgramTypes
  <2> QED BY <2>1, <2>2, <2>4 DEF Logged
<1>4. CASE Store(t)
  <2>1. /\ field' = [field EXCEPT ![write[t][1]] = write[t][2]] /\ write[t] # NoWrite
        /\ write' = [write EXCEPT ![t] = NoWrite]
        /\ satb' = satb /\ mark' = mark /\ mark_stack' = mark_stack
    BY <1>4 DEF Store, marking
  <2>2. \A o \in S : field'[o] = f[o] \/ f[o] \in satb' \cup {Nil}
    BY <2>1 DEF Logged, Types, ProgramTypes
  <2>3. \A u \in Mutators : write'[u] # NoWrite /\ write'[u][1] \in S => f[write'[u][1]] \in satb' \cup {Nil}
    BY <2>1 DEF Logged, Types, ProgramTypes
  <2> QED BY <2>1, <2>2, <2>3 DEF Logged
<1>5. CASE MakeWeak(t)
  BY <1>5 DEF MakeWeak, Logged, marking
<1>6. CASE LoadWeak(t)
  BY <1>6 DEF LoadWeak, Logged, marking
<1>7. CASE AllocListed(t)
  <2>1. PICK o \in free_list \ exposed, v \in roots[t] \cup {Nil} :
            /\ field' = [field EXCEPT ![o] = v] /\ mark' = mark \cup {o}
            /\ satb' = satb /\ mark_stack' = mark_stack /\ write' = write
    BY <1>7 DEF AllocListed, Initialise
  <2>2. o \notin S
    BY <2>1 DEF Taken
  <2> QED BY <2>1, <2>2 DEF Logged, Types, ProgramTypes
<1>8. CASE AllocBump(t)
  <2>1. PICK v \in roots[t] \cup {Nil} :
            /\ field' = [field EXCEPT ![free_point'] = v] /\ free_point' = free_point + 1
            /\ mark' = mark /\ satb' = satb /\ mark_stack' = mark_stack /\ write' = write
    BY <1>8 DEF AllocBump, Initialise, marking
  <2>2. free_point' \notin S
    <3>1. sweep_limit \in 0 .. free_point /\ free_point \in Nat
      BY DEF MarkAssumption, Types, ProgramTypes, PhaseTypes, Phases
    <3>2. free_point + 1 \notin 1 .. sweep_limit
      BY <3>1
    <3> QED BY <2>1, <3>2 DEF Taken
  <2> QED BY <2>1, <2>2 DEF Logged, Types, ProgramTypes
<1> QED BY <1>1, <1>2, <1>3, <1>4, <1>5, <1>6, <1>7, <1>8 DEF Mutate

\* The two lemmas together, with the snapshot as it was.
LEMMA MutatorInside ==
    ASSUME MarkAssumption, Types, Phases, Stores, Inside, NEW t \in Mutators, Mutate(t), Types'
    PROVE  Inside'
<1>1. SUFFICES ASSUME phase = "mark" PROVE Inside'
  BY MutatorFrame DEF Inside
<1>2. Live' \cap free_list' \subseteq exposed'
  BY <1>1, MutatorReach, MutatorFrame DEF Inside
<1>3. weak' \in free_list' => weak' \in exposed'
  <2>1. CASE MakeWeak(t)
    <3>1. weak' \in Live /\ free_list' = free_list /\ exposed' = exposed
      BY <2>1, LiveIsLeast, Addresses DEF MarkAssumption, MakeWeak, space, ghosts
    <3> QED BY <1>1, <3>1 DEF Inside
  <2>2. CASE weak' = weak
    BY <1>1, <2>2, MutatorFrame DEF Inside
  <2> QED
    BY <2>1, <2>2 DEF Mutate, Load, Pop, SatbBarrier, Store, LoadWeak, AllocListed, AllocBump
<1>4. PICK S \in SUBSET Objects, f \in [Objects -> 0 .. HeapSize], first \in SUBSET Objects, later \in SUBSET Objects :
          Taken(S, f, first) /\ Known(S, later) /\ Logged(S, f)
  BY <1>1 DEF Inside
<1>5. Taken(S, f, first)'
  BY <1>4, MutatorTaken
<1>6. PICK l \in SUBSET Objects : Known(S, l)'
  BY <1>1, <1>4, MutatorKnown
<1>7. Logged(S, f)'
  BY <1>1, <1>4, MutatorLogged
<1> QED BY <1>2, <1>3, <1>5, <1>6, <1>7 DEF Inside

\* The first pause takes the snapshot; tracing follows its fields or finds them logged.
LEMMA CollectorInside ==
    ASSUME MarkAssumption, Types, Phases, Outside, Inside, Collect, Types'
    PROVE  Inside'
<1> USE DEF MarkAssumption
<1>1. CASE InitialMark
  <2>1. /\ phase = "begun" /\ sweep_limit' = free_point /\ mark' = Roots /\ mark_stack' = Roots
        /\ exposed' = free_list \cap (Live \cup {weak})
        /\ field' = field /\ Roots' = Roots /\ Live' = Live /\ weak' = weak /\ free_list' = free_list
        /\ \A t \in Mutators : write'[t] = NoWrite
    BY <1>1 DEF InitialMark, Stopped, Live, Reach, Roots, program, space
  <2>2. /\ Live \subseteq Carved /\ Roots \subseteq Live /\ Closed(field, Live) /\ Carved \subseteq Objects
        /\ \A C \in SUBSET Objects : Roots \subseteq C /\ Closed(field, C) => Live \subseteq C
    BY LiveIsLeast, Addresses
  <2>3. PICK S \in SUBSET Objects, f \in [Objects -> 0 .. HeapSize], first \in SUBSET Objects, later \in SUBSET Objects :
            S = Live /\ f = field /\ first = Roots /\ later = {}
    <3>1. field \in [Objects -> 0 .. HeapSize]
      BY DEF Types, ProgramTypes
    <3>2. Live \in SUBSET Objects /\ Roots \in SUBSET Objects /\ {} \in SUBSET Objects
      BY <2>2
    <3> QED BY <3>1, <3>2
  <2>4. Taken(S, f, first)'
    <3>1. S \subseteq 1 .. sweep_limit' /\ S \cap free_list' \subseteq exposed' /\ first \subseteq mark' /\ first \subseteq S
      BY <2>1, <2>2, <2>3 DEF Carved
    <3>2. Closed(f, S) /\ \A C \in SUBSET S : first \subseteq C /\ Closed(f, C) => C = S
      BY <2>2, <2>3
    <3> QED BY <3>1, <3>2 DEF Taken
  <2>5. Known(S, later)'
    <3>1. S \cup mark' \cup later = Live
      BY <2>1, <2>2, <2>3
    <3> QED BY <2>1, <2>2, <2>3, <3>1 DEF Known
  <2>6. Logged(S, f)'
    BY <2>1, <2>3 DEF Logged
  <2> QED BY <2>1, <2>4, <2>5, <2>6 DEF Inside
<1>2. CASE MsTraceConcurrent
  <2>1. PICK o \in mark_stack :
            /\ mark' = mark \cup ({field[o]} \ (mark \cup {Nil}))
            /\ mark_stack' = (mark_stack \ {o}) \cup ({field[o]} \ (mark \cup {Nil}))
    BY <1>2 DEF MsTraceConcurrent
  <2>2. /\ phase = "mark" /\ field' = field /\ Roots' = Roots /\ Live' = Live /\ weak' = weak /\ write' = write
        /\ free_list' = free_list /\ exposed' = exposed /\ satb' = satb /\ sweep_limit' = sweep_limit
    BY <1>2 DEF MsTraceConcurrent, Live, Reach, Roots, program, space, sweep, ghosts
  <2>3. PICK S \in SUBSET Objects, f \in [Objects -> 0 .. HeapSize], first \in SUBSET Objects, later \in SUBSET Objects :
            Taken(S, f, first) /\ Known(S, later) /\ Logged(S, f)
    BY <2>2 DEF Inside
  <2>4. Taken(S, f, first)'
    BY <2>1, <2>2, <2>3 DEF Taken
  <2>5. Known(S, later)'
    <3>1. o \in mark
      BY DEF Types, SetTypes
    <3>2. S \cup mark' \cup later = S \cup mark \cup later
      BY <2>1, <2>3, <3>1 DEF Known, Closed
    <3> QED BY <2>2, <2>3, <3>2 DEF Known
  <2>6. Logged(S, f)'
    <3>1. ASSUME NEW x \in (mark' \ mark_stack') \cap S
          PROVE  f[x] \in mark' \cup satb \cup {Nil}
      <4>1. CASE x = o
        BY <2>1, <2>3, <4>1, <3>1 DEF Logged
      <4>2. CASE x # o
        BY <2>1, <2>3, <4>2, <3>1 DEF Logged
      <4> QED BY <4>1, <4>2
    <3> QED BY <2>2, <2>3, <3>1 DEF Logged
  <2> QED BY <2>2, <2>4, <2>5, <2>6 DEF Inside
<1>3. CASE MsLazySweepOne
  BY <1>3 DEF MsLazySweepOne, Phases, Inside
<1>4. CASE BeginCycle \/ Remark \/ EndCycle
  BY <1>4 DEF BeginCycle, Remark, EndCycle, Inside
<1> QED BY <1>1, <1>2, <1>3, <1>4 DEF Collect

----------------------------------------------------------------------------
(* What was garbage.                                                       *)

\* A mutator cannot get at garbage, but through the weak pointer or a free list.
LEMMA MutatorGarbage ==
    ASSUME MarkAssumption, Types, Phases, Stores, Garbage, NEW t \in Mutators, Mutate(t), Types'
    PROVE  Garbage'
<1> USE DEF MarkAssumption
<1> DEFINE Kept == Carved \ doomed
<1>1. ASSUME phase = "mark"
      PROVE  /\ doomed' \subseteq 1 .. sweep_limit'
             /\ Roots' \cup mark' \cup satb' \subseteq Kept'
             /\ Closed(field', Kept')
  <2>1. /\ doomed \subseteq 1 .. sweep_limit /\ Roots \subseteq Kept /\ mark \subseteq Kept /\ satb \subseteq Kept
        /\ Closed(field, Kept) /\ Kept \subseteq Carved /\ Carved \subseteq Objects
    BY <1>1, Addresses DEF Garbage
  <2>2. doomed' \subseteq 1 .. sweep_limit'
    BY <2>1, MutatorFrame
  <2>3. CASE Load(t)
    <3>1. PICK o \in roots[t] : roots' = [roots EXCEPT ![t] = @ \cup {field[o]}] /\ field[o] # Nil
      BY <2>3 DEF Load, Hold
    <3>2. Roots' = Roots \cup {field[o]} /\ field[o] \in Kept
      BY <2>1, <3>1, RootsGrow, Addresses DEF Closed
    <3>3. field' = field /\ mark' = mark /\ satb' = satb /\ Kept' = Kept
      BY <2>3 DEF Load, Carved, space, marking, ghosts
    <3> QED BY <2>1, <2>2, <3>2, <3>3
  <2>4. CASE Pop(t)
    <3>1. PICK o \in roots[t] : roots' = [roots EXCEPT ![t] = @ \ {o}]
      BY <2>4 DEF Pop
    <3>2. Roots' \subseteq Roots
      BY <3>1 DEF Roots, Types, ProgramTypes
    <3>3. field' = field /\ mark' = mark /\ satb' = satb /\ Kept' = Kept
      BY <2>4 DEF Pop, Carved, space, marking, ghosts
    <3> QED BY <2>1, <2>2, <3>2, <3>3
  <2>5. CASE SatbBarrier(t)
    <3>1. PICK o \in roots[t] : satb' = satb \cup ({field[o]} \ {Nil})
      BY <1>1, <2>5 DEF SatbBarrier
    <3>2. field[o] \in Kept \cup {Nil}
      BY <2>1, Addresses DEF Closed
    <3>3. field' = field /\ mark' = mark /\ Roots' = Roots /\ Kept' = Kept
      BY <2>5 DEF SatbBarrier, Roots, Carved, space, ghosts
    <3> QED BY <2>1, <2>2, <3>1, <3>2, <3>3
  <2>6. CASE Store(t)
    <3>1. /\ field' = [field EXCEPT ![write[t][1]] = write[t][2]] /\ write[t] # NoWrite
          /\ Roots' = Roots /\ mark' = mark /\ satb' = satb /\ Kept' = Kept
      BY <2>6 DEF Store, Roots, Carved, space, marking, ghosts
    <3>2. write[t][2] \in Roots \cup {Nil}
      BY <3>1, Addresses DEF Stores
    <3>3. Closed(field', Kept)
      BY <2>1, <3>1, <3>2 DEF Closed, Types, ProgramTypes
    <3> QED BY <2>1, <2>2, <3>1, <3>3
  <2>7. CASE MakeWeak(t)
    <3>1. field' = field /\ Roots' = Roots /\ mark' = mark /\ satb' = satb /\ Kept' = Kept
      BY <2>7 DEF MakeWeak, Roots, Carved, space, marking, ghosts
    <3> QED BY <2>1, <2>2, <3>1
  <2>8. CASE LoadWeak(t)
    <3>1. /\ roots' = [roots EXCEPT ![t] = @ \cup {weak}] /\ weak # Nil
          /\ field' = field /\ mark' = mark /\ satb' = satb
          /\ doomed' = doomed \ Reach({weak}) /\ Carved' = Carved
      BY <2>8 DEF LoadWeak, Hold, Carved, space, marking
    <3>2. Roots' = Roots \cup {weak}
      BY <3>1, RootsGrow
    <3>3. Reach({weak}) \subseteq Carved /\ weak \in Reach({weak}) /\ Closed(field, Reach({weak}))
      BY <3>1, Addresses, ReachIsLeast
    <3>4. Kept' = Kept \cup Reach({weak})
      BY <3>1, <3>3
    <3>5. Closed(field', Kept')
      BY <2>1, <3>1, <3>3, <3>4 DEF Closed
    <3> QED BY <2>1, <2>2, <3>1, <3>2, <3>3, <3>4, <3>5
  <2>9. CASE AllocListed(t)
    <3>1. PICK o \in free_list \ exposed, v \in roots[t] \cup {Nil} :
              /\ field' = [field EXCEPT ![o] = v] /\ roots' = [roots EXCEPT ![t] = @ \cup {o}]
              /\ mark' = mark \cup {o} /\ satb' = satb /\ doomed' = doomed \ {o} /\ Carved' = Carved
      BY <1>1, <2>9 DEF AllocListed, Initialise, Hold, Carved
    <3>2. Roots' = Roots \cup {o} /\ v \in Roots \cup {Nil} /\ o \in Carved
      BY <3>1, RootsGrow, Addresses DEF Types, SetTypes
    <3>3. Kept' = Kept \cup {o}
      BY <3>1, <3>2
    <3>4. Closed(field', Kept \cup {o})
      BY <2>1, <3>1, <3>2 DEF Closed, Types, ProgramTypes
    <3> QED BY <2>1, <2>2, <3>1, <3>2, <3>3, <3>4
  <2>10. CASE AllocBump(t)
    <3>1. PICK v \in roots[t] \cup {Nil} :
              /\ field' = [field EXCEPT ![free_point'] = v] /\ roots' = [roots EXCEPT ![t] = @ \cup {free_point'}]
              /\ free_point' = free_point + 1 /\ free_point < HeapSize
              /\ mark' = mark /\ satb' = satb /\ doomed' = doomed
      BY <2>10 DEF AllocBump, Initialise, Hold, marking
    <3>2. Carved' = Carved \cup {free_point'} /\ free_point' \in Objects /\ free_point' \notin Carved
      BY <3>1 DEF Types, ProgramTypes, Carved, Objects
    <3>3. Roots' = Roots \cup {free_point'} /\ v \in Roots \cup {Nil}
      BY <3>1, RootsGrow, Addresses
    <3>4. Kept' = Kept \cup {free_point'}
      BY <3>1, <3>2 DEF Types, SetTypes
    <3>5. Closed(field', Kept \cup {free_point'})
      BY <2>1, <3>1, <3>2, <3>3 DEF Closed, Types, ProgramTypes
    <3> QED BY <2>1, <2>2, <3>1, <3>2, <3>3, <3>4, <3>5
  <2> QED BY <2>3, <2>4, <2>5, <2>6, <2>7, <2>8, <2>9, <2>10 DEF Mutate
<1>2. CASE AllocListed(t) /\ phase # "mark"
  <2>1. PICK o \in free_list : free_list' = free_list \ {o} /\ doomed' = doomed \ {o}
    BY <1>2 DEF AllocListed
  <2>2. /\ mark' = mark /\ phase' = phase /\ lazy_sweep_active' = lazy_sweep_active
        /\ lazy_sweep_cursor' = lazy_sweep_cursor /\ Limit' = Limit
    BY <1>2 DEF AllocListed, Limit, sweep
  <2> QED BY <1>2, <2>1, <2>2 DEF Garbage, Phases
<1>3. CASE ~ AllocListed(t) /\ phase # "mark"
  <2>1. /\ phase' = phase /\ mark' = mark /\ free_list' = free_list /\ doomed' \subseteq doomed
        /\ lazy_sweep_active' = lazy_sweep_active /\ lazy_sweep_cursor' = lazy_sweep_cursor
        /\ sweep_limit' = sweep_limit
    BY <1>3, MutatorFrame DEF Mutate, Load, Pop, SatbBarrier, Store, MakeWeak, LoadWeak, AllocBump, space
  <2>2. lazy_sweep_active => Limit' = Limit
    BY <2>1, MutatorFrame DEF Limit
  <2> QED BY <1>3, <2>1, <2>2 DEF Garbage
<1> QED
  <2>1. phase' = phase /\ lazy_sweep_active' = lazy_sweep_active
    BY MutatorFrame
  <2> QED BY <1>1, <1>2, <1>3, <2>1 DEF Garbage, Phases

\* Marking stays with what is not garbage; the sweep frees what has no mark.
LEMMA CollectorGarbage ==
    ASSUME MarkAssumption, Types, Phases, Garbage, Collect, Types'
    PROVE  Garbage'
<1> USE DEF MarkAssumption
<1>1. CASE MsLazySweepOne
  <2>1. /\ lazy_sweep_active /\ phase # "mark" /\ phase' = phase /\ doomed' = doomed /\ Limit' = Limit
    BY <1>1 DEF MsLazySweepOne, Phases, Limit, ghosts
  <2>2. doomed \cap mark = {} /\ doomed \subseteq free_list \cup (lazy_sweep_cursor + 1 .. Limit)
    BY <2>1 DEF Garbage
  <2>3. /\ free_list' = free_list \cup ((lazy_sweep_cursor + 1 .. lazy_sweep_cursor') \ mark) /\ mark' \subseteq mark
        /\ Limit \in Int /\ lazy_sweep_cursor \in Int /\ lazy_sweep_cursor' \in Int
        /\ ~ lazy_sweep_active' => lazy_sweep_cursor >= Limit
    BY <1>1, SweepBlockStep
  <2>4. doomed' \cap mark' = {}
    BY <2>1, <2>2, <2>3
  <2>5. doomed' \subseteq free_list' \cup (lazy_sweep_cursor' + 1 .. Limit')
    <3>1. lazy_sweep_cursor + 1 .. Limit \subseteq
              (lazy_sweep_cursor + 1 .. lazy_sweep_cursor') \cup (lazy_sweep_cursor' + 1 .. Limit)
      BY <2>3, Intervals
    <3> QED BY <2>1, <2>2, <2>3, <3>1
  <2>6. ~ lazy_sweep_active' => doomed' \subseteq free_list'
    BY <2>1, <2>2, <2>3
  <2> QED BY <2>1, <2>4, <2>5, <2>6 DEF Garbage
<1>2. CASE BeginCycle
  <2>1. /\ phase' = "begun" /\ phase # "mark" /\ lazy_sweep_active' = FALSE /\ doomed' = doomed
        /\ free_list' = free_list \cup (IF lazy_sweep_active THEN (lazy_sweep_cursor + 1 .. Limit) \ mark ELSE {})
    BY <1>2 DEF BeginCycle, ghosts
  <2> QED BY <2>1 DEF Garbage
<1>3. CASE InitialMark
  <2>1. /\ phase' = "mark" /\ sweep_limit' = free_point /\ mark' = Roots /\ satb' = {} /\ doomed' = Carved \ Live
        /\ field' = field /\ Roots' = Roots /\ Carved' = Carved /\ ~ lazy_sweep_active'
    BY <1>3 DEF InitialMark, Phases, Carved, Roots, program, space
  <2>2. Roots \subseteq Live /\ Live \subseteq Carved /\ Closed(field, Live)
    BY LiveIsLeast
  <2>3. Carved' \ doomed' = Live
    BY <2>1, <2>2
  <2> QED BY <2>1, <2>2, <2>3 DEF Garbage, Carved
<1>4. CASE MsTraceConcurrent
  <2>1. PICK o \in mark_stack : mark' = mark \cup ({field[o]} \ (mark \cup {Nil}))
    BY <1>4 DEF MsTraceConcurrent
  <2>2. /\ phase = "mark" /\ phase' = phase /\ field' = field /\ Roots' = Roots /\ satb' = satb /\ doomed' = doomed
        /\ sweep_limit' = sweep_limit /\ Carved' = Carved /\ lazy_sweep_active' = lazy_sweep_active
    BY <1>4 DEF MsTraceConcurrent, Carved, Roots, program, space, sweep, ghosts
  <2>3. /\ doomed \subseteq 1 .. sweep_limit /\ Roots \cup mark \cup satb \subseteq Carved \ doomed
        /\ Closed(field, Carved \ doomed) /\ ~ lazy_sweep_active
    BY <2>2 DEF Garbage, Phases
  <2>4. mark' \subseteq Carved \ doomed
    BY <2>1, <2>3 DEF Closed, Types, SetTypes
  <2> QED BY <2>2, <2>3, <2>4 DEF Garbage
<1>5. CASE Remark
  <2>1. /\ phase = "mark" /\ phase' = "end" /\ mark' = mark \cup Unmarked(Found) /\ lazy_sweep_cursor' = 0
        /\ lazy_sweep_active' = TRUE /\ sweep_limit' = sweep_limit /\ doomed' = doomed
    BY <1>5 DEF Remark, ghosts
  <2>2. /\ doomed \subseteq 1 .. sweep_limit /\ Roots \cup mark \cup satb \subseteq Carved \ doomed
        /\ Closed(field, Carved \ doomed) /\ Carved \subseteq Objects
    BY <2>1, Addresses DEF Garbage
  <2>3. sweep_limit \in 0 .. free_point /\ sweep_limit # NoLimit
    BY <2>1 DEF Phases, Types, PhaseTypes
  <2>4. Found \subseteq (Carved \ doomed) \cup {Nil}
    <3>1. sweep_limit + 1 .. free_point \subseteq Carved \ doomed
      BY <2>2, <2>3 DEF Carved, Types, ProgramTypes
    <3> QED BY <2>2, <3>1 DEF Found, Closed
  <2>5. Unmarked(Found) \subseteq Carved \ doomed
    BY <2>1, <2>2, <2>4, UnmarkedIsLeast DEF Closed
  <2>6. doomed' \cap mark' = {}
    BY <2>1, <2>2, <2>5
  <2>7. Limit' = sweep_limit /\ lazy_sweep_cursor' + 1 = 1
    BY <2>1, <2>3 DEF Limit
  <2> QED BY <2>1, <2>2, <2>6, <2>7 DEF Garbage
<1>6. CASE EndCycle
  <2>1. /\ phase = "end" /\ phase' = "idle" /\ sweep_limit' = NoLimit /\ mark' = mark /\ doomed' = doomed
        /\ free_list' = free_list /\ free_point' = free_point
        /\ lazy_sweep_cursor' = lazy_sweep_cursor /\ lazy_sweep_active' = lazy_sweep_active
    BY <1>6 DEF EndCycle, space, ghosts
  <2>2. lazy_sweep_cursor + 1 .. Limit \subseteq lazy_sweep_cursor' + 1 .. Limit'
    <3>1. sweep_limit \in 0 .. free_point /\ sweep_limit # NoLimit /\ Limit = sweep_limit /\ Limit' = free_point
      BY <2>1 DEF Phases, Types, PhaseTypes, Limit
    <3> QED BY <2>1, <3>1 DEF Types, ProgramTypes, PhaseTypes
  <2> QED BY <2>1, <2>2 DEF Garbage
<1> QED BY <1>1, <1>2, <1>3, <1>4, <1>5, <1>6 DEF Collect

----------------------------------------------------------------------------
(* The theorems.                                                           *)

\* The initial state.
LEMMA InitInvariant ==
    ASSUME MarkAssumption, Init
    PROVE  IInv
<1>1. Types /\ Phases /\ Stores
  BY InitTypes
<1>2. Outside /\ Inside /\ Garbage
  BY DEF Init, Outside, Inside, Garbage
<1> QED BY <1>1, <1>2 DEF IInv

\* Every step.
LEMMA StepInvariant == MarkAssumption /\ IInv /\ [Next]_vars => IInv'
<1> SUFFICES ASSUME MarkAssumption, IInv, [Next]_vars PROVE IInv'
  OBVIOUS
<1>1. CASE Next
  <2>1. ASSUME NEW t \in Mutators, Mutate(t) PROVE IInv'
    <3>1. Types' /\ Phases' /\ Stores'
      BY <2>1, MutatorTypes DEF IInv
    <3>2. Outside' /\ Inside' /\ Garbage'
      BY <2>1, <3>1, MutatorOutside, MutatorInside, MutatorGarbage DEF IInv
    <3> QED BY <3>1, <3>2 DEF IInv
  <2>2. CASE Collect
    <3>1. Types' /\ Phases' /\ Stores'
      BY <2>2, CollectorTypes DEF IInv
    <3>2. Outside' /\ Inside' /\ Garbage'
      BY <2>2, <3>1, CollectorOutside, CollectorInside, CollectorGarbage DEF IInv
    <3> QED BY <3>1, <3>2 DEF IInv
  <2> QED BY <1>1, <2>1, <2>2 DEF Next, Mutate, Collect
<1>2. CASE UNCHANGED vars
  <2> USE <1>2 DEF vars, program, space, marking, sweep, ghosts
  <2>1. ProgramTypes' /\ SetTypes' /\ PhaseTypes' /\ Phases' /\ Stores'
    BY DEF IInv, Types, ProgramTypes, SetTypes, PhaseTypes, Phases, Stores, Carved, Objects
  <2>2. Roots' = Roots /\ Live' = Live /\ Usable' = Usable
    BY DEF Roots, Live, Usable, Reach
  <2>3. Outside'
    BY <2>2 DEF IInv, Outside, Unswept
  <2>4. Inside'
    BY <2>2, ZenonT(30) DEF IInv, Inside, Taken, Known, Logged
  <2>5. Garbage'
    BY <2>2 DEF IInv, Garbage, Carved, Limit
  <2> QED BY <2>1, <2>3, <2>4, <2>5 DEF IInv, Types
<1> QED BY <1>1, <1>2

\* The invariant says what is meant.
LEMMA InvariantImplies ==
    ASSUME MarkAssumption, IInv
    PROVE  LiveIsKept /\ GarbageFreed
<1>1. Live \cap free_list \subseteq exposed
  BY UsableIsLeast DEF MarkAssumption, IInv, Outside, Inside
<1>2. weak \in free_list => weak \in exposed
  BY UsableIsLeast, Addresses DEF MarkAssumption, IInv, Outside, Inside, Types, SetTypes
<1>3. GarbageFreed
  BY DEF GarbageFreed, IInv, Garbage
<1> QED BY <1>1, <1>2, <1>3 DEF LiveIsKept, SnapshotKept, WeakNeverDangles

\* The invariant is one.
THEOREM Invariance ==
    ASSUME MarkAssumption
    PROVE  Spec => []IInv
<1>1. Init => IInv
  BY InitInvariant
<1>2. IInv /\ [Next]_vars => IInv'
  BY StepInvariant
<1> QED BY <1>1, <1>2, PTL DEF Spec

\* What the program can reach, itself or through a weak pointer, is not on a free list,
\* whatever the mutators do between the pauses and however far the sweep has come, unless
\* the snapshot does not speak for it (gc-ms.c's SATB barrier, marking and lazy sweep).
THEOREM NothingKeptIsFreed ==
    ASSUME MarkAssumption
    PROVE  Spec => []LiveIsKept
BY InvariantImplies, Invariance, PTL

\* What was garbage at the first pause is free, or in use again, when the sweep is over.
THEOREM AllGarbageIsFreed ==
    ASSUME MarkAssumption
    PROVE  Spec => []GarbageFreed
BY InvariantImplies, Invariance, PTL
=============================================================================
