--------------------------- MODULE MachineProofs ---------------------------
(***************************************************************************)
(* Theorems about the smaller parts of the virtual machine, each under the *)
(* assumption its own module states: the sizes of the copying collector's  *)
(* spaces, and what interrupts a thread.                                   *)
(***************************************************************************)
EXTENDS Integers, TLAPS

----------------------------------------------------------------------------
(* HeapSizing.                                                             *)

CONSTANTS RECLAIM_FACTOR, OriginalSize, MaxAmount, MaxWords
VARIABLES stage, size, taken, spatic, e_next_newspace_size, amount, full, flips, filled

Sizing == INSTANCE HeapSizing

\* The space that is chosen next is never smaller than this one, but for a full collection,
\* which starts anew.  While a request waits
\* for the end of its collection, a second collection is under way only if the space was
\* chosen for what the first one found; and when the allocator goes on there is room.
\* A word is left between requests, but after one that filled the space.
SizesMatch ==
    /\ stage \in {"run", "copied", "room", "exhausted"} /\ full \in BOOLEAN /\ filled \in BOOLEAN
    /\ size \in Nat \ {0} /\ taken \in Nat /\ spatic \in Nat /\ e_next_newspace_size \in Nat
    /\ amount \in Nat /\ flips \in Nat
    /\ taken <= size
    /\ stage \in {"run", "room"} \/ (stage = "copied" /\ ~ full) => size <= e_next_newspace_size
    /\ stage = "run" => flips = 0 /\ (taken < size \/ filled)
    /\ stage = "exhausted" => flips <= 2 /\ filled
    /\ stage = "copied" => flips \in 1 .. 2
    /\ stage = "copied" /\ flips = 2 => ~ full /\ RECLAIM_FACTOR * taken + amount <= size
    /\ stage = "room" => flips \in 1 .. 2 /\ taken + amount <= size

\* The factor does not make less of anything.
LEMMA Reclaims ==
  ASSUME Sizing!SizingAssumption, NEW n \in Nat
  PROVE  RECLAIM_FACTOR * n \in Nat /\ n <= RECLAIM_FACTOR * n
<1>1. RECLAIM_FACTOR \in Nat /\ RECLAIM_FACTOR >= 1
  BY DEF Sizing!SizingAssumption
<1> QED
  BY <1>1

\* Nor does it make more of less.
LEMMA ReclaimsMonotonic ==
  ASSUME Sizing!SizingAssumption, NEW m \in Nat, NEW n \in Nat, m <= n
  PROVE  RECLAIM_FACTOR * m <= RECLAIM_FACTOR * n
<1>1. RECLAIM_FACTOR \in Nat
  BY DEF Sizing!SizingAssumption
<1> QED
  BY <1>1

\* A collection that begins finds room for what is alive, and a word to spare unless the
\* space had been filled.
LEMMA FlipFits ==
  ASSUME SizesMatch, stage = "run", NEW f \in BOOLEAN, full' = f, amount' \in Nat,
         Sizing!Flip(IF f THEN taken + spatic ELSE taken, f),
         spatic' = spatic, e_next_newspace_size' = e_next_newspace_size, filled' = filled
  PROVE  SizesMatch'
<1> DEFINE words == IF f THEN taken + spatic ELSE taken
<1>1. /\ flips' = 1 /\ taken' \in 0 .. words /\ words \in Nat
      /\ stage' = IF taken' > 0 /\ taken' >= size' THEN "exhausted" ELSE "copied"
  BY DEF Sizing!Flip, Sizing!Transport, SizesMatch
<1>2. /\ size' \in Nat \ {0} /\ words <= size' /\ (~ f => size' <= e_next_newspace_size)
      /\ words < size' \/ filled
  <2>1. CASE f
    BY <2>1 DEF Sizing!Flip, SizesMatch
  <2>2. CASE ~ f
    BY <2>2 DEF Sizing!Flip, SizesMatch
  <2> QED
    BY <2>1, <2>2
<1>3. taken' \in Nat /\ taken' <= size' /\ (taken' >= size' => filled)
  BY <1>1, <1>2
<1>4. CASE taken' > 0 /\ taken' >= size'
  BY <1>1, <1>2, <1>3, <1>4 DEF SizesMatch
<1>5. CASE ~ (taken' > 0 /\ taken' >= size')
  BY <1>1, <1>2, <1>3, <1>5 DEF SizesMatch
<1> QED
  BY <1>4, <1>5

\* The bounds on the sizes are kept.
LEMMA SizesMatchHolds ==
  ASSUME Sizing!SizingAssumption
  PROVE  Sizing!Spec => []SizesMatch
<1>1. Sizing!Init => SizesMatch
  <2>1. OriginalSize \in Nat \ {0}
    BY DEF Sizing!SizingAssumption
  <2>2. Sizing!Init => full \in BOOLEAN /\ filled \in BOOLEAN
    BY Zenon DEF Sizing!Init
  <2>3. Sizing!Init => stage = "run"
    BY DEF Sizing!Init
  <2>4. Sizing!Init => size \in Nat \ {0} /\ taken = 0 /\ spatic \in Nat
                       /\ e_next_newspace_size = size /\ amount = 0 /\ flips = 0
    BY <2>1 DEF Sizing!Init
  <2> QED
    BY <2>2, <2>3, <2>4 DEF SizesMatch
<1>2. SizesMatch /\ [Sizing!Next]_Sizing!vars => SizesMatch'
  <2> SUFFICES ASSUME SizesMatch, [Sizing!Next]_Sizing!vars PROVE SizesMatch'
    OBVIOUS
  <2>1. CASE Sizing!AllocateRoom
    BY <2>1 DEF Sizing!AllocateRoom, SizesMatch, Sizing!SizingAssumption
  <2>2. CASE Sizing!AllocateCollecting
    <3>1. PICK words \in 1 .. MaxAmount, f \in BOOLEAN :
            amount' = words /\ full' = f /\ Sizing!Flip(IF f THEN taken + spatic ELSE taken, f)
      BY <2>2 DEF Sizing!AllocateCollecting
    <3>2. words \in Nat /\ stage = "run" /\ spatic' = spatic /\ e_next_newspace_size' = e_next_newspace_size /\ filled' = filled
      BY <2>2 DEF Sizing!AllocateCollecting, Sizing!SizingAssumption
    <3> QED
      BY <3>1, <3>2, FlipFits
  <2>3. CASE Sizing!CollectExplicitly
    <3>1. PICK f \in BOOLEAN : full' = f /\ Sizing!Flip(IF f THEN taken + spatic ELSE taken, f)
      BY <2>3 DEF Sizing!CollectExplicitly
    <3>2. amount' = 0 /\ stage = "run" /\ spatic' = spatic /\ e_next_newspace_size' = e_next_newspace_size /\ filled' = filled
      BY <2>3 DEF Sizing!CollectExplicitly
    <3> QED
      BY <3>1, <3>2, FlipFits
  <2>4. CASE Sizing!Resize
    <3> DEFINE w == Sizing!Wanted
    <3>1. w \in Nat /\ taken + amount <= w /\ w = RECLAIM_FACTOR * taken + amount
      BY Reclaims DEF Sizing!Wanted, SizesMatch
    <3>2. CASE w > size /\ size - taken < amount
      <4>1. taken' \in 0 .. taken /\ RECLAIM_FACTOR * taken' \in Nat /\ RECLAIM_FACTOR * taken' <= RECLAIM_FACTOR * taken
        BY <2>4, <3>2, Reclaims, ReclaimsMonotonic DEF Sizing!Resize, Sizing!Transport, SizesMatch
      <4>2. flips = 1
        BY <2>4, <3>1, <3>2 DEF Sizing!Resize, SizesMatch
      <4>3. size' = w /\ e_next_newspace_size' = w /\ flips' = 2 /\ amount' = amount /\ ~ full'
            /\ spatic' = spatic /\ full' = full /\ filled' = filled
            /\ stage' = IF taken' > 0 /\ taken' >= size' THEN "exhausted" ELSE "copied"
        BY <2>4, <3>2, <4>2 DEF Sizing!Resize, Sizing!Transport
      <4>5. stage' = "copied" /\ w > 0
        BY <3>1, <3>2, <4>1, <4>3 DEF SizesMatch
      <4>4. taken' <= size' /\ RECLAIM_FACTOR * taken' + amount <= size'
        BY <3>1, <4>1, <4>3, Reclaims DEF SizesMatch
      <4> QED
        BY <3>1, <4>1, <4>3, <4>4, <4>5 DEF SizesMatch
    <3>3. CASE ~ (w > size /\ size - taken < amount)
      BY <2>4, <3>1, <3>3 DEF Sizing!Resize, SizesMatch
    <3> QED
      BY <3>2, <3>3
  <2>5. CASE Sizing!BecomeSpatic
    <3>1. RECLAIM_FACTOR * amount \in Nat /\ amount <= RECLAIM_FACTOR * amount
      BY Reclaims DEF SizesMatch
    <3> QED
      BY <2>5, <3>1 DEF Sizing!BecomeSpatic, SizesMatch, Sizing!SizingAssumption
  <2>6. CASE Sizing!Bump
    <3>1. full' \in BOOLEAN /\ filled' \in BOOLEAN /\ (filled' <=> taken' = size)
      BY <2>6, Zenon DEF Sizing!Bump
    <3>2. /\ stage = "room" /\ stage' = "run" /\ taken' = taken + amount /\ flips' = 0 /\ amount' = 0
          /\ size' = size /\ spatic' = spatic /\ e_next_newspace_size' = e_next_newspace_size
      BY <2>6 DEF Sizing!Bump
    <3> QED
      BY <3>1, <3>2 DEF SizesMatch
  <2>7. CASE UNCHANGED Sizing!vars
    BY <2>7 DEF Sizing!vars, SizesMatch
  <2> QED
    BY <2>1, <2>2, <2>3, <2>4, <2>5, <2>6, <2>7 DEF Sizing!Next
<1> QED
  BY <1>1, <1>2, PTL DEF Sizing!Spec

\* What is allocated lies inside the space although the allocator does not look again,
\* one more collection is always enough, and a collection copies into a space that has a
\* word to spare, so that its test of each copy never ends the process, unless a request
\* had filled the space before: for every factor, first size and sequence of requests.
THEOREM SpacesSuffice ==
  ASSUME Sizing!SizingAssumption
  PROVE  Sizing!Spec => []Sizing!RoomForAll
<1>1. SizesMatch => Sizing!RoomForAll
  BY DEF SizesMatch, Sizing!RoomForAll
<1> QED
  BY <1>1, SizesMatchHolds, PTL

----------------------------------------------------------------------------
(* Signals.                                                                *)

CONSTANTS Threads, MAX_CONSECUTIVE_CRASHES, CRASH_PROGRESS_INSTRS
VARIABLES signal_poll_flag, expired, alarms, handlers, crash_count, crash_progress,
          pc, process, owed, quiet, streak

Interrupts == INSTANCE Signals

InCrash == {t \in Threads : pc[t] \in {"handler", "recover"}}

SignalTypes ==
    /\ pc \in [Threads -> {"run", "instr", "intr_trap", "handler", "recover"}]
    /\ process \in {"alive", "aborted", "killed"} /\ handlers \subseteq Interrupts!Fatal
    /\ crash_count \in [Threads -> Nat] /\ crash_progress \in [Threads -> Nat]
    /\ quiet \in [Threads -> Nat] /\ streak \in [Threads -> Nat]

\* A disposition is the default one only while the thread that took it away is on its way
\* through the handler.
DispositionsReturn == handlers # Interrupts!Fatal => InCrash # {}

\* The counters of the code and what they are there to measure: between crashes the
\* progress is the number of instructions begun, and the crashes that are counted are no
\* more than the crashes in a row.
CountersMeasure ==
    \A t \in Threads :
        /\ crash_count[t] <= streak[t]
        /\ crash_count[t] # 0 =>
              /\ quiet[t] <= CRASH_PROGRESS_INSTRS
              /\ pc[t] # "recover" => crash_progress[t] = quiet[t]
              /\ pc[t] = "recover" => quiet[t] = 0

\* Why the process ended.
EndsWithReason ==
    /\ process = "aborted" => \E t \in Threads : crash_count[t] > MAX_CONSECUTIVE_CRASHES
    /\ process = "killed" => \E t, u \in InCrash : t # u

SignalsInv == SignalTypes /\ DispositionsReturn /\ CountersMeasure /\ EndsWithReason

LEMMA SignalTypesStep ==
  ASSUME Interrupts!SignalsAssumption, SignalTypes, [Interrupts!Next]_Interrupts!vars
  PROVE  SignalTypes'
<1>a. MAX_CONSECUTIVE_CRASHES \in Nat /\ CRASH_PROGRESS_INSTRS \in Nat
  BY DEF Interrupts!SignalsAssumption
<1>1. ASSUME NEW t \in Threads, Interrupts!Dispatch(t) PROVE SignalTypes'
  BY <1>a, <1>1 DEF Interrupts!Dispatch, Interrupts!Goto, Interrupts!Begun, SignalTypes
<1>2. ASSUME NEW t \in Threads, Interrupts!CrashHandler(t) PROVE SignalTypes'
  BY <1>a, <1>2 DEF Interrupts!CrashHandler, Interrupts!Goto, Interrupts!polling, SignalTypes
<1>3. ASSUME NEW t \in Threads, NEW sig \in Interrupts!Fatal, Interrupts!Fault(t, sig) PROVE SignalTypes'
  BY <1>3 DEF Interrupts!Fault, Interrupts!Goto, Interrupts!polling, SignalTypes
<1>4. ASSUME NEW t \in Threads, Interrupts!Recover(t) PROVE SignalTypes'
  BY <1>4 DEF Interrupts!Recover, Interrupts!Goto, SignalTypes
<1>5. ASSUME NEW t \in Threads, Interrupts!Execute(t) \/ Interrupts!PollSignals(t) \/ Interrupts!IntrTrap(t)
      PROVE  SignalTypes'
  BY <1>5 DEF Interrupts!Execute, Interrupts!PollSignals, Interrupts!IntrTrap, Interrupts!Goto,
       Interrupts!crashing, Interrupts!polling, SignalTypes
<1>6. ASSUME Interrupts!IntrProc \/ UNCHANGED Interrupts!vars PROVE SignalTypes'
  BY <1>6 DEF Interrupts!IntrProc, Interrupts!vars, Interrupts!crashing, SignalTypes
<1> QED
  BY <1>1, <1>2, <1>3, <1>4, <1>5, <1>6 DEF Interrupts!Next, Interrupts!Over

LEMMA SignalsStep ==
  ASSUME Interrupts!SignalsAssumption, SignalsInv, [Interrupts!Next]_Interrupts!vars
  PROVE  DispositionsReturn' /\ CountersMeasure' /\ EndsWithReason'
<1>a. MAX_CONSECUTIVE_CRASHES \in Nat /\ CRASH_PROGRESS_INSTRS \in Nat
  BY DEF Interrupts!SignalsAssumption
<1> USE DEF SignalsInv
<1>1. ASSUME NEW t \in Threads, Interrupts!Dispatch(t)
      PROVE  DispositionsReturn' /\ CountersMeasure' /\ EndsWithReason'
  <2>0. /\ process = "alive" /\ process' = process /\ pc[t] = "run" /\ pc' = [pc EXCEPT ![t] = "instr"]
        /\ handlers' = handlers /\ streak' = streak
    BY <1>1 DEF Interrupts!Dispatch, Interrupts!Goto
  <2>1. InCrash' = InCrash
    BY <2>0 DEF InCrash, SignalTypes
  <2>2. CountersMeasure'
    BY <1>a, <1>1, <2>0 DEF Interrupts!Dispatch, Interrupts!Begun, CountersMeasure, SignalTypes
  <2> QED
    BY <2>0, <2>1, <2>2 DEF DispositionsReturn, EndsWithReason
<1>2. ASSUME NEW t \in Threads, Interrupts!CrashHandler(t)
      PROVE  DispositionsReturn' /\ CountersMeasure' /\ EndsWithReason'
  <2>0. /\ process = "alive" /\ pc[t] = "handler" /\ pc' = [pc EXCEPT ![t] = "recover"]
        /\ handlers' = handlers /\ crash_progress' = crash_progress
        /\ crash_count' = [crash_count EXCEPT ![t] = @ + 1] /\ quiet' = [quiet EXCEPT ![t] = 0]
        /\ streak' = [streak EXCEPT ![t] = IF quiet[t] > CRASH_PROGRESS_INSTRS THEN 1 ELSE @ + 1]
        /\ process' = IF crash_count'[t] > MAX_CONSECUTIVE_CRASHES THEN "aborted" ELSE process
    BY <1>2 DEF Interrupts!CrashHandler, Interrupts!Goto, Interrupts!polling
  <2>1. InCrash' = InCrash
    BY <2>0 DEF InCrash, SignalTypes
  <2>2. CountersMeasure'
    BY <1>a, <2>0 DEF CountersMeasure, SignalTypes
  <2>3. EndsWithReason'
    BY <2>0 DEF EndsWithReason
  <2> QED
    BY <2>0, <2>1, <2>2, <2>3 DEF DispositionsReturn
<1>3. ASSUME NEW t \in Threads, NEW sig \in Interrupts!Fatal, Interrupts!Fault(t, sig)
      PROVE  DispositionsReturn' /\ CountersMeasure' /\ EndsWithReason'
  <2>0. /\ process = "alive" /\ pc[t] = "instr" /\ pc' = [pc EXCEPT ![t] = "handler"]
        /\ crash_count' = crash_count /\ crash_progress' = crash_progress /\ quiet' = quiet /\ streak' = streak
        /\ process' = IF sig \in handlers THEN process ELSE "killed"
    BY <1>3 DEF Interrupts!Fault, Interrupts!Goto, Interrupts!polling
  <2>1. InCrash' = InCrash \cup {t} /\ t \notin InCrash
    BY <2>0 DEF InCrash, SignalTypes
  <2>2. CountersMeasure'
    BY <2>0 DEF CountersMeasure, SignalTypes
  <2>3. EndsWithReason'
    BY <1>3, <2>0, <2>1 DEF EndsWithReason, DispositionsReturn
  <2> QED
    BY <2>1, <2>2, <2>3 DEF DispositionsReturn
<1>4. ASSUME NEW t \in Threads, Interrupts!Recover(t)
      PROVE  DispositionsReturn' /\ CountersMeasure' /\ EndsWithReason'
  <2>0. /\ process = "alive" /\ process' = process /\ pc[t] = "recover" /\ pc' = [pc EXCEPT ![t] = "run"]
        /\ handlers' = Interrupts!Fatal /\ crash_progress' = [crash_progress EXCEPT ![t] = 0]
        /\ crash_count' = crash_count /\ quiet' = quiet /\ streak' = streak
    BY <1>4 DEF Interrupts!Recover, Interrupts!Goto
  <2>1. CountersMeasure'
    BY <2>0 DEF CountersMeasure, SignalTypes
  <2> QED
    BY <2>0, <2>1 DEF DispositionsReturn, EndsWithReason, Interrupts!Fatal
<1>5. ASSUME NEW t \in Threads, Interrupts!Execute(t) \/ Interrupts!PollSignals(t) \/ Interrupts!IntrTrap(t)
      PROVE  DispositionsReturn' /\ CountersMeasure' /\ EndsWithReason'
  <2>0. /\ process = "alive" /\ pc[t] \in {"instr", "intr_trap"}
        /\ \E to \in {"run", "intr_trap"} : pc' = [pc EXCEPT ![t] = to]
        /\ UNCHANGED <<handlers, crash_count, crash_progress, process, quiet, streak>>
    BY <1>5 DEF Interrupts!Execute, Interrupts!PollSignals, Interrupts!IntrTrap, Interrupts!Goto, Interrupts!crashing
  <2>1. InCrash' = InCrash
    BY <2>0 DEF InCrash, SignalTypes
  <2>2. CountersMeasure'
    BY <2>0 DEF CountersMeasure, SignalTypes
  <2> QED
    BY <2>0, <2>1, <2>2 DEF DispositionsReturn, EndsWithReason
<1>6. ASSUME Interrupts!IntrProc \/ UNCHANGED Interrupts!vars
      PROVE  DispositionsReturn' /\ CountersMeasure' /\ EndsWithReason'
  <2>0. UNCHANGED <<pc, handlers, crash_count, crash_progress, process, quiet, streak>>
    BY <1>6 DEF Interrupts!IntrProc, Interrupts!vars, Interrupts!crashing
  <2> QED
    BY <2>0 DEF DispositionsReturn, CountersMeasure, EndsWithReason, InCrash, Interrupts!Fatal
<1> QED
  BY <1>1, <1>2, <1>3, <1>4, <1>5, <1>6 DEF Interrupts!Next, Interrupts!Over

\* Crashes end the process only when they should: it is aborted only when a thread has
\* crashed more often in a row than it may, and killed only when two threads were in their
\* handlers at once; and ^C is answered, for any number of threads and whatever limits.
THEOREM CrashesEndOnlyAsMeant ==
  ASSUME Interrupts!SignalsAssumption
  PROVE  Interrupts!Spec => [](Interrupts!InterruptKept /\ Interrupts!EndsOnlyAsMeant)
<1>1. Interrupts!Init => SignalsInv
  <2> SUFFICES ASSUME Interrupts!Init PROVE SignalsInv
    OBVIOUS
  <2>1. CRASH_PROGRESS_INSTRS \in Nat
    BY DEF Interrupts!SignalsAssumption
  <2>2. SignalTypes
    BY DEF Interrupts!Init, SignalTypes
  <2>3. DispositionsReturn /\ CountersMeasure /\ EndsWithReason
    BY <2>1 DEF Interrupts!Init, DispositionsReturn, CountersMeasure, EndsWithReason
  <2> QED
    BY <2>2, <2>3 DEF SignalsInv
<1>2. SignalsInv /\ [Interrupts!Next]_Interrupts!vars => SignalsInv'
  BY SignalTypesStep, SignalsStep DEF SignalsInv
<1>3. SignalsInv => Interrupts!EndsOnlyAsMeant
  <2> SUFFICES ASSUME SignalsInv PROVE Interrupts!EndsOnlyAsMeant
    OBVIOUS
  <2>1. ASSUME process = "aborted" PROVE \E t \in Threads : streak[t] > MAX_CONSECUTIVE_CRASHES
    <3>1. PICK t \in Threads : crash_count[t] > MAX_CONSECUTIVE_CRASHES
      BY <2>1 DEF SignalsInv, EndsWithReason
    <3>2. crash_count[t] \in Nat /\ streak[t] \in Nat /\ crash_count[t] <= streak[t] /\ MAX_CONSECUTIVE_CRASHES \in Nat
      BY DEF SignalsInv, SignalTypes, CountersMeasure, Interrupts!SignalsAssumption
    <3> QED
      BY <3>1, <3>2
  <2> QED
    BY <2>1 DEF SignalsInv, EndsWithReason, Interrupts!EndsOnlyAsMeant, InCrash
<1>4. Interrupts!Init => Interrupts!InterruptKept
  BY DEF Interrupts!Init, Interrupts!InterruptKept
<1>5. Interrupts!InterruptKept /\ [Interrupts!Next]_Interrupts!vars => Interrupts!InterruptKept'
  <2> SUFFICES ASSUME Interrupts!InterruptKept, [Interrupts!Next]_Interrupts!vars PROVE Interrupts!InterruptKept'
    OBVIOUS
  <2>1. ASSUME NEW t \in Threads, Interrupts!IntrTrap(t) PROVE Interrupts!InterruptKept'
    BY <2>1 DEF Interrupts!IntrTrap, Interrupts!InterruptKept
  <2>2. ASSUME NEW t \in Threads,
               \/ Interrupts!Dispatch(t) \/ Interrupts!Execute(t) \/ Interrupts!PollSignals(t)
               \/ \E sig \in Interrupts!Fatal : Interrupts!Fault(t, sig)
               \/ Interrupts!CrashHandler(t) \/ Interrupts!Recover(t)
        PROVE  UNCHANGED <<owed, signal_poll_flag>>
    BY <2>2 DEF Interrupts!Dispatch, Interrupts!Execute, Interrupts!PollSignals, Interrupts!Fault,
         Interrupts!CrashHandler, Interrupts!Recover, Interrupts!polling
  <2>3. ASSUME Interrupts!IntrProc PROVE Interrupts!InterruptKept'
    BY <2>3 DEF Interrupts!IntrProc, Interrupts!InterruptKept
  <2>4. ASSUME UNCHANGED Interrupts!vars PROVE UNCHANGED <<owed, signal_poll_flag>>
    BY <2>4 DEF Interrupts!vars
  <2> QED
    BY <2>1, <2>2, <2>3, <2>4 DEF Interrupts!Next, Interrupts!Over, Interrupts!InterruptKept
<1> QED
  BY <1>1, <1>2, <1>3, <1>4, <1>5, PTL DEF Interrupts!Spec
=============================================================================
