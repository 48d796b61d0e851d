------------------------------ MODULE MCMachine ------------------------------
(***************************************************************************)
(* The parts of the virtual machine that are modelled by themselves, each  *)
(* in a world of its own: a behaviour picks a part and is a behaviour of   *)
(* that part from then on.  The parts share the registers s1 .. s15, so    *)
(* that one run checks them all; what a part does not use stays Unused.    *)
(***************************************************************************)
EXTENDS Integers, Sequences, TLC

CONSTANTS no_pair, q1, q2, q3, x, y

VARIABLES part, s1, s2, s3, s4, s5, s6, s7, s8, s9, s10, s11, s12, s13, s14, s15

vars == <<part, s1, s2, s3, s4, s5, s6, s7, s8, s9, s10, s11, s12, s13, s14, s15>>

\* The registers from one on, for the parts that need fewer.
from15 == <<s15>>
from14 == <<s14, from15>>
from12 == <<s12, s13, from14>>
from10 == <<s10, s11, from12>>
from9  == <<s9, from10>>
from7  == <<s7, s8, from9>>
from6  == <<s6, from7>>
from3  == <<s3, s4, s5, from6>>

Unused == ""

----------------------------------------------------------------------------
(* Marking: two mutators, of which one follows weak pointers.              *)

Marking == INSTANCE ConcurrentMark WITH
    HeapSize <- 2, Mutators <- {1, 2}, StackDepth <- 2, Shallow <- {2}, SweepBlock <- 1, WeakLoads <- {1},
    field <- s1, roots <- s2, weak <- s3, write <- s4, free_point <- s5, free_list <- s6,
    phase <- s7, mark <- s8, mark_stack <- s9, satb <- s10, sweep_limit <- s11,
    lazy_sweep_cursor <- s12, lazy_sweep_active <- s13, exposed <- s14, doomed <- s15

(* The words of the heap: classes of one, two, four and eight words.       *)

Sweep == INSTANCE SweepHeap WITH
    HeapWords <- 9, class_max <- <<1, 2, 4, 8>>, Sizes <- {1, 3, 4}, Threads <- {1, 2},
    TlabSize <- 4, SweepBlock <- 3,
    held <- s1, objstart <- s2, mark <- s3, free_point <- s4, entries <- s5,
    free_list_total_words <- s6, tlab <- s7, sweep_limit <- s8, cursor <- s9,
    lazy_sweep_active <- s10, setting <- s11, intact <- s12

(* Copying: an object of two words, a naked cell, an object of one word.   *)

HeapLayout == (1 :> 2) @@ (4 :> 1)
IntCell    == {<<"int", 0>>}
RefCells   == {<<"ref", 1>>, <<"ref", 4>>}
AnyCells   == IntCell \cup RefCells \cup {<<"loc", 2>>, <<"loc", 3>>}

Copying == INSTANCE CopyingGc WITH
    Layout <- HeapLayout, Naked <- {3}, RootCount <- 3, LateRoots <- {3}, Pointers <- AnyCells,
    Fillings <- {<<a, b, c, d>> : a \in IntCell \cup RefCells, b \in AnyCells, c \in AnyCells, d \in IntCell \cup RefCells},
    stage <- s1, next <- s2, mem <- s3, free_point <- s4, roots <- s5, weak <- s6,
    mem0 <- s7, roots0 <- s8, weak0 <- s9

Sizing == INSTANCE HeapSizing WITH
    RECLAIM_FACTOR <- 3, OriginalSize <- 3, MaxAmount <- 4, MaxWords <- 7,
    stage <- s1, size <- s2, taken <- s3, spatic <- s4, e_next_newspace_size <- s5,
    amount <- s6, full <- s7, flips <- s8, filled <- s9

Weak == INSTANCE WeakTable WITH
    Objects <- {1, 2, 3}, FirstTable <- 1, FirstHash <- 3, MostSlots <- 4, Keys <- {0, 1, 2}, Moves <- 2,
    state <- s1, key <- s2, wp_table <- s3, wp_table_size <- s4, wp_hashtable <- s5,
    wp_free_list <- s6, issued <- s7, moves <- s8

(* The value stack, where a continuation leaves two values, and the other. *)

ValueStack == INSTANCE StackBuffer WITH
    Size <- 5, FillTarget <- 2, MaxSegment <- 2, Deepest <- 3, Kept <- 2,
    Pushes <- {<<1>>, <<2>>, <<1, 2>>}, MaxHeight <- 7, MaxCaptured <- 1,
    stack <- s1, conts <- s2

ContextStack == INSTANCE StackBuffer WITH
    Size <- 5, FillTarget <- 2, MaxSegment <- 2, Deepest <- 3, Kept <- 0,
    Pushes <- {<<1>>, <<2>>, <<1, 2>>}, MaxHeight <- 7, MaxCaptured <- 1,
    stack <- s1, conts <- s2

Arithmetic == INSTANCE Fixnums WITH
    WordSize <- 6, instr <- s1, x <- s2, y <- s3, result <- s4, native <- s5

Interpreter == INSTANCE Instructions WITH
    op <- s1, step <- s2, stack <- s3, regs <- s4, moves <- s5, contexts <- s6, tail <- s7,
    nargs <- s8, stale <- s9

(* Calls of one operation on the instances of a chain of three types.      *)

ChainSupers == [object |-> <<>>, A |-> <<"object">>, B |-> <<"A", "object">>]
ChainOrders == [object |-> <<"object">>, A |-> <<"A", "object">>, B |-> <<"B", "A", "object", "object">>]

Calls == INSTANCE CallSites WITH
    Threads <- {1}, SuperList <- ChainSupers, SearchOrder <- ChainOrders, MaxInstalls <- 2, MaxLoads <- 1,
    lambda <- s1, alist <- s2, cache <- s3, pc <- s4, arg <- s5, meth <- s6, off <- s7,
    right <- s8, installs <- s9, global <- s10, site <- s11, loads <- s12, jumped <- s13

(* Several arguments: a type and its two-parent subtype, a promise.        *)

Circ  == <<"circ", "circ">>
Sqr   == <<"sqr", "sqr">>
Round == <<"round", "round">>
Later == <<"promise", "sqr">>

Supers == [object |-> <<>>, circ |-> <<"object">>, sqr |-> <<"object">>, round |-> <<"circ", "sqr">>,
           forcible |-> <<>>, promise |-> <<"forcible", "object">>, bare |-> <<>>]
Orders == [object |-> <<"object">>, circ |-> <<"circ", "object">>, sqr |-> <<"sqr", "object">>,
           round |-> <<"round", "circ", "object", "sqr", "object">>, forcible |-> <<"forcible">>,
           promise |-> <<"promise", "forcible", "object">>, bare |-> <<"bare">>]

Dispatch == INSTANCE MultiMethods WITH
    Homes <- {"object", "circ"}, Tuples <- {<<"sqr">>, <<"promise">>, <<"object", "sqr">>},
    ArgLists <- {<<>>, <<Circ, Sqr>>, <<Round, Sqr>>, <<Circ, Round>>, <<Circ, <<"bare", "bare">>>>, <<Circ, Later>>,
                 <<<<"promise", "circ">>, Sqr>>, <<Circ, Sqr, Sqr>>, <<Circ, Sqr, Later>>},
    SuperList <- Supers, SearchOrder <- Orders, CacheLines <- 2, MaxInstalls <- 3,
    lambda <- s1, alist <- s2, multi <- s3, cache <- s4, pending <- s5, installed <- s6

Interrupts == INSTANCE Signals WITH
    Threads <- {0, 1}, MAX_CONSECUTIVE_CRASHES <- 3, CRASH_PROGRESS_INSTRS <- 2,
    signal_poll_flag <- s1, expired <- s2, alarms <- s3, handlers <- s4, crash_count <- s5,
    crash_progress <- s6, pc <- s7, process <- s8, owed <- s9, quiet <- s10, streak <- s11

(* The scheduler's queue and the queues of two futures.                    *)

Lists == INSTANCE ListQueue WITH
    Nil <- no_pair, Queues <- {q1, q2, q3}, Objects <- {x, y}, MaxPairs <- 4,
    car <- s1, cdr <- s2, used <- s3, head <- s4, last <- s5, given <- s6, taken <- s7, entered <- s8

(* Dynamic state, with guards that come back: Windings says why.           *)

Winds == INSTANCE Windings WITH
    GuardsThrow <- FALSE, Values <- {1}, MaxWinds <- 3, MaxDepth <- 4, MaxConts <- 1,
    stack <- s1, windings <- s2, wind_count <- s3, bindings <- s4, conts <- s5, cleanup <- s6,
    todo <- s7, inside <- s8, made <- s9

(* Integers: base 8 in fixnums of 8 bits, so that least-positive-bignum has *)
(* three digits, of which the first is 2, as in a world of 64 bits.  The    *)
(* numbers lie around the limits of fixnums and of digits; 280 by 47 and    *)
(* 562 by 94 are divided with an estimate that is two too large.            *)

Magnitudes == (0 .. 3) \cup (7 .. 9) \cup {47} \cup (63 .. 65) \cup {94} \cup (126 .. 130) \cup {255, 256}
                \cup {280, 281} \cup (511 .. 513) \cup {562, 563, 1000, 4095, 4096}
Operands   == Magnitudes \cup {-m : m \in Magnitudes}

Integral == INSTANCE Bignums WITH
    Radix <- 2, DigitsPerChunk <- 3, FixnumBits <- 8, TradeoffPoint <- 2, ChunkSize <- 4,
    Xs <- Operands, Ys <- Operands,
    op <- s1, x <- s2, y <- s3, result <- s4, printed <- s5

Division == INSTANCE DivisionCache WITH
    Processes <- {1}, Dividends <- {5, 6, 7}, Divisors <- {2, 3},
    last_inlist <- s1, last_divisor <- s2, last_quorem <- s3, last_short_divisor <- s4,
    fix_divisor <- s5, pc <- s6, inlist <- s7, divisor <- s8, digit <- s9, answer <- s10

(* World files: three words, of which two are in spatic space.             *)

World == INSTANCE WorldImage WITH
    Spatic <- {10, 11}, New <- {20}, LoadedAt <- 30, REFBUFSIZ <- 2, NewEnd <- 22, Disturbances <- 1,
    stage <- s1, just_new <- s2, dump_base <- s3, mem <- s4, e_boot_code <- s5, wp_table <- s6,
    free_point <- s7, memptr <- s8, refbuf <- s9, file <- s10, full <- s11, loaded <- s12,
    stores <- s13, allocations <- s14

(* The cold linker: files with one block and with three, in three orders,  *)
(* whose blocks refer to constants with common parts, to variables that    *)
(* are symbols too, and to each other.  A word holds two opcodes; the      *)
(* words that patches go to are empty.                                     *)

Preloaded == <<"NIL", "T", "CONS-PAIR", "%CODE-VECTOR", "STRING", "%%SYMLOC", "%%NSYMS", "%%SYMSIZE", "%%VARLOC", "%%NVARS">>

Empty      == <<"nil">>
List1(a)   == <<"pair", a, Empty>>
List2(a, b) == <<"pair", a, List1(b)>>
SymbolA    == <<"sym", "A">>
Strings    == List2(<<"str", "">>, <<"str", "">>)
Constants1 == {<<"int", 5>>, Empty, SymbolA, <<"sym", "NIL">>, <<"str", "hi">>, List2(SymbolA, SymbolA),
               List2(List1(SymbolA), SymbolA), <<"pair", List1(SymbolA), List1(SymbolA)>>, <<"pair", <<"int", 0>>, SymbolA>>, Strings}
Constants2 == {<<"int", 5>>, List1(SymbolA), Strings}

Block(opcodes, patches) == [opcodes |-> <<0, 0>> \o opcodes \o <<24, 0>>, patches |-> <<<<"constant", 0, Empty>>>> \o patches]
ObjectFiles(c, d, v) ==
    LET short  == <<Block(<<15, 0, 0, 0, 0, 0>>, << <<"constant", 4, c>>, <<"variable", 6, v>> >>)>>
        top    == Block(<<15, 0, 0, 0, 0, 0>>, << <<"code", 4, 2>>, <<"code", 6, 3>> >>)
        inner1 == Block(<<15, 0, 0, 0>>, << <<"constant", 4, d>> >>)
        inner2 == Block(<<15, 0, 0, 0, 7, 8, 0, 0>>, << <<"variable", 4, v>>, <<"code", 8, 2>> >>)
    IN  {<<short, <<top, inner1, inner2>>>>, <<<<top, inner1, inner2>>, short>>, <<<<top, inner2, inner1>>, <<top, inner1, inner1>>, short>>}

Linker == INSTANCE ColdLinker WITH
    instrs_per_ref <- 2, vars_to_preload <- Preloaded,
    FileLists <- UNION {ObjectFiles(c, d, v) : c \in Constants1, d \in Constants2, v \in {"X", "T"}},
    phase <- s1, files <- s2, counts <- s3, world <- s4, blk_table <- s5, at <- s6

ASSUME MachineAssumption ==
    /\ Marking!MarkAssumption /\ Sweep!SweepAssumption /\ Sizing!SizingAssumption
    /\ Weak!WeakAssumption /\ ValueStack!StackAssumption /\ ContextStack!StackAssumption
    /\ Arithmetic!FixnumAssumption /\ Calls!CacheAssumption /\ Calls!SitesAssumption /\ Dispatch!MultiAssumption
    /\ Interrupts!SignalsAssumption /\ Lists!ListQueueAssumption /\ Winds!WindingsAssumption
    /\ Integral!BignumsAssumption /\ Division!DivisionAssumption /\ World!WorldAssumption

----------------------------------------------------------------------------
Blank14 == s14 = Unused /\ s15 = Unused
Blank12 == s12 = Unused /\ s13 = Unused /\ Blank14
Blank10 == s10 = Unused /\ s11 = Unused /\ Blank12
Blank9  == s9 = Unused /\ Blank10
Blank7  == s7 = Unused /\ s8 = Unused /\ Blank9
Blank6  == s6 = Unused /\ Blank7
Blank3  == s3 = Unused /\ s4 = Unused /\ s5 = Unused /\ Blank6

Init ==
    \/ part = "marking" /\ Marking!Init
    \/ part = "sweep" /\ Sweep!Init /\ s13 = Unused /\ Blank14
    \/ part = "copying" /\ Copying!Init /\ Blank10
    \/ part = "sizing" /\ Sizing!Init /\ Blank10
    \/ part = "weak" /\ Weak!Init /\ Blank9
    \/ part = "values" /\ ValueStack!Init /\ Blank3
    \/ part = "contexts" /\ ContextStack!Init /\ Blank3
    \/ part = "arithmetic" /\ Arithmetic!Init /\ Blank6
    \/ part = "interpreter" /\ Interpreter!Init /\ Blank10
    \/ part = "calls" /\ Calls!SitesInit /\ Blank14
    \/ part = "dispatch" /\ Dispatch!Init /\ Blank7
    \/ part = "interrupts" /\ Interrupts!Init /\ Blank12
    \/ part = "lists" /\ Lists!Init /\ Blank9
    \/ part = "winds" /\ Winds!Init /\ Blank10
    \/ part = "integers" /\ Integral!Init /\ Blank6
    \/ part = "division" /\ Division!Init /\ s11 = Unused /\ Blank12
    \/ part = "world" /\ World!Init /\ s15 = Unused
    \/ part = "linker" /\ Linker!Init /\ Blank7

Next ==
    \/ part = "marking" /\ Marking!Next /\ UNCHANGED part
    \/ part = "sweep" /\ s12 /\ Sweep!Next /\ UNCHANGED <<part, s13, from14>>
    \/ part = "copying" /\ Copying!Next /\ UNCHANGED <<part, from10>>
    \/ part = "sizing" /\ Sizing!Next /\ UNCHANGED <<part, from10>>
    \/ part = "weak" /\ Weak!Next /\ UNCHANGED <<part, from9>>
    \/ part = "values" /\ ValueStack!Next /\ UNCHANGED <<part, from3>>
    \/ part = "contexts" /\ ContextStack!Next /\ UNCHANGED <<part, from3>>
    \/ part = "arithmetic" /\ Arithmetic!Next /\ UNCHANGED <<part, from6>>
    \/ part = "interpreter" /\ Interpreter!Next /\ UNCHANGED <<part, from10>>
    \/ part = "calls" /\ Calls!SitesNext /\ UNCHANGED <<part, from14>>
    \/ part = "dispatch" /\ Dispatch!Next /\ UNCHANGED <<part, from7>>
    \/ part = "interrupts" /\ Interrupts!Next /\ UNCHANGED <<part, from12>>
    \/ part = "lists" /\ Lists!Next /\ UNCHANGED <<part, from9>>
    \/ part = "winds" /\ Winds!Next /\ UNCHANGED <<part, from10>>
    \/ part = "integers" /\ Integral!Next /\ UNCHANGED <<part, from6>>
    \/ part = "division" /\ Division!Next /\ UNCHANGED <<part, s11, from12>>
    \/ part = "world" /\ World!Next /\ UNCHANGED <<part, s15>>
    \/ part = "linker" /\ Linker!Next /\ UNCHANGED <<part, from7>>

Spec == Init /\ [][Next]_vars

----------------------------------------------------------------------------
(* The properties of the parts; their modules say what the code does.      *)

\* Concurrent marking: no object that the program can reach, and none that a weak
\* pointer denotes, is put on a free list (ConcurrentMark says with what exceptions).
LiveIsKept == part = "marking" => Marking!LiveIsKept

\* Concurrent marking: what was garbage when a cycle began is free after its sweep.
GarbageFreed == part = "marking" => Marking!GarbageFreed

\* The mark-sweep allocator: no word is handed out twice, the count of free words is what
\* the lists hold, and a locative leads to the start of its own object, as long as no
\* plain BM_SET has undone the atomic one with which a thread takes words from its buffer.
HeapPartition ==
    part = "sweep" => Sweep!NoWordTwice /\ Sweep!TotalIsListed /\ Sweep!InteriorFound

\* The copying collector: the program sees the heap that it had, weak pointers keep
\* exactly what is alive, the request that caused the collection fits into the space
\* that was chosen, after at most one more collection, and so do the survivors, with
\* the word to spare that the collector insists on, unless a request had filled the
\* space before to its last word.
SameGraph ==
    /\ part = "copying" => Copying!SameGraph /\ Copying!WeakExactly
    /\ part = "sizing" => Sizing!RoomForAll

\* Weak pointers: an object has one number as long as it lives, and the search of the
\* hash table ends at it.
OneWeakPointerEach == part = "weak" => Weak!OneWeakPointerEach /\ Weak!ProbesEnd

\* Stacks: no check for values that exist ends in a fatal error, and the count of
\* flushed values is right.
NeverFatal ==
    /\ part = "values" => ValueStack!NeverFatal /\ ValueStack!TopVisible
    /\ part = "contexts" => ContextStack!NeverFatal

\* Stacks: the buffer and its segments are the sequence that pushes, pops, throws and
\* continuations make.
ImplementsStack ==
    /\ part = "values" => ValueStack!Held!Init
    /\ part = "contexts" => ContextStack!Held!Init
    /\ [][/\ part = "values" => [ValueStack!Held!Next]_(ValueStack!Held!vars)
          /\ part = "contexts" => [ContextStack!Held!Next]_(ContextStack!Held!vars)]_vars

\* Arithmetic: every instruction and its native twin give the number or trap, the digit
\* algorithms that traps lead to give the number in its one form, but for one division,
\* and what a process remembers of its last division is of that division.
ArithmeticExact ==
    /\ part = "arithmetic" => Arithmetic!ArithmeticExact
    /\ part = "integers" => Integral!IntegersExact
    /\ part = "division" => Division!QuotientRight

\* The interpreter: no instruction uses a local from before a collection, and traps
\* find their operands and come back where they should, but for the divergent ones.
OperandsKept == part = "interpreter" => Interpreter!NoStaleUse /\ Interpreter!TrapProtocolElsewhere

\* Calls: methods that are cached, in the operation or at the call site, are what a
\* search of the type hierarchy finds, but at the site of a lambda that ADD-METHOD has
\* replaced; and of the methods on several arguments the one runs that the manual says,
\* whatever was added and remembered before, where it says one thing (see Contested).
CallsRight ==
    /\ part = "calls" => Calls!CallRight /\ Calls!SiteHitRight
    /\ part = "dispatch" => Dispatch!DispatchRight

\* Signals: ^C is not lost, and crashes end the process only when they should.
SignalsHandled == part = "interrupts" => Interrupts!InterruptKept /\ Interrupts!EndsOnlyAsMeant

\* Dynamic state: after every jump the list of windings, its count, and the fluid bindings
\* are those of the frames the program is in, and no guard ran twice or was left out.
WindsMatch == part = "winds" => Winds!WindsMatch /\ Winds!GuardsAlternate

\* World files: a world that is dumped is loaded as it was, or refused when the dump was
\* cut short; and the world that the cold linker makes is what the object files say.
WorldKept ==
    /\ part = "world" => World!WorldKept
    /\ part = "linker" => Linker!Linked

\* The scheduler's queues: pairs with an old last pair are still first-in first-out.
ImplementsFifo ==
    /\ part = "lists" => Lists!Fifo!Init
    /\ [][part = "lists" => [Lists!Fifo!Next]_(Lists!Fifo!vars)]_vars
==============================================================================
