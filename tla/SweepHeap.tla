------------------------------ MODULE SweepHeap ------------------------------
(***************************************************************************)
(* The words of the mark-sweep heap: the bitmap of object starts, size     *)
(* classes and free lists, the threads' allocation buffers, and the sweep  *)
(* that turns unmarked extents into entries of the free lists.  What is    *)
(* marked is the business of module ConcurrentMark: here a collection is   *)
(* one step that marks what the program still holds.                       *)
(***************************************************************************)
EXTENDS Integers, Sequences, FiniteSets, FiniteSetsExt

CONSTANTS
    HeapWords,      \* new_space holds the words 1 .. HeapWords
    class_max,      \* words of the biggest object of each size class
    Sizes,          \* words that the program asks for
    Threads,
    TlabSize, SweepBlock

SweepAssumption ==
    /\ HeapWords \in Nat /\ TlabSize \in Nat \ {0} /\ SweepBlock \in Nat \ {0}
    /\ class_max \in Seq(Nat)
    /\ \A n \in Sizes : n \in Nat \ {0} /\ n <= class_max[Len(class_max)]

VARIABLES
    held,               \* the program's objects: address |-> words asked for
    objstart, mark,     \* the bitmaps
    free_point,
    entries,            \* the free lists: address |-> actual size
    free_list_total_words,
    tlab,               \* cursor and end of each thread's buffer
    sweep_limit, cursor, lazy_sweep_active,
    setting,            \* a plain BM_SET in progress: the word as it was read, the bit, and whose
    intact              \* history: no BM_SET has undone an atomic one

space == <<objstart, mark, free_point, entries, free_list_total_words>>
sweep == <<sweep_limit, cursor, lazy_sweep_active>>
vars  == <<held, space, tlab, sweep, setting, intact>>

NoLimit   == 0
Idle      == <<>>
NoTlab    == <<1, 1>>
EmptyFn   == [a \in {} |-> 0]

Put(f, a, n)  == [b \in DOMAIN f \cup {a} |-> IF b = a THEN n ELSE f[b]]
Drop(f, S)    == [b \in DOMAIN f \ S |-> f[b]]
Words(a, n)   == a .. a + n - 1
Pairs(f)      == {p \in (DOMAIN f) \X (1 .. HeapWords) : p[2] <= f[p[1]]}
Total(f)      == Cardinality(Pairs(f))      \* the sum of f

\* Smallest class whose maximum holds n words.
SizeClass(n) == Min({c \in DOMAIN class_max : n <= class_max[c]})

\* From an object to the next start below the limit.
Extent(a, limit) == Min({b \in objstart \cup {limit + 1} : b > a}) - a

FindObjectStart(a) == Max({0} \cup {b \in objstart : b <= a})

Init ==
    /\ held = EmptyFn /\ objstart = {} /\ mark = {} /\ free_point = 0
    /\ entries = EmptyFn /\ free_list_total_words = 0
    /\ tlab = [t \in Threads |-> NoTlab]
    /\ sweep_limit = NoLimit /\ cursor = 0 /\ lazy_sweep_active = FALSE
    /\ setting = Idle /\ intact = TRUE

----------------------------------------------------------------------------
\* The fast path: an atomic set of the bit, and no lock: another thread may be in the
\* middle of its BM_SET.
AllocTlab(t) ==
    /\ setting # Idle => setting[3] # t
    /\ \E n \in Sizes :
          LET p == tlab[t][1]
          IN  /\ n <= TlabSize /\ p + n <= tlab[t][2]
              /\ tlab' = [tlab EXCEPT ![t] = <<p + n, tlab[t][2]>>]
              /\ objstart' = objstart \cup {p} /\ held' = Put(held, p, n)
    /\ UNCHANGED <<mark, free_point, entries, free_list_total_words, sweep, setting, intact>>

Misses(t, n) == ~ (n <= TlabSize /\ tlab[t][1] + n <= tlab[t][2])

\* Mutant: an entry of the class is taken whatever its size.
FitsClass(a, n) == SizeClass(entries[a]) = SizeClass(n)

\* An entry of the very class of the request, and big enough.
Fits(a, n) == SizeClass(entries[a]) = SizeClass(n) /\ entries[a] >= n

Unlisted(a, n) == entries[a]

\* Under alloc_lock; the bit is set by a plain read and write.
MsFreeListAlloc(t) ==
    /\ setting = Idle
    /\ \E n \in Sizes, a \in DOMAIN entries :
          /\ Misses(t, n) /\ Fits(a, n)
          /\ entries' = Drop(entries, {a})
          /\ free_list_total_words' = free_list_total_words - Unlisted(a, n)
          /\ held' = Put(held, a, n) /\ setting' = <<objstart, a, t>>
    /\ UNCHANGED <<objstart, mark, free_point, tlab, sweep, intact>>

\* The write stores the word that was read: a bit set meanwhile is lost.
SetBit ==
    /\ setting # Idle /\ objstart' = setting[1] \cup {setting[2]} /\ setting' = Idle
    /\ intact' = (intact /\ objstart \subseteq objstart')
    /\ UNCHANGED <<held, mark, free_point, entries, free_list_total_words, tlab, sweep>>

AddEntries(freed, limit) ==
    /\ entries' = [a \in DOMAIN entries \cup freed |->
                     IF a \in freed THEN Extent(a, limit) ELSE entries[a]]
    /\ free_list_total_words' = free_list_total_words + Total([a \in freed |-> Extent(a, limit)])

\* One block: marks are cleared, unmarked extents are listed with their length.
SweepTo(stop, limit) ==
    LET block == objstart \cap (cursor + 1 .. stop)
    IN  AddEntries(block \ mark, limit) /\ mark' = mark \ block

Limit == IF sweep_limit = NoLimit THEN free_point ELSE sweep_limit

MsLazySweepOne ==
    /\ setting = Idle /\ lazy_sweep_active
    /\ IF cursor >= Limit
       THEN lazy_sweep_active' = FALSE /\ UNCHANGED <<space, cursor>>
       ELSE /\ cursor' = Min({cursor + SweepBlock, Limit}) /\ SweepTo(cursor', Limit)
            /\ UNCHANGED <<objstart, free_point, lazy_sweep_active>>
    /\ UNCHANGED <<held, tlab, sweep_limit, setting, intact>>

\* The sweep has come to its end and no entry fits: a new buffer, whatever is left
\* of the old one, or the bump pointer.
Carve(t) ==
    /\ setting = Idle /\ ~ lazy_sweep_active
    /\ \E n \in Sizes :
          LET words == IF n <= TlabSize /\ free_point + TlabSize < HeapWords THEN TlabSize ELSE n
          IN  /\ Misses(t, n) /\ \A a \in DOMAIN entries : ~ Fits(a, n)
              /\ free_point + words < HeapWords /\ free_point' = free_point + words
              /\ tlab' = IF words > n THEN [tlab EXCEPT ![t] = <<free_point + 1 + n, free_point + 1 + words>>] ELSE tlab
              /\ held' = Put(held, free_point + 1, n) /\ setting' = <<objstart, free_point + 1, t>>
    /\ UNCHANGED <<objstart, mark, entries, free_list_total_words, sweep, intact>>

Forget ==
    /\ \E a \in DOMAIN held : held' = Drop(held, {a})
    /\ UNCHANGED <<space, tlab, sweep, setting, intact>>

\* ms_tlab_retire: the rest of a buffer becomes an object that nobody holds.
MsTlabRetireAll ==
    objstart' = objstart \cup {tlab[t][1] : t \in {u \in Threads : tlab[u][1] < tlab[u][2]}}

\* A collection in one step: buffers, limit, marks, then the sweep is prepared.
Collect ==
    /\ setting = Idle /\ ~ lazy_sweep_active
    /\ MsTlabRetireAll /\ tlab' = [t \in Threads |-> NoTlab]
    /\ sweep_limit' = free_point /\ mark' = DOMAIN held
    /\ entries' = EmptyFn /\ free_list_total_words' = 0
    /\ cursor' = 0 /\ lazy_sweep_active' = TRUE
    /\ UNCHANGED <<held, free_point, setting, intact>>

EndCycle ==
    /\ sweep_limit # NoLimit /\ sweep_limit' = NoLimit
    /\ UNCHANGED <<held, space, tlab, cursor, lazy_sweep_active, setting, intact>>

Next ==
    \/ \E t \in Threads : AllocTlab(t) \/ MsFreeListAlloc(t) \/ Carve(t)
    \/ SetBit \/ MsLazySweepOne \/ Forget \/ Collect \/ EndCycle

Spec == Init /\ [][Next]_vars

----------------------------------------------------------------------------
\* The properties speak of heaps whose start bits are intact: once a plain BM_SET has
\* undone the atomic one of a buffer, an object without a start bit is part of the one
\* before it, and is freed with it.

\* Words that belong to an object the program holds, to an entry of a free list or
\* to the rest of a buffer belong to it alone: nothing is handed out twice.
Rest(t) == tlab[t][1] .. tlab[t][2] - 1

Claims ==
    {<<"object", a, Words(a, held[a])>> : a \in DOMAIN held}
      \cup {<<"entry", a, Words(a, entries[a])>> : a \in DOMAIN entries}
      \cup {<<"buffer", t, Rest(t)>> : t \in Threads}

NoWordTwice ==
    intact => \A c \in Claims : c[3] \subseteq 1 .. free_point /\ \A d \in Claims \ {c} : c[3] \cap d[3] = {}

\* A locative into an object leads to the start of that object and no other, which
\* is how the marker finds it (the bit of an object being allocated aside).
InteriorFound ==
    intact => \A a \in DOMAIN held :
        setting = Idle \/ setting[2] # a => \A w \in Words(a, held[a]) : FindObjectStart(w) = a

\* The count that decides whether to fall back on the copying collector is what the
\* lists hold.
TotalIsListed == intact => free_list_total_words = Total(entries)
=============================================================================
