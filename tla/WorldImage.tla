----------------------------- MODULE WorldImage -----------------------------
(***************************************************************************)
(* Dumping a world to a file and loading it again.  The file holds the     *)
(* words of both spaces, or of new space alone after a full collection,    *)
(* with addresses from zero; the loader adds where its space happens to    *)
(* be.  The disk may be full and the process may die while it writes.      *)
(* A dump begins when gc() has returned.                                   *)
(***************************************************************************)
EXTENDS Integers, Sequences, SequencesExt, FiniteSetsExt

CONSTANTS
    Spatic, New,            \* the addresses of spatic space, and of new space that are in use
    LoadedAt,               \* where alloc_space puts the space of the loaded world
    REFBUFSIZ,
    NewEnd,                 \* bound: the first address that other threads do not allocate
    Disturbances            \* bound: what they do during a dump

WorldAssumption ==
    /\ Spatic \cap New = {} /\ REFBUFSIZ \in Nat \ {0} /\ {LoadedAt, Disturbances} \subseteq Nat
    /\ \A a \in Spatic \cup New : a < NewEnd

VARIABLES
    stage, just_new, dump_base,
    mem, e_boot_code, wp_table,
    free_point, memptr, refbuf, file,
    full,                   \* the disk
    loaded,                 \* what read_world makes of the file
    stores, allocations     \* ghost: what other threads did

others == <<stores, allocations>>
heap   == <<mem, e_boot_code, wp_table, free_point>>
mode   == <<just_new, dump_base>>
vars   == <<stage, mode, heap, memptr, refbuf, file, full, loaded, others>>

Num(n)     == <<"int", n>>
Ptr(a)     == <<"ptr", a>>
IsPtr(w)   == w[1] = "ptr"
Start(s)   == Min(s)
SpaticSize == Cardinality(Spatic)
InNew(a)   == a \in Start(New) .. NewEnd - 1
Nothing    == [boot |-> Num(0), mem |-> <<>>, wp |-> <<>>]

Words == {Num(0)} \cup {Ptr(a) : a \in Spatic \cup New}

\* A dump of new space alone follows gc(true, true, ...), which leaves nothing elsewhere.
Init ==
    /\ stage = "header" /\ just_new \in BOOLEAN /\ dump_base \in {2, 16}
    /\ mem \in [Spatic \cup New -> Words] /\ e_boot_code \in Words \ {Num(0)} /\ wp_table \in [1 .. 1 -> Words]
    /\ just_new => \A w \in {mem[a] : a \in New} \cup {e_boot_code, wp_table[1]} : IsPtr(w) => w[2] \in New
    /\ free_point = Max(New) + 1
    /\ memptr = 0 /\ refbuf = <<>> /\ file = <<>> /\ full = FALSE /\ loaded = Nothing
    /\ stores = 0 /\ allocations = 0

----------------------------------------------------------------------------
Wild == <<"wild", 0>>

\* Mutant: new space is taken to begin where spatic space does.
ContigFromZero(w) ==
    CASE ~ IsPtr(w)                                   -> w
      [] IsPtr(w) /\ InNew(w[2])                      -> Ptr(w[2] - Start(New))
      [] IsPtr(w) /\ ~ just_new /\ w[2] \in Spatic    -> Ptr(w[2] - Start(Spatic))
      [] OTHER                                        -> Wild

Contigify(w) ==
    CASE ~ IsPtr(w)                                   -> w
      [] IsPtr(w) /\ InNew(w[2])                      -> Ptr(w[2] - Start(New) + (IF just_new THEN 0 ELSE SpaticSize))
      [] IsPtr(w) /\ ~ just_new /\ w[2] \in Spatic    -> Ptr(w[2] - Start(Spatic))
      [] OTHER                                        -> Wild

\* fwrite and fprintf: what does not fit on the disk is lost, and so is all that follows.
Write(words) ==
    \/ ~ full /\ file' = file \o words /\ UNCHANGED full
    \/ \E n \in 0 .. Len(words) - 1 :
          full' = TRUE /\ file' = IF full THEN file ELSE file \o SubSeq(words, 1, n)

DumpHeader ==
    /\ stage = "header" /\ stage' = IF just_new THEN "new" ELSE "spatic"
    /\ memptr' = IF just_new THEN Start(New) ELSE Start(Spatic)
    /\ Write(<<Contigify(e_boot_code), Num(free_point - Start(New) + (IF just_new THEN 0 ELSE SpaticSize))>>)
    /\ UNCHANGED <<mode, heap, refbuf, loaded, others>>

\* A word at a time.
NextWord ==
    /\ \/ stage = "spatic" /\ memptr \in Spatic
       \/ stage = "new" /\ memptr < free_point
    /\ memptr' = memptr + 1
    /\ stage' = IF Contigify(mem[memptr]) = Wild THEN "wild" ELSE stage
    /\ UNCHANGED <<mode, heap, loaded, others>>

DumpBinaryWord ==
    /\ dump_base = 2 /\ NextWord
    /\ LET more == Append(refbuf, Contigify(mem[memptr]))
       IN  IF Len(more) = REFBUFSIZ THEN refbuf' = <<>> /\ Write(more)
                                    ELSE refbuf' = more /\ UNCHANGED <<file, full>>

DumpAsciiWord ==
    /\ dump_base = 16 /\ NextWord
    /\ Write(<<Contigify(mem[memptr])>>) /\ UNCHANGED refbuf

SpaticDone ==
    /\ stage = "spatic" /\ memptr \notin Spatic
    /\ stage' = "new" /\ memptr' = Start(New)
    /\ UNCHANGED <<mode, heap, refbuf, file, full, loaded, others>>

NewDone ==
    /\ stage = "new" /\ memptr = free_point
    /\ stage' = "weak" /\ memptr' = 1 /\ refbuf' = <<>>
    /\ Write(Append(refbuf, Num(Len(wp_table))))
    /\ UNCHANGED <<mode, heap, loaded, others>>

DumpWeakPointer ==
    /\ stage = "weak" /\ memptr <= Len(wp_table)
    /\ memptr' = memptr + 1 /\ Write(<<Contigify(wp_table[memptr])>>)
    /\ stage' = IF Contigify(wp_table[memptr]) = Wild THEN "wild" ELSE stage
    /\ UNCHANGED <<mode, heap, refbuf, loaded, others>>

FinishWorldFile ==
    /\ stage = "weak" /\ memptr > Len(wp_table)
    /\ stage' = IF full THEN "exit" ELSE "dumped"
    /\ UNCHANGED <<mode, heap, memptr, refbuf, file, full, loaded, others>>

Dumping == stage \in {"spatic", "new", "weak"}

\* Text that is cut within a word reads as another word; that is left out.
Crash ==
    /\ Dumping /\ dump_base = 2 /\ stage' = "exit"
    /\ UNCHANGED <<mode, heap, memptr, refbuf, file, full, loaded, others>>

\* What other threads do meanwhile: dump_lock keeps only other dumps away.
Disturb == Dumping /\ stores + allocations < Disturbances

Allocate ==
    /\ Disturb /\ free_point < NewEnd
    /\ mem' = [a \in DOMAIN mem \cup {free_point} |-> IF a = free_point THEN Num(0) ELSE mem[a]]
    /\ free_point' = free_point + 1 /\ allocations' = allocations + 1
    /\ UNCHANGED <<stage, mode, e_boot_code, wp_table, memptr, refbuf, file, full, loaded, stores>>

Store ==
    /\ Disturb
    /\ \E a, b \in New : mem' = [mem EXCEPT ![a] = Ptr(b)]
    /\ stores' = stores + 1
    /\ UNCHANGED <<stage, mode, e_boot_code, wp_table, free_point, memptr, refbuf, file, full, loaded, allocations>>

----------------------------------------------------------------------------
Number(w)   == IF w[1] = "int" THEN w[2] ELSE 100       \* a count that no file satisfies
Reoffset(w) == IF IsPtr(w) THEN Ptr(w[2] + LoadedAt) ELSE w

\* read_world_stream: a file that ends early is refused.
ReadWorld ==
    /\ stage \in {"dumped", "exit"}
    /\ LET count  == Number(file[2])
           wp     == Number(file[count + 3])
           short  == \/ Len(file) < 2 \/ Len(file) < count + 3
                     \/ Len(file) < count + 3 + wp
       IN  IF short THEN stage' = (IF stage = "dumped" THEN "useless" ELSE "refused") /\ UNCHANGED loaded
           ELSE /\ stage' = "loaded"
                /\ loaded' = [boot |-> Ptr(file[1][2] + LoadedAt),
                              mem  |-> [a \in LoadedAt .. LoadedAt + count - 1 |-> Reoffset(file[a - LoadedAt + 3])],
                              wp   |-> [i \in 1 .. wp |-> Reoffset(file[count + 3 + i])]]
    /\ UNCHANGED <<mode, heap, memptr, refbuf, file, full, others>>

Next ==
    \/ DumpHeader \/ DumpBinaryWord \/ DumpAsciiWord \/ SpaticDone \/ NewDone \/ DumpWeakPointer
    \/ FinishWorldFile \/ Crash \/ Allocate \/ Store \/ ReadWorld

Spec == Init /\ [][Next]_vars

----------------------------------------------------------------------------
Inside(w) == IsPtr(w) => w[2] \in DOMAIN loaded.mem

\* The pairs of a word and what has become of it, from given pairs on along pointers.
Counterparts(roots) ==
    LET next(ps) == {<<mem[p[1][2]], loaded.mem[p[2][2]]>> : p \in {q \in ps : IsPtr(q[1]) /\ IsPtr(q[2]) /\ Inside(q[2])}}
        along[n \in 0 .. Cardinality(DOMAIN mem)] == IF n = 0 THEN roots ELSE along[n - 1] \cup next(along[n - 1])
    IN  along[Cardinality(DOMAIN mem)]

\* A number stays, and cells correspond one to one.
Alike(ps) ==
    /\ \A p \in ps : IF IsPtr(p[1]) THEN IsPtr(p[2]) /\ Inside(p[2]) ELSE p[1] = p[2]
    /\ \A p, q \in ps : p[1] = q[1] <=> p[2] = q[2]

\* A world that was dumped can be loaded, and it is the world that was dumped: from the
\* boot method and from every weak pointer the same structure hangs, with the same sharing.
\* A dump that was cut short is refused.  Other threads may store while it is written, and
\* the world can still be loaded, with all its pointers in it; but when they allocate, more
\* words follow than were counted.
WorldKept ==
    /\ stage # "wild"
    /\ allocations = 0 => stage # "useless" /\ \A a \in DOMAIN loaded.mem : Inside(loaded.mem[a])
    /\ stage = "loaded" /\ others = <<0, 0>> =>
          /\ Len(loaded.wp) = Len(wp_table)
          /\ Alike(Counterparts({<<e_boot_code, loaded.boot>>} \cup {<<wp_table[i], loaded.wp[i]>> : i \in DOMAIN wp_table}))
=============================================================================
