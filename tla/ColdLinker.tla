----------------------------- MODULE ColdLinker -----------------------------
(***************************************************************************)
(* The cold linker lays out a first world from object files.  It counts    *)
(* what it will need before it lays anything out, and shares equal         *)
(* constants, so that counts, addresses and contents, which come from      *)
(* different passes over the same blocks, have to fit together.            *)
(*                                                                         *)
(* A constant is <<"int", n>>, <<"sym", name>>, <<"str", characters>>,     *)
(* <<"nil">> or <<"pair", car, cdr>>; a block has opcodes and patches      *)
(* <<kind, offset, value>>; a file is a sequence of blocks.                *)
(***************************************************************************)
EXTENDS Integers, Sequences, SequencesExt, FiniteSetsExt, TLC

CONSTANTS
    instrs_per_ref,
    vars_to_preload,        \* those of layout_handbuilt_data among them
    FileLists               \* bound: the files to link

VARIABLES
    phase,
    files,
    counts,                 \* opcodes, cells of data, symbols and variables in order
    world,                  \* cells that were stored, next_free_dat, pairs and strings to share
    blk_table,              \* <<file, block>> |-> address
    at                      \* <<file, block>> that spew_opcodes comes to

vars == <<phase, files, counts, world, blk_table, at>>

CELL_SIZE == 1
PAIR_SIZE == 3
SYMBOL_SIZE == 2
METHOD_SIZE == 3
NULL_SIZE == 1
T_SIZE == 1
TYPE_SIZE == 9
COERCABLE_TYPE_SIZE == 10
NOOP == 0
RETURN == 24
REG_CODE_DELTA == 2 * instrs_per_ref
TOP_CODE_DELTA == -instrs_per_ref

Num(n) == <<"int", n>>
Ptr(a) == <<"ptr", a>>
Loc(a) == <<"loc", a>>
Opcodes(ops) == <<"ops", ops>>
IsPair(d) == d[1] = "pair"

Init ==
    /\ phase = "count" /\ files \in FileLists
    /\ counts = <<>> /\ world = <<>> /\ blk_table = <<>> /\ at = <<1, 1>>

----------------------------------------------------------------------------
(* Counting.  Characters go several to a word; one word holds them here.   *)

StringSize(s) == 3 + (IF s = "" THEN 0 ELSE 1)

RECURSIVE CountData(_), SymbolsOf(_)
CountData(d) ==
    CASE d[1] \in {"sym", "str"} -> StringSize(d[2])
      [] IsPair(d)               -> PAIR_SIZE + CountData(d[2]) + CountData(d[3])
      [] OTHER                   -> 0

SymbolsOf(d) ==
    CASE d[1] = "sym" -> <<d[2]>>
      [] IsPair(d)    -> SymbolsOf(d[2]) \o SymbolsOf(d[3])
      [] OTHER        -> <<>>

\* In the order in which they are first seen.
Once(names) == FoldLeft(LAMBDA acc, n : IF Contains(acc, n) THEN acc ELSE Append(acc, n), <<>>, names)
Total(f(_), s) == FoldLeft(LAMBDA n, e : n + f(e), 0, s)

Blocks  == FlattenSeq(files)
Patches == FlattenSeq([i \in DOMAIN Blocks |-> Blocks[i].patches])

\* A variable counts as a symbol too.
Counted(p) == IF p[1] = "variable" THEN <<"sym", p[3]>> ELSE IF p[1] = "constant" THEN p[3] ELSE <<"nil">>

HandbuiltDataSize == NULL_SIZE + T_SIZE + METHOD_SIZE + 2 * TYPE_SIZE + COERCABLE_TYPE_SIZE

CountThings ==
    /\ phase = "count" /\ phase' = "layout"
    /\ LET preload == [i \in DOMAIN vars_to_preload |-> <<"sym", vars_to_preload[i]>>]
           data    == preload \o [i \in DOMAIN Patches |-> Counted(Patches[i])]
           named   == SelectSeq(Patches, LAMBDA p : p[1] = "variable")
       IN  counts' = [opcodes   |-> REG_CODE_DELTA - TOP_CODE_DELTA + Total(LAMBDA b : Len(b.opcodes), Blocks)
                                      + Total(LAMBDA f : TOP_CODE_DELTA + REG_CODE_DELTA * (Len(f) - 1), files),
                      data      |-> Total(CountData, data) + HandbuiltDataSize,
                      symbols   |-> Once(FlattenSeq([i \in DOMAIN data |-> SymbolsOf(data[i])])),
                      variables |-> Once(vars_to_preload \o [i \in DOMAIN named |-> named[i][3]])]
    /\ UNCHANGED <<files, world, blk_table, at>>

----------------------------------------------------------------------------
(* Base addresses, and what is stored where.                               *)

start_of_opc_space == 0
start_of_var_space == counts.opcodes \div instrs_per_ref
start_of_sym_space == start_of_var_space + Len(counts.variables) * CELL_SIZE
start_of_dat_space == start_of_sym_space + Len(counts.symbols) * SYMBOL_SIZE
world_array_size   == start_of_dat_space + counts.data

Index(s, e) == CHOOSE i \in DOMAIN s : s[i] = e

\* Symbols of variables first, in the order of the variables.
SymbolOrder == counts.variables \o SelectSeq(counts.symbols, LAMBDA n : ~ Contains(counts.variables, n))
SymbolAt(n)   == start_of_sym_space + (Index(SymbolOrder, n) - 1) * SYMBOL_SIZE
VariableAt(n) == start_of_var_space + (Index(counts.variables, n) - 1) * CELL_SIZE

where_nil_lives         == start_of_dat_space
where_t_lives           == where_nil_lives + NULL_SIZE
where_string_lives      == where_t_lives + T_SIZE
where_cons_pair_lives   == where_string_lives + COERCABLE_TYPE_SIZE
where_code_vector_lives == where_cons_pair_lives + TYPE_SIZE
where_boot_method_lives == where_code_vector_lives + TYPE_SIZE

\* Only a word of zeros may be overwritten; the linker exits otherwise.
ZeroEnough(w, a) == a \in DOMAIN w.cells => w.cells[a] \in {Num(0), Opcodes([i \in 1 .. instrs_per_ref |-> NOOP])}
Store(w, word, a) ==
    [w EXCEPT !.cells = (a :> word) @@ @,
              !.exit = @ \/ a \notin 0 .. world_array_size - 1 \/ ~ ZeroEnough(w, a)]
StoreAll(w, words, a) == FoldLeft(LAMBDA v, i : Store(v, words[i], a + i - 1), w, [i \in DOMAIN words |-> i])

AllocDat(w, n) == [w EXCEPT !.next_free_dat = @ + n, !.exit = @ \/ w.next_free_dat + n > world_array_size]
Share(w, d, ref) == [w EXCEPT !.shared = (d :> ref) @@ @]

RealStringAlloc(w, s) ==
    StoreAll(AllocDat(w, StringSize(s)),
             <<Ptr(where_string_lives), Num(StringSize(s)), Num(s)>> \o (IF s = "" THEN <<>> ELSE <<<<"chars", s>>>>),
             w.next_free_dat)

\* The empty string is made once.
StringAlloc(w, s) ==
    IF s = "" /\ <<"str", "">> \in DOMAIN w.shared THEN [w |-> w, ref |-> w.shared[<<"str", "">>]]
    ELSE LET v == RealStringAlloc(w, s)
             ref == Ptr(w.next_free_dat)
         IN  [w |-> IF s = "" THEN Share(v, <<"str", "">>, ref) ELSE v, ref |-> ref]

RECURSIVE ConstantRefgen(_, _), PairAlloc(_, _, _)

\* A list is laid out from its first pair on, and each pair of the chain is shared from
\* then on; where a tail is known already the chain ends with it.
PairAlloc(w, d, cur) ==
    LET car == ConstantRefgen(Store(w, Ptr(where_cons_pair_lives), cur), d[2])
        v   == Store(car.w, car.ref, cur + 1)
        new == v.next_free_dat
        cdr == ConstantRefgen(v, d[3])
    IN  IF IsPair(d[3]) /\ d[3] \notin DOMAIN v.shared
        THEN PairAlloc(Store(Share(AllocDat(v, PAIR_SIZE), d[3], Ptr(new)), Ptr(new), cur + 2), d[3], new)
        ELSE Store(cdr.w, cdr.ref, cur + 2)

ConstantRefgen(w, d) ==
    CASE d[1] = "sym" -> [w |-> w, ref |-> Ptr(SymbolAt(d[2]))]
      [] d[1] = "nil" -> [w |-> w, ref |-> Ptr(where_nil_lives)]
      [] d[1] = "int" -> [w |-> w, ref |-> d]
      [] d[1] = "str" -> StringAlloc(w, d[2])
      [] IsPair(d) /\ d \in DOMAIN w.shared -> [w |-> w, ref |-> w.shared[d]]
      [] IsPair(d) /\ d \notin DOMAIN w.shared ->
            LET new == Ptr(w.next_free_dat)
            IN  [w |-> Share(PairAlloc(AllocDat(w, PAIR_SIZE), d, w.next_free_dat), d, new), ref |-> new]

----------------------------------------------------------------------------
Bindings ==
    << <<"NIL", Ptr(where_nil_lives)>>, <<"T", Ptr(where_t_lives)>>, <<"STRING", Ptr(where_string_lives)>>,
       <<"CONS-PAIR", Ptr(where_cons_pair_lives)>>, <<"%CODE-VECTOR", Ptr(where_code_vector_lives)>>,
       <<"%%SYMLOC", Loc(start_of_sym_space)>>, <<"%%VARLOC", Loc(start_of_var_space)>>,
       <<"%%NSYMS", Num(Len(counts.symbols))>>, <<"%%NVARS", Num(Len(counts.variables))>>,
       <<"%%SYMSIZE", Num(SYMBOL_SIZE)>> >>

BootMethod == <<Ptr(where_nil_lives), Ptr(start_of_opc_space), Ptr(where_nil_lives)>>

LayoutHandbuiltData ==
    /\ phase = "layout" /\ phase' = "symbols"
    /\ LET empty == [cells |-> <<>>, next_free_dat |-> start_of_dat_space, shared |-> <<>>, exit |-> FALSE]
           bound == FoldLeft(LAMBDA w, b : Store(w, b[2], VariableAt(b[1])), AllocDat(empty, HandbuiltDataSize), Bindings)
       IN  world' = StoreAll(bound, BootMethod, where_boot_method_lives)
    /\ UNCHANGED <<files, counts, blk_table, at>>

\* Names get their strings in the order in which they were first seen.
PatchSymbols ==
    /\ phase = "symbols" /\ phase' = "blocks"
    /\ world' = FoldLeft(LAMBDA w, n : LET s == StringAlloc(Store(w, Ptr(where_nil_lives), SymbolAt(n)), n)
                                       IN  Store(s.w, s.ref, SymbolAt(n) + 1),
                         world, counts.symbols)
    /\ UNCHANGED <<files, counts, blk_table, at>>

BlockWords(f, b) ==
    (Len(files[f][b].opcodes) + (IF b = 1 THEN TOP_CODE_DELTA ELSE REG_CODE_DELTA)) \div instrs_per_ref

\* Top level blocks follow each other in one code vector, then come the others.
TopBlocks == [f \in DOMAIN files |-> <<f, 1>>]
BlockOrder == TopBlocks \o FlattenSeq([f \in DOMAIN files |-> [b \in 1 .. Len(files[f]) - 1 |-> <<f, b + 1>>]])
BlockAt(i) ==
    start_of_opc_space + (REG_CODE_DELTA - TOP_CODE_DELTA) \div instrs_per_ref
        + Total(LAMBDA k : BlockWords(k[1], k[2]), SubSeq(BlockOrder, 1, i - 1))
first_regular_blk_addr == BlockAt(Len(files) + 1)

BuildBlkTable ==
    /\ phase = "blocks" /\ phase' = "spew"
    /\ blk_table' = [k \in ToSet(BlockOrder) |-> BlockAt(Index(BlockOrder, k))]
    /\ world' = StoreAll([world EXCEPT !.exit = @ \/ BlockAt(Len(BlockOrder) + 1) > start_of_var_space],
                         <<Ptr(where_code_vector_lives), Num(first_regular_blk_addr), Ptr(where_nil_lives)>>,
                         start_of_opc_space)
    /\ UNCHANGED <<files, counts, at>>

\* The last opcode but noops, which has to be a return.
ChangeReturnToNoop(w, a) ==
    LET ops == w.cells[a][2]
        i   == Max({0} \cup {j \in DOMAIN ops : ops[j] # NOOP})
    IN  IF w.cells[a][1] = "ops" /\ i > 0 /\ ops[i] = RETURN
        THEN [w EXCEPT !.cells[a] = Opcodes([ops EXCEPT ![i] = NOOP])]
        ELSE [w EXCEPT !.exit = TRUE]

\* What lies before the block is not stored: a top level block loses its first word.
StoreFrom(base, w, word, a) == IF a >= base THEN Store(w, word, a) ELSE w

PatchRef(w, f, p) ==
    CASE p[1] = "constant" -> ConstantRefgen(w, p[3])
      [] p[1] = "variable" -> [w |-> w, ref |-> Loc(VariableAt(p[3]))]
      [] p[1] = "code"     -> [w |-> w, ref |-> Ptr(blk_table[<<f, p[3]>>])]

WordsOf(blk) ==
    [i \in 1 .. Len(blk.opcodes) \div instrs_per_ref |->
        Opcodes(SubSeq(blk.opcodes, (i - 1) * instrs_per_ref + 1, i * instrs_per_ref))]

SpewOpcodes ==
    /\ phase = "spew"
    /\ LET f    == at[1]
           blk  == files[f][at[2]]
           base == blk_table[at]
           regp == at[2] > 1
           from == base + (IF regp THEN REG_CODE_DELTA ELSE TOP_CODE_DELTA) \div instrs_per_ref
           words == WordsOf(blk)
           header == IF regp THEN StoreAll(world, <<Ptr(where_code_vector_lives), Num(2 + Len(words))>>, base) ELSE world
           code   == FoldLeft(LAMBDA w, i : StoreFrom(base, w, words[i], from + i - 1), header, [i \in DOMAIN words |-> i])
           chained == IF ~ regp /\ f < Len(files) THEN ChangeReturnToNoop(code, from + Len(words) - 1) ELSE code
       IN  /\ world' = FoldLeft(LAMBDA w, p : LET r == PatchRef(w, f, p)
                                              IN  StoreFrom(base, r.w, r.ref, from + p[2] \div instrs_per_ref),
                                chained, blk.patches)
           /\ IF at[2] < Len(files[f]) THEN at' = <<f, at[2] + 1>> /\ UNCHANGED phase
              ELSE IF f < Len(files) THEN at' = <<f + 1, 1>> /\ UNCHANGED phase
              ELSE phase' = "dumped" /\ UNCHANGED at
    /\ UNCHANGED <<files, counts, blk_table>>

Done == phase = "dumped" /\ UNCHANGED vars

Next ==
    \/ CountThings \/ LayoutHandbuiltData \/ PatchSymbols \/ BuildBlkTable \/ SpewOpcodes \/ Done

Spec == Init /\ [][Next]_vars

----------------------------------------------------------------------------
Cell(a) == IF a \in DOMAIN world.cells THEN world.cells[a] ELSE Num(0)
Cells(a, n) == [i \in 1 .. n |-> Cell(a + i - 1)]

IsString(ref, s) == Cells(ref[2], 3) = <<Ptr(where_string_lives), Num(StringSize(s)), Num(s)>>
                      /\ (s # "" => Cell(ref[2] + 3) = <<"chars", s>>)

\* The constant d, as the machine will find it at ref.
RECURSIVE Denotes(_, _)
Denotes(ref, d) ==
    CASE d[1] = "int"  -> ref = d
      [] d[1] = "nil"  -> ref = Ptr(where_nil_lives)
      [] d[1] = "str"  -> ref[1] = "ptr" /\ IsString(ref, d[2])
      [] d[1] = "sym"  -> /\ ref[1] = "ptr" /\ ref[2] \in start_of_sym_space .. start_of_dat_space - 1
                          /\ IsString(Cell(ref[2] + 1), d[2])
      [] IsPair(d)     -> /\ ref[1] = "ptr" /\ Cell(ref[2]) = Ptr(where_cons_pair_lives)
                          /\ Denotes(Cell(ref[2] + 1), d[2]) /\ Denotes(Cell(ref[2] + 2), d[3])

\* The word that a patch of a block with opcodes from address a asks for.
Patched(f, a, p) ==
    LET word == Cell(a + p[2] \div instrs_per_ref)
    IN  CASE p[1] = "constant" -> Denotes(word, p[3])
          [] p[1] = "variable" -> word[1] = "loc" /\ word[2] = VariableAt(p[3])
          [] p[1] = "code"     -> LET n == Len(WordsOf(files[f][p[3]]))
                                  IN  word[1] = "ptr" /\ Cells(word[2], 2) = <<Ptr(where_code_vector_lives), Num(2 + n)>>

\* The words of a block from a on are its opcodes and patches; the return at the end of
\* a top level block that is not the last does nothing.
Holds(f, b, a, first) ==
    LET blk   == files[f][b]
        words == WordsOf(blk)
        patchedAt(i) == {k \in DOMAIN blk.patches : blk.patches[k][2] \div instrs_per_ref = i - 1}
    IN  \A i \in first .. Len(words) :
            IF patchedAt(i) # {} THEN \A k \in patchedAt(i) : Patched(f, a, blk.patches[k])
            ELSE \/ Cell(a + i - 1) = words[i]
                 \/ /\ b = 1 /\ f < Len(files) /\ i = Len(words)
                    /\ Cell(a + i - 1) = Opcodes([j \in 1 .. instrs_per_ref |->
                                            IF words[i][2][j] = RETURN THEN NOOP ELSE words[i][2][j]])

\* The linker never gives up, and the world is what the files say: the boot method runs
\* the top level blocks one after another, each without its first word, every other block is
\* a code vector of its own, and what patches refer to is there.  Symbols lie where the boot
\* code looks for them, each with its name.
Linked ==
    phase = "dumped" =>
        /\ ~ world.exit
        /\ LET lens == [f \in DOMAIN files |-> Len(WordsOf(files[f][1])) - 1]
           IN  \A f \in DOMAIN files :
                  Holds(f, 1, 2 + Total(LAMBDA n : n, SubSeq(lens, 1, f - 1)), 2)
        /\ \A k \in ToSet(BlockOrder) : k[2] > 1 => Holds(k[1], k[2], blk_table[k] + 2, 1)
        /\ \A i \in 1 .. Cell(VariableAt("%%NSYMS"))[2] :
              Denotes(Ptr(Cell(VariableAt("%%SYMLOC"))[2] + (i - 1) * Cell(VariableAt("%%SYMSIZE"))[2]),
                      <<"sym", SymbolOrder[i]>>)
=============================================================================
