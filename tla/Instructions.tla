---------------------------- MODULE Instructions ----------------------------
(***************************************************************************)
(* The interpreter's instructions as programs over the value stack and the *)
(* C locals of loop(): what each pops, checks, allocates, pushes and       *)
(* stores, and in which order.  A push that flushes the stack buffer and   *)
(* an allocation may collect garbage, which moves everything; a failing    *)
(* check hands the operands to the instruction's trap operation.           *)
(***************************************************************************)
EXTENDS Integers, Sequences, FiniteSets, TLC

VARIABLES
    op, step,       \* the instruction and the next step of its program
    stack,          \* the value stack: 1 .. Height were there before, 0 is a result
    regs,           \* x, y, z, p: a value and the collections before it was loaded
    moves,          \* collections so far
    contexts,       \* context frames pushed
    tail,           \* the next instruction is RETURN
    nargs,          \* arguments of the trap operation, or None
    stale           \* where a local was used after things had moved

vars == <<op, step, stack, regs, moves, contexts, tail, nargs, stale>>

Height   == 5
None     == -1
Leftover == -2          \* what a local holds from an earlier instruction
Inline   == 7           \* the reference in the instruction stream
Immobile == -1          \* stamp of a value no collection changes

Pop(r)      == <<"pop", {r}>>       \* POPVAL
Drop        == <<"drop", {}>>       \* POPVALS(1)
Peek(r)     == <<"peek", {r}>>      \* r = PEEKVAL()
Fixnum(r)   == <<"fixnum", {r}>>    \* r was found to be one
Load(r)     == <<"load", {r}>>      \* from the instruction stream or a register
Alloc(keep) == <<"alloc", keep>>    \* ALLOCATE_SS, or ALLOCATE1 when it protects a local
Put(rs)     == <<"put", rs>>        \* PEEKVAL() = ... of the locals
Use(rs)     == <<"use", rs>>        \* a store through the locals
Push(rs)    == <<"push", rs>>       \* PUSHVAL of ... of the locals
Room        == <<"room", {}>>       \* CHECKVAL_PUSH
Collect     == <<"collect", {}>>    \* gc()
Context     == <<"context", {}>>    \* PUSH_CONTEXT
Jump        == <<"jump", {}>>       \* a method is entered
Check(k, n) == <<IF k = 0 THEN "check0" ELSE "check1", n>>      \* TRAPk(n) if the tags are wrong

Access       == <<Load("x"), Push({"x"})>>
LoadImmCon   == <<Load("x"), Check(1, 1), Use({"x"}), Push({"x"})>>
Binary       == <<Pop("x"), Peek("y"), Check(1, 2), Put({"x", "y"})>>
Unary        == <<Peek("x"), Check(0, 1), Put({"x"})>>
EqP          == <<Pop("x"), Peek("y"), Put({"x", "y"})>>
TypeOf       == <<Peek("x"), Put({"x"})>>
Store        == <<Pop("x"), Check(1, 2), Peek("y"), Use({"x", "y"})>>
StoreSlot    == <<Pop("x"), Check(1, 2), Peek("y"), Use({"x", "y"})>>
SetCar       == <<Peek("x"), Check(0, 2), Drop, Peek("y"), Use({"x", "y"})>>
TestAndSet   == <<Pop("x"), Check(1, 3), Pop("y"), Peek("z"), Use({"x", "y", "z"}), Put({})>>
Cons         == <<Alloc({}), Pop("x"), Peek("y"), Put({"p", "x", "y"})>>
MakeCell     == <<Alloc({}), Peek("x"), Put({"p", "x"})>>
AllocateI    == <<Pop("x"), Peek("y"), Check(1, 2), Fixnum("y"), Alloc({"x"}), Use({"p", "x"}), Put({"p"})>>
VlenAllocate == <<Pop("x"), Peek("y"), Check(1, 2), Fixnum("y"), Alloc({"x"}), Put({"p"}), Use({"p", "x", "y"})>>
ClosedEnv    == <<Room, Alloc({}), Pop("x"), Pop("y"), Use({"p", "x", "y"}), Push({"p"})>>
FullGc       == <<Collect, Load("x"), Push({"x"})>>
OneFile      == <<Pop("x"), Check(1, 2), Peek("y"), Put({"x", "y"})>>
TwoFiles     == <<Check(0, 4), Pop("x"), Pop("y"), Pop("z"), Put({"x", "y", "z"})>>
StoreReg     == <<Peek("x"), Check(1, 1), Use({"x"})>>
CheckNargs   == <<Check(0, 3), Drop>>
FuncallTail  == <<Peek("x"), Check(0, 3), Jump>>
FuncallCxt   == <<Context>> \o FuncallTail
SuperTail    == <<Pop("z"), Check(1, 4), Peek("x"), Check(1, 4), Jump>>
SuperCxt     == <<Context>> \o SuperTail

Programs ==
    "LOAD-IMM" :> Access @@         \* LOAD-ENV, LOAD-BP, LOAD-STK, LOAD-REG
    "LOAD-IMM-CON" :> LoadImmCon @@
    "PLUS" :> Binary @@             \* all of arithmetic, =, <, CRUNCH, INC-LOC, ASSQ, LOG-OP, putc
    "CAR" :> Unary @@               \* NEGATE, =0?, CONTENTS, LOAD-BP-I, LOAD-SLOT, LOCATE-SLOT, LOCATE-CAR
    "EQ?" :> EqP @@
    "LOAD-TYPE" :> TypeOf @@        \* NOT, GET-TAG, GET-WP, HEAVYWEIGHT-THREAD
    "SET-CONTENTS" :> Store @@      \* STORE-BP-I
    "STORE-SLOT" :> StoreSlot @@
    "SET-CAR" :> SetCar @@          \* SET-CDR
    "TEST-AND-SET-LOCATIVE" :> TestAndSet @@
    "CONS" :> Cons @@               \* REVERSE-CONS, MAKE-LAMBDA
    "MAKE-CELL" :> MakeCell @@
    "ALLOCATE" :> AllocateI @@
    "VLEN-ALLOCATE" :> VlenAllocate @@
    "MAKE-CLOSED-ENVIRONMENT" :> ClosedEnv @@
    "GC" :> FullGc @@
    "open file" :> OneFile @@       \* chdir, load a module
    "rename file" :> TwoFiles @@    \* compile a module
    "STORE-REG" :> StoreReg @@
    "CHECK-NARGS" :> CheckNargs @@  \* CHECK-NARGS-GTE
    "FUNCALL-CXT" :> FuncallCxt @@ "FUNCALL-TAIL" :> FuncallTail @@
    "^SUPER-CXT" :> SuperCxt @@ "^SUPER-TAIL" :> SuperTail

Opcodes == DOMAIN Programs
Calls   == {"FUNCALL-CXT", "FUNCALL-TAIL", "^SUPER-CXT", "^SUPER-TAIL", "CHECK-NARGS"}

Init ==
    /\ op \in Opcodes /\ step = 1
    /\ stack = [i \in 1 .. Height |-> i]
    /\ regs = [r \in {"x", "y", "z", "p"} |-> [v |-> Leftover, at |-> 0]]
    /\ moves = 0 /\ contexts = 0 /\ tail \in BOOLEAN
    /\ nargs = None /\ stale = {}

Top        == stack[Len(stack)]
ButTop     == SubSeq(stack, 1, Len(stack) - 1)
IsStale(r) == regs[r].at # Immobile /\ regs[r].at # moves
Note(rs, where) == stale' = IF \E r \in rs : IsStale(r) THEN stale \cup {where} ELSE stale
Now(v)     == [v |-> v, at |-> moves]
Set(rs, v) == regs' = [r \in DOMAIN regs |-> IF r \in rs THEN Now(v) ELSE regs[r]]

\* A collection updates the stack and what GC_MEMORY keeps on the root stack.
Move(keep) ==
    \E g \in BOOLEAN :
        /\ moves' = IF g THEN moves + 1 ELSE moves
        /\ regs' = [r \in DOMAIN regs |->
                        IF r \in keep /\ regs[r].at = moves THEN [regs[r] EXCEPT !.at = moves'] ELSE regs[r]]

\* Mutant: ALLOCATE1 forgets its local.
AllocForgetting(rs) ==
    \E g \in BOOLEAN :
        /\ moves' = IF g THEN moves + 1 ELSE moves
        /\ regs' = [regs EXCEPT !["p"] = [v |-> 0, at |-> moves']]

Allocate(rs) ==
    \E g \in BOOLEAN :
        /\ moves' = IF g THEN moves + 1 ELSE moves
        /\ regs' = [r \in DOMAIN regs |->
                        IF r = "p" THEN [v |-> 0, at |-> moves']
                        ELSE IF r \in rs /\ regs[r].at = moves THEN [regs[r] EXCEPT !.at = moves'] ELSE regs[r]]

Running == nargs = None /\ step <= Len(Programs[op])
Micro   == Programs[op][step]
Does(k) == Running /\ Micro[1] = k
Onward  == step' = step + 1 /\ UNCHANGED <<op, tail, nargs>>

TakesTop ==
    /\ \/ Does("pop") /\ stack' = ButTop /\ Set(Micro[2], Top)
       \/ Does("drop") /\ stack' = ButTop /\ UNCHANGED regs
       \/ Does("peek") /\ UNCHANGED stack /\ Set(Micro[2], Top)
       \/ Does("load") /\ UNCHANGED stack /\ Set(Micro[2], Inline)
       \/ Does("fixnum") /\ UNCHANGED stack
                         /\ regs' = [r \in DOMAIN regs |-> IF r \in Micro[2] THEN [regs[r] EXCEPT !.at = Immobile] ELSE regs[r]]
    /\ Onward /\ UNCHANGED <<moves, contexts, stale>>

MayMove ==
    /\ \/ Does("alloc") /\ Allocate(Micro[2])
       \/ Does("room") /\ Move({})
       \/ Does("collect") /\ moves' = moves + 1 /\ UNCHANGED regs
    /\ Onward /\ UNCHANGED <<stack, contexts, stale>>

Writes ==
    /\ \/ Does("put") /\ stack' = Append(ButTop, 0)
       \/ Does("use") /\ UNCHANGED stack
    /\ Note(Micro[2], "body")
    /\ Onward /\ UNCHANGED <<regs, moves, contexts>>

\* The value pushed is on the root stack while the buffer is flushed.
Pushes ==
    /\ Does("push") /\ stack' = Append(stack, 0)
    /\ Note(Micro[2], "body") /\ Move(Micro[2])
    /\ Onward /\ UNCHANGED contexts

Frames ==
    /\ \/ Does("context") /\ contexts' = contexts + 1 /\ Move({})
       \/ Does("jump") /\ UNCHANGED <<contexts, moves, regs>>
    /\ Onward /\ UNCHANGED <<stack, stale>>

Passes ==
    /\ Does("check0") \/ Does("check1")
    /\ Onward /\ UNCHANGED <<stack, regs, moves, contexts, stale>>

\* TRAP1 puts x back, after making room with CHECKVAL_PUSH.
GiveBack(n) ==
    IF Does("check1") THEN stack' = Append(stack, regs["x"].v) /\ (stale' = stale \/ stale' = stale \cup {"trap"})
                      ELSE UNCHANGED <<stack, stale>>

\* The test of op_field that tells calls (opcodes 20 to 22, 24 and 25) from the rest
\* also catches STORE-SLOT, 26, and misses ^SUPER-CXT and ^SUPER-TAIL, 33 and 34.
NoContext == {"FUNCALL-CXT", "FUNCALL-TAIL", "CHECK-NARGS", "STORE-SLOT"}

Traps ==
    /\ Does("check0") \/ Does("check1")
    /\ GiveBack(Micro[2])
    /\ nargs' = Micro[2]
    /\ contexts' = IF op \in NoContext \/ tail THEN contexts ELSE contexts + 1
    /\ UNCHANGED <<op, step, regs, moves, tail>>

Done == ~ Running /\ UNCHANGED vars

Next == TakesTop \/ MayMove \/ Writes \/ Pushes \/ Frames \/ Passes \/ Traps \/ Done

Spec == Init /\ [][Next]_vars

----------------------------------------------------------------------------
\* An instruction that does not trap uses no local that was loaded before the last
\* collection.
NoStaleUse == "body" \notin stale

\* The instructions whose traps do otherwise than the comments in the trap code say.
Divergent == {"STORE-SLOT", "STORE-REG", "^SUPER-CXT", "^SUPER-TAIL"}

Net(i) == LET count(k) == Cardinality({n \in DOMAIN Programs[i] : Programs[i][n][1] = k})
          IN  count("push") - count("pop") - count("drop")

Trapped == nargs # None

\* The trap operation finds the operands where the instruction found them, an inline
\* one above them.
OperandsGivenBack ==
    \/ stack = [i \in 1 .. Height |-> i]
    \/ op = "LOAD-IMM-CON" /\ stack = [i \in 1 .. Height + 1 |-> IF i > Height THEN Inline ELSE i]

\* The handler's one result takes the place of the instruction's, and its return comes
\* back behind the instruction: by the frame of a call or the one the trap pushed, or
\* at the end of a method by its caller's.
TrapStandsIn ==
    /\ op \notin Calls => Len(stack) - nargs + 1 = Height + Net(op)
    /\ contexts = IF op \in {"FUNCALL-CXT", "^SUPER-CXT"} THEN 1
                  ELSE IF op \in Calls \/ tail THEN 0 ELSE 1

\* What the comments above TRAP0 and in the trap code say of every instruction.
TrapProtocol == Trapped => OperandsGivenBack /\ TrapStandsIn

\* It holds but for the instructions named as divergent.
TrapProtocolElsewhere == op \notin Divergent => TrapProtocol
=============================================================================
