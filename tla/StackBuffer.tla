---------------------------- MODULE StackBuffer ----------------------------
(***************************************************************************)
(* A stack of the virtual machine: a buffer of fixed size holds its top,   *)
(* and a list of segments in the heap, never written again, holds the      *)
(* rest.  Continuations share segments with the stack and one another.     *)
(* Instructions check for room and for depth at this level only.           *)
(***************************************************************************)
EXTENDS Integers, Sequences, SequencesExt, FiniteSetsExt

CONSTANTS
    Size, FillTarget,   \* of the buffer
    MaxSegment,         \* max_segment_size
    Deepest,            \* how far below the top an instruction reaches
    Pushes, Kept,       \* as in HeldStack
    MaxHeight, MaxCaptured  \* bounds of the model

\* What parse_cmd_line ensures.
StackAssumption ==
    /\ Size >= Deepest + MaxSegment /\ FillTarget = Size \div 2
    /\ MaxSegment \in Nat \ {0} /\ Deepest \in Nat
    /\ \A s \in Pushes : Len(s) + FillTarget < Size

VARIABLES stack, conts

vars == <<stack, conts>>

Mark == 1234

Init ==
    /\ stack = [buffer |-> <<Mark>>, segments |-> <<>>, pushed_count |-> 0, fatal |-> FALSE]
    /\ conts = <<>>

----------------------------------------------------------------------------
Count(s) == Len(s.buffer)

\* The pieces of a sequence that make full segments and one rest.
Pieces(q) ==
    [i \in 1 .. (Len(q) + MaxSegment - 1) \div MaxSegment |->
        SubSeq(q, (i - 1) * MaxSegment + 1, Min({i * MaxSegment, Len(q)}))]

\* stack_flush: all but the top few become segments; the last one is the head.
StackFlush(s, amount_to_leave) ==
    LET n == Count(s) - amount_to_leave
    IN  [s EXCEPT !.buffer = SubSeq(@, n + 1, Len(@)),
                  !.segments = @ \o Pieces(SubSeq(s.buffer, 1, n)),
                  !.pushed_count = @ + n]

Topmost(s, k) == SubSeq(s.segments, Len(s.segments) - k + 1, Len(s.segments))

Enough(s, n, k) == Count(s) + Len(FlattenSeq(Topmost(s, k))) > n

\* Mutant: what is pulled in is still counted as flushed.
KeepCount(s, pulled) == s.pushed_count

CountOff(s, pulled) == s.pushed_count - Len(pulled)

\* stack_unflush: whole segments, until more than n values are there.
StackUnflush(s, n) ==
    LET enough == {k \in 0 .. Len(s.segments) : Enough(s, n, k)}
    IN  IF enough = {} THEN [s EXCEPT !.fatal = TRUE]
        ELSE LET pulled == FlattenSeq(Topmost(s, Min(enough)))
             IN  [buffer |-> pulled \o s.buffer,
                  segments |-> SubSeq(s.segments, 1, Len(s.segments) - Min(enough)),
                  pushed_count |-> CountOff(s, pulled),
                  fatal |-> Len(pulled) + Count(s) > Size]

Top(s, n) == [s EXCEPT !.buffer = SubSeq(@, 1, Len(@) - n)]

\* stack_pop_n: segments wholly within the pop go without being copied.
StackPopN(s, n) ==
    IF n < Count(s) THEN Top(s, n)
    ELSE LET rest == n - Count(s)
             size(k) == Len(FlattenSeq(Topmost(s, k)))
             drop == Max({k \in 0 .. Len(s.segments) : size(k) <= rest})
             left == [buffer |-> <<>>, fatal |-> FALSE,
                      segments |-> SubSeq(s.segments, 1, Len(s.segments) - drop),
                      pushed_count |-> s.pushed_count - size(drop)]
             back == StackUnflush(left, rest - size(drop))
         IN  IF back.fatal THEN back ELSE Top(back, rest - size(drop))

CheckPush(s, n) == IF Count(s) + n > Size THEN StackFlush(s, FillTarget) ELSE s

CheckPop(s, n) == IF n > Count(s) - 1 THEN StackUnflush(s, n) ELSE s

Height(s) == Count(s) + s.pushed_count

----------------------------------------------------------------------------
\* PUSHVAL, PUSH_CONTEXT and the pushes that follow a CHECKVAL_PUSH.
Push ==
    /\ \E q \in Pushes :
          /\ Height(stack) + Len(q) <= MaxHeight
          /\ stack' = [CheckPush(stack, Len(q)) EXCEPT !.buffer = @ \o q]
    /\ UNCHANGED conts

\* LOAD-STK, and the checks of SWAP, BLAST, BLT-STACK, FUNCALL: the reach is made safe.
Reach ==
    /\ \E n \in 1 .. Deepest : n < Height(stack) /\ stack' = CheckPop(stack, n)
    /\ UNCHANGED conts

\* POPVAL, POP_CONTEXT: the depth is made safe, then the values go.
Pop ==
    /\ \E n \in 1 .. Deepest :
          /\ n < Height(stack)
          /\ stack' = LET s == CheckPop(stack, n) IN IF s.fatal THEN s ELSE Top(s, n)
    /\ UNCHANGED conts

\* POP n, and THROW to the height that FILLTAG noted: BASH_VAL_HEIGHT, POPVALS.
Throw ==
    /\ \E h \in 1 .. Height(stack) - 1 : stack' = StackPopN(stack, Height(stack) - h)
    /\ UNCHANGED conts

\* Mutant: the continuation is filled while the top is in the buffer.
FillUnflushed ==
    /\ Height(stack) > Kept /\ Len(conts) < MaxCaptured
    /\ conts' = Append(conts, <<stack.segments, stack.pushed_count>>) /\ UNCHANGED stack

\* FILL-CONTINUATION: all but the continuation and its argument goes to segments.
FillContinuation ==
    /\ Height(stack) > Kept /\ Len(conts) < MaxCaptured
    /\ stack' = StackFlush(CheckPop(stack, Max({Kept - 1, 0})), Kept)
    /\ conts' = Append(conts, <<stack'.segments, stack'.pushed_count>>)

\* CONTINUE: the argument is all that stays of the value stack's buffer, and nothing
\* of the other's.
Continue ==
    /\ \E i \in DOMAIN conts :
          stack' = [buffer |-> IF Kept = 0 THEN <<>> ELSE <<Last(stack.buffer)>>, fatal |-> FALSE,
                    segments |-> conts[i][1], pushed_count |-> conts[i][2]]
    /\ UNCHANGED conts

Next == Push \/ Reach \/ Pop \/ Throw \/ FillContinuation \/ Continue

Spec == Init /\ [][Next]_vars

----------------------------------------------------------------------------
\* However values went to segments and back, shared with continuations or dropped
\* unseen, the stack is the sequence that the instructions made.
Flat(segments, buffer) == FlattenSeq(segments) \o buffer

Held == INSTANCE HeldStack WITH
          held <- Flat(stack.segments, stack.buffer),
          captured <- [i \in DOMAIN conts |-> Flat(conts[i][1], <<>>)]

ImplementsStack == Held!Spec

\* No check that an instruction makes for values that exist ends in a fatal error,
\* neither for want of segments nor for want of room in the buffer, and the count
\* of flushed values, by which THROW measures, is what the segments hold.
NeverFatal ==
    /\ ~ stack.fatal /\ Len(stack.buffer) <= Size
    /\ stack.pushed_count = Len(FlattenSeq(stack.segments))

\* PEEKVAL: the top is in the buffer, except between a capture and the return of a
\* context stack.
TopVisible == stack.buffer = <<>> => Kept = 0
=============================================================================
