------------------------------ MODULE Windings ------------------------------
(***************************************************************************)
(* Dynamic state: fluid bindings, catch and throw, dynamic-wind and        *)
(* call/cc of the run-time system (src/src/world).  A computation is a     *)
(* stack of frames; the system keeps beside it the list %windings of the   *)
(* guards to run, its length, and the list of fluid bindings, and has to   *)
(* keep them in step over every jump.  What the run-time system has still  *)
(* to do before the program goes on is in todo.                            *)
(***************************************************************************)
EXTENDS Integers, Sequences, SequencesExt, FiniteSetsExt, Functions

CONSTANTS
    GuardsThrow,        \* whether guards may throw
    Values,             \* of fluid variables
    MaxWinds, MaxDepth, MaxConts    \* bounds: calls of dynamic-wind, frames, continuations

WindingsAssumption ==
    GuardsThrow \in BOOLEAN /\ {MaxWinds, MaxDepth, MaxConts} \subseteq Nat

VARIABLES
    stack,              \* frames of dynamic-wind, bind, catch and call/cc, innermost last
    windings,           \* %windings, innermost last: the guards of one call, and its bindings
    wind_count,
    bindings,           \* fluid-binding-list
    conts,              \* the continuations that the program holds
    cleanup,            \* %%join-count, %%new-windings and %%new-wind-count, if needed
    todo,
    inside, made        \* calls of dynamic-wind that are entered, and how many were made

dynamic == <<windings, wind_count, bindings>>
vars    == <<stack, dynamic, conts, cleanup, todo, inside, made>>

Init ==
    /\ stack = <<>> /\ windings = <<>> /\ wind_count = 0 /\ bindings = <<>>
    /\ conts = <<>> /\ cleanup = <<>> /\ todo = <<>> /\ inside = {} /\ made = 0

Kind(frame)     == frame[1]
Program         == todo = <<>>
System(op)      == todo # <<>> /\ Head(todo)[1] = op
Room            == Program /\ Len(stack) < MaxDepth
Returns(kind)   == Program /\ stack # <<>> /\ Kind(Last(stack)) = kind

----------------------------------------------------------------------------
(* What the program does.                                                  *)

DynamicWind ==
    /\ Room /\ made < MaxWinds /\ made' = made + 1
    /\ todo' = << <<"before", made'>>, <<"push", made'>> >>
    /\ UNCHANGED <<stack, dynamic, conts, cleanup, inside>>

WindReturns ==
    /\ Returns("wind")
    /\ stack' = Front(stack) /\ windings' = Front(windings) /\ wind_count' = wind_count - 1
    /\ todo' = << <<"after", Last(stack)[2]>> >>
    /\ UNCHANGED <<bindings, conts, cleanup, inside, made>>

Bind ==
    /\ Room
    /\ \E v \in Values : bindings' = Append(bindings, v)
    /\ stack' = Append(stack, <<"bind", bindings, bindings'>>)
    /\ UNCHANGED <<windings, wind_count, conts, cleanup, todo, inside, made>>

BindReturns ==
    /\ Returns("bind")
    /\ bindings' = Last(stack)[2] /\ stack' = Front(stack)
    /\ UNCHANGED <<windings, wind_count, conts, cleanup, todo, inside, made>>

Catch ==
    /\ Room /\ stack' = Append(stack, <<"catch", wind_count, bindings>>)
    /\ UNCHANGED <<dynamic, conts, cleanup, todo, inside, made>>

CatchReturns ==
    /\ Returns("catch") /\ stack' = Front(stack)
    /\ UNCHANGED <<dynamic, conts, cleanup, todo, inside, made>>

\* call/cc binds nothing, and so restores the bindings whoever comes back to it.
CallCc ==
    /\ Room /\ Len(conts) < MaxConts
    /\ stack' = Append(stack, <<"call/cc", bindings>>)
    /\ conts' = Append(conts, [stack |-> stack', windings |-> windings, count |-> wind_count])
    /\ UNCHANGED <<dynamic, cleanup, todo, inside, made>>

CallCcReturns ==
    /\ Returns("call/cc") /\ todo' = << <<"return">> >>
    /\ UNCHANGED <<stack, dynamic, conts, cleanup, inside, made>>

Throwing(i) == << <<"unwind", windings, wind_count, stack[i][2]>>, <<"throw", i>> >>

Throw ==
    /\ Program /\ \E i \in DOMAIN stack : Kind(stack[i]) = "catch" /\ todo' = Throwing(i)
    /\ UNCHANGED <<stack, dynamic, conts, cleanup, inside, made>>

\* Mutant: lists of one length are not compared.
JoinAtCount(w0, c0, w1, c1) == Min({c0, c1})

\* find-join-point: the longer list is cut first, then both are until they are one.
FindJoinPoint(w0, c0, w1, c1) ==
    LET count == Min({c0, c1})
        cut(w, c, n) == SubSeq(w, 1, Len(w) - (c - n))
    IN  Max({n \in 0 .. count : cut(w0, c0, n) = cut(w1, c1, n)})

Continue ==
    /\ Program
    /\ \E k \in Range(conts) :
          LET join == FindJoinPoint(windings, wind_count, k.windings, k.count)
          IN  todo' = << <<"unwind", windings, wind_count, join>>, <<"continue", k, join>> >>
    /\ UNCHANGED <<stack, dynamic, conts, cleanup, inside, made>>

----------------------------------------------------------------------------
(* What the system does.                                                   *)

\* A guard runs, and comes back or throws to a catch outside; a call is entered when its
\* first guard has come back, and left when the other is called.
Guard ==
    /\ System("before") \/ System("after")
    /\ LET first == Head(todo)[1] = "before"
           out   == inside \ {Head(todo)[2]}
       IN  \/ todo' = Tail(todo) /\ inside' = IF first THEN inside \cup {Head(todo)[2]} ELSE out
           \/ /\ GuardsThrow
              /\ \E i \in DOMAIN stack :
                    Kind(stack[i]) = "catch" /\ stack[i][2] <= wind_count /\ todo' = Throwing(i)
              /\ inside' = IF first THEN inside ELSE out
    /\ UNCHANGED <<stack, dynamic, conts, cleanup, made>>

Push ==
    /\ System("push") /\ todo' = Tail(todo)
    /\ windings' = Append(windings, <<Head(todo)[2], bindings>>) /\ wind_count' = wind_count + 1
    /\ stack' = Append(stack, <<"wind", Head(todo)[2]>>)
    /\ UNCHANGED <<bindings, conts, cleanup, inside, made>>

\* unwind: the guard runs while its entry is still on the list.
Unwind ==
    /\ System("unwind")
    /\ LET w == Head(todo)[2]  c == Head(todo)[3]  to == Head(todo)[4]
       IN  /\ windings' = w /\ wind_count' = c
           /\ IF c = to THEN todo' = Tail(todo) /\ UNCHANGED bindings
              ELSE /\ bindings' = Last(w)[2]
                   /\ todo' = << <<"after", Last(w)[1]>>, <<"unwind", Front(w), c - 1, to>> >> \o Tail(todo)
    /\ UNCHANGED <<stack, conts, cleanup, inside, made>>

\* Only now the stacks are chopped.
ThrowArrives ==
    /\ System("throw")
    /\ LET i == Head(todo)[2]
       IN  bindings' = stack[i][3] /\ stack' = SubSeq(stack, 1, i - 1)
    /\ todo' = <<>>
    /\ UNCHANGED <<windings, wind_count, conts, cleanup, inside, made>>

\* The stack of the continuation replaces this one; the rest is left in globals.
ContinueArrives ==
    /\ System("continue")
    /\ LET k == Head(todo)[2]
       IN  stack' = k.stack /\ cleanup' = <<Head(todo)[3], k.windings>>
    /\ todo' = << <<"return">> >>
    /\ UNCHANGED <<dynamic, conts, inside, made>>

Rewinding(join, to) ==
    FlattenSeq([j \in 1 .. Len(to) - join |->
        << <<"rewind", SubSeq(to, 1, join + j)>>, <<"before", to[join + j][1]>> >>])

\* Back from %call/cc, by a value or by a continuation.
ReturnFromCallCc ==
    /\ System("return")
    /\ IF cleanup = <<>>
       THEN /\ bindings' = Last(stack)[2] /\ stack' = Front(stack) /\ todo' = <<>>
            /\ UNCHANGED cleanup
       ELSE /\ cleanup' = <<>> /\ todo' = Rewinding(cleanup[1], cleanup[2]) \o << <<"return">> >>
            /\ UNCHANGED <<bindings, stack>>
    /\ UNCHANGED <<windings, wind_count, conts, inside, made>>

Rewind ==
    /\ System("rewind") /\ todo' = Tail(todo)
    /\ LET to == Head(todo)[2]
       IN  windings' = to /\ wind_count' = Len(to) /\ bindings' = Last(to)[2]
    /\ UNCHANGED <<stack, conts, cleanup, inside, made>>

Next ==
    \/ DynamicWind \/ WindReturns \/ Bind \/ BindReturns \/ Catch \/ CatchReturns
    \/ CallCc \/ CallCcReturns \/ Throw \/ Continue
    \/ Guard \/ Push \/ Unwind \/ ThrowArrives \/ ContinueArrives \/ ReturnFromCallCc \/ Rewind

Spec == Init /\ [][Next]_vars

----------------------------------------------------------------------------
WindFrames  == SelectSeq(stack, LAMBDA f : Kind(f) = "wind")
BindFrames  == SelectSeq(stack, LAMBDA f : Kind(f) = "bind")

\* Whenever the program runs, however it got there: the list of windings is that of the
\* calls of dynamic-wind it is in, whose guards have let it in, the count is its length,
\* and the fluid variables have the values that the frames of BIND around it say.
WindsMatch ==
    Program => /\ [i \in DOMAIN windings |-> windings[i][1]] = [i \in DOMAIN WindFrames |-> WindFrames[i][2]]
               /\ wind_count = Len(windings)
               /\ inside = Range([i \in DOMAIN WindFrames |-> WindFrames[i][2]])
               /\ bindings = IF BindFrames = <<>> THEN <<>> ELSE Last(BindFrames)[3]

\* Guards alternate: no call is left that was not entered, nor entered twice.
GuardsAlternate ==
    /\ System("after") => Head(todo)[2] \in inside
    /\ System("before") => Head(todo)[2] \notin inside
=============================================================================
