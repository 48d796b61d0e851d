----------------------------- MODULE HeldStack -----------------------------
(***************************************************************************)
(* What a stack of the virtual machine promises: a sequence of values of   *)
(* any height, of which a continuation remembers a part that can be put    *)
(* back.  Where the values are kept is the business of StackBuffer.        *)
(***************************************************************************)
EXTENDS Integers, Sequences, SequencesExt

CONSTANTS
    Pushes,         \* the groups of values that instructions push
    Kept            \* values above a continuation: 2 on the value stack, 0 on the other

VARIABLES
    held,           \* the stack, bottom first
    captured        \* what each continuation remembers, latest last

vars == <<held, captured>>

\* The mark at the bottom, which is never popped.
Init == Len(held) = 1 /\ captured = <<>>

Push == \E s \in Pushes : held' = held \o s /\ UNCHANGED captured

\* An unwinding to a height: at least the mark stays.
Drop == \E h \in 1 .. Len(held) - 1 : held' = SubSeq(held, 1, h) /\ UNCHANGED captured

Capture ==
    /\ Len(held) > Kept
    /\ captured' = Append(captured, SubSeq(held, 1, Len(held) - Kept)) /\ UNCHANGED held

\* The value on top is what the continuation is given; the other stack has none.
Resume ==
    \E i \in DOMAIN captured :
       /\ held' = IF Kept = 0 THEN captured[i] ELSE Append(captured[i], Last(held))
       /\ UNCHANGED captured

Next == Push \/ Drop \/ Capture \/ Resume

Spec == Init /\ [][Next]_vars
=============================================================================
