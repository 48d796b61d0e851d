----------------------------- MODULE HeapAccess -----------------------------
(***************************************************************************)
(* What every stop-the-world collection promises the rest of the system,   *)
(* whatever flags and locks it is made of: a moving or marking pause owns   *)
(* the heap, and nobody joins the heap while it lasts.                     *)
(***************************************************************************)
CONSTANT Workers

VARIABLES
    inHeap,             \* the workers that may read and write objects
    collector           \* the worker whose pause it is, as a set of at most one

vars == <<inHeap, collector>>

Init == inHeap \subseteq Workers /\ collector = {}

\* Workers come and go, and a new one may be let in by one already there.
Enter(w) == collector = {} /\ inHeap' = inHeap \cup {w} /\ UNCHANGED collector

Leave(w) == inHeap' = inHeap \ {w} /\ UNCHANGED collector

Begin(w) == inHeap = {} /\ collector = {} /\ collector' = {w} /\ UNCHANGED inHeap

End(w)   == collector = {w} /\ collector' = {} /\ UNCHANGED inHeap

Next == \E w \in Workers : Enter(w) \/ Leave(w) \/ Begin(w) \/ End(w)

Spec == Init /\ [][Next]_vars

=============================================================================
