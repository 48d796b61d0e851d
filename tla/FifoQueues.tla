------------------------------ MODULE FifoQueues ------------------------------
(***************************************************************************)
(* What the queues of multiproc.oak promise: each is a sequence, objects   *)
(* leave a queue in the order in which they entered it, and joining two    *)
(* queues moves what the second holds behind what the first holds.         *)
(***************************************************************************)
EXTENDS Naturals, Sequences

CONSTANTS Queues, Objects

VARIABLES
  contents,
  taken,     \* the object that the last dequeue returned
  entered    \* how many objects entered: an enqueue that adds nothing is a step

Put(q, x) ==
  /\ contents' = [contents EXCEPT ![q] = Append(@, x)]
  /\ entered' = entered + 1
  /\ UNCHANGED taken

Take(q) ==
  /\ contents[q] # <<>>
  /\ contents' = [contents EXCEPT ![q] = Tail(@)]
  /\ taken' = Head(contents[q])
  /\ UNCHANGED entered

Join(q, r) ==
  /\ contents' = [contents EXCEPT ![q] = @ \o contents[r], ![r] = <<>>]
  /\ UNCHANGED <<taken, entered>>

Init == contents = [q \in Queues |-> <<>>] /\ taken \notin Objects /\ entered = 0
Next == \/ \E q \in Queues : Take(q) \/ \E x \in Objects : Put(q, x)
        \/ \E q, r \in Queues : q # r /\ Join(q, r)
vars == <<contents, taken, entered>>
Spec == Init /\ [][Next]_vars
================================================================================
