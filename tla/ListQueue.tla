------------------------------ MODULE ListQueue -------------------------------
(***************************************************************************)
(* The queues of src/src/world/multiproc.oak as they are represented: a    *)
(* pair of a list and of the last pair of that list, so that adding at the *)
(* end costs no walk.  Pairs are numbered in the order of their allocation.*)
(* A definition marked Mutant is a plausible slip that nothing here uses.  *)
(***************************************************************************)
EXTENDS Integers, Sequences

CONSTANTS
  Queues, Objects,
  Nil,          \* the empty list
  MaxPairs      \* bound: pairs allocated

ListQueueAssumption == MaxPairs \in Nat /\ Nil \notin Objects \cup Nat

VARIABLES
  car, cdr,     \* the pairs of the lists
  used,         \* pairs allocated so far
  head, last,   \* (car q) and (cdr q)
  given,        \* queues that a qappend has joined to another
  taken,        \* what the last dequeue returned
  entered       \* auxiliary: enqueues so far, the objects that must come out

heap == <<car, cdr, used>>
vars == <<heap, head, last, given, taken, entered>>

\* (make-queue) is (list '()): a list and a last pair that are both empty.
Init ==
  /\ car = [p \in 1 .. MaxPairs |-> Nil] /\ cdr = [p \in 1 .. MaxPairs |-> Nil]
  /\ used = 0
  /\ head = [q \in Queues |-> Nil] /\ last = [q \in Queues |-> Nil]
  /\ given = {} /\ taken = Nil /\ entered = 0

\* The objects of the list that begins with pair p.
ListFrom[n \in 0 .. MaxPairs] ==
  [p \in 1 .. MaxPairs \cup {Nil} |->
     IF n = 0 \/ p = Nil THEN <<>> ELSE <<car[p]>> \o ListFrom[n - 1][cdr[p]]]
List(p) == ListFrom[MaxPairs][p]

Enqueue(q, x) ==
  /\ used < MaxPairs
  /\ used' = used + 1
  /\ car' = [car EXCEPT ![used'] = x]
  /\ IF head[q] = Nil
     THEN head' = [head EXCEPT ![q] = used'] /\ UNCHANGED cdr
     ELSE cdr' = [cdr EXCEPT ![last[q]] = used'] /\ UNCHANGED head
  /\ last' = [last EXCEPT ![q] = used']
  /\ entered' = entered + 1
  /\ UNCHANGED <<given, taken>>

\* Every caller has made sure that there is something to pop.
Dequeue(q) ==
  /\ head[q] # Nil
  /\ taken' = car[head[q]]
  /\ head' = [head EXCEPT ![q] = cdr[head[q]]]
  /\ UNCHANGED <<heap, last, given, entered>>

\* Mutant: the last pair of the joined queue stays that of its first part.
QappendKeepsLast(q, r) ==
  /\ head[r] # Nil
  /\ LET old == List(head[q])
         n == Len(old)
         new == used + 1 .. used + n IN
     /\ used + n <= MaxPairs
     /\ used' = used + n
     /\ car' = [p \in 1 .. MaxPairs |-> IF p \in new THEN old[p - used] ELSE car[p]]
     /\ cdr' = [p \in 1 .. MaxPairs |-> IF p \notin new THEN cdr[p]
                                        ELSE IF p = used + n THEN head[r] ELSE p + 1]
     /\ head' = [head EXCEPT ![q] = IF n = 0 THEN head[r] ELSE used + 1]
     /\ given' = given \cup {r}
  /\ UNCHANGED <<last, taken, entered>>

\* APPEND copies the list of q and shares the pairs of the list of r.
Qappend(q, r) ==
  /\ head[r] # Nil
  /\ LET old == List(head[q])
         n == Len(old)
         new == used + 1 .. used + n IN
     /\ used + n <= MaxPairs
     /\ used' = used + n
     /\ car' = [p \in 1 .. MaxPairs |-> IF p \in new THEN old[p - used] ELSE car[p]]
     /\ cdr' = [p \in 1 .. MaxPairs |-> IF p \notin new THEN cdr[p]
                                        ELSE IF p = used + n THEN head[r] ELSE p + 1]
     /\ head' = [head EXCEPT ![q] = IF n = 0 THEN head[r] ELSE used + 1]
     /\ last' = [last EXCEPT ![q] = last[r]]
  /\ given' = given \cup {r}
  /\ UNCHANGED <<taken, entered>>

\* Who uses a queue that has been given away?  FORCE does not: the flag of the
\* future is set before its dependants are appended to the scheduler's queue.
Next ==
  \/ \E q \in Queues \ given : Dequeue(q) \/ \E x \in Objects : Enqueue(q, x)
  \/ \E q, r \in Queues \ given : q # r /\ Qappend(q, r)

Spec == Init /\ [][Next]_vars

--------------------------------------------------------------------------------
\* The pairs implement first-in first-out queues: whatever the sequence of
\* enqueue, dequeue and qappend, each dequeue returns the oldest object and none
\* that entered is lost, although qappend leaves two queues that share pairs and
\* last pairs that are out of date.
Fifo == INSTANCE FifoQueues WITH
          contents <- [q \in Queues |-> IF q \in given THEN <<>> ELSE List(head[q])]
ImplementsFifo == Fifo!Spec

================================================================================
