--------------------------- MODULE ListQueueProofs ---------------------------
(***************************************************************************)
(* Proof that the queues of multiproc.oak, as pairs with a last pair that  *)
(* may be out of date, are first-in first-out queues: ListQueue implements *)
(* FifoQueues, for any queues, objects and number of pairs.                *)
(*                                                                         *)
(* The argument: for each queue that has not been given away there is a    *)
(* sequence of pairs, linked by their cdrs from the head to Nil, and no    *)
(* pair is at two places of these sequences (Chained).  Sharing happens    *)
(* only with queues that have been given away, and a last pair counts only *)
(* while the queue is not empty.  That the list which begins at the head   *)
(* holds the cars of the sequence is an induction over its length, by the  *)
(* least-number principle (SetInduction).                                  *)
(***************************************************************************)
EXTENDS ListQueue, FiniteSetTheorems, SequenceTheorems, WellFoundedInduction, TLAPS

Pairs == 1 .. MaxPairs
Links == Pairs \cup {Nil}

----------------------------------------------------------------------------
(* Induction over a set of numbers, and what it says of ListFrom.          *)

\* Induction, for a property given as the set of numbers that have it.
LEMMA SetInduction ==
  ASSUME NEW S, 0 \in S, \A n \in Nat : n \in S => n + 1 \in S
  PROVE  Nat \subseteq S
<1>1. SUFFICES ASSUME Nat \ S # {} PROVE FALSE
  OBVIOUS
<1>2. PICK m \in Nat \ S : \A x \in Nat \ S : ~ (<<x, m>> \in OpToRel(<, Nat))
  BY <1>1, NatLessThanWellFounded, WFMin
<1>3. \A x, y \in Nat : x < y => <<x, y>> \in OpToRel(<, Nat)
  BY DEF OpToRel
<1>4. m # 0
  BY <1>2, Zenon
<1>6. m - 1 \in Nat /\ m - 1 < m /\ (m - 1) + 1 = m
  BY <1>4
<1>5. m - 1 \in S
  BY <1>2, <1>3, <1>6
<1>. QED
  BY <1>2, <1>5, <1>6

\* The objects of a list, as far as n pairs go.
Walk(f, n) == [p \in Links |-> IF n = 0 \/ p = Nil THEN <<>> ELSE <<car[p]>> \o f[n - 1][cdr[p]]]

\* There is a function that its recursive definition describes.
LEMMA WalkExists ==
  ASSUME MaxPairs \in Nat
  PROVE  ListFrom = [n \in 0 .. MaxPairs |-> Walk(ListFrom, n)]
<1> DEFINE Upto(k) == \E f : DOMAIN f = 0 .. MaxPairs /\ \A n \in 0 .. MaxPairs : n <= k => f[n] = Walk(f, n)
           S == {k \in Nat : Upto(k)}
<1>1. 0 \in S
  <2> DEFINE f == [n \in 0 .. MaxPairs |-> [p \in Links |-> <<>>]]
  <2>1. f[0] = Walk(f, 0)
    BY DEF Walk
  <2>2. DOMAIN f = 0 .. MaxPairs /\ \A n \in 0 .. MaxPairs : n <= 0 => f[n] = Walk(f, n)
    BY <2>1
  <2> QED
    BY <2>2
<1>2. ASSUME NEW k \in Nat, k \in S PROVE k + 1 \in S
  <2>1. PICK f : DOMAIN f = 0 .. MaxPairs /\ \A n \in 0 .. MaxPairs : n <= k => f[n] = Walk(f, n)
    BY <1>2
  <2> DEFINE g == [n \in 0 .. MaxPairs |-> IF n = k + 1 THEN Walk(f, n) ELSE f[n]]
  <2>2. ASSUME NEW n \in 0 .. MaxPairs, n <= k + 1 PROVE g[n] = Walk(g, n)
    <3>1. n # 0 => g[n - 1] = f[n - 1]
      BY <2>2
    <3> HIDE DEF g
    <3>2. Walk(g, n) = Walk(f, n)
      <4>1. ASSUME NEW p \in Links
            PROVE  (IF n = 0 \/ p = Nil THEN <<>> ELSE <<car[p]>> \o g[n - 1][cdr[p]])
                   = (IF n = 0 \/ p = Nil THEN <<>> ELSE <<car[p]>> \o f[n - 1][cdr[p]])
        BY <3>1, Zenon
      <4> QED
        BY <4>1 DEF Walk
    <3> USE DEF g
    <3> QED
      BY <2>1, <2>2, <3>2
  <2>3. DOMAIN g = 0 .. MaxPairs
    OBVIOUS
  <2> HIDE DEF g
  <2> QED
    BY <2>2, <2>3
<1>3. MaxPairs \in S
  <2> HIDE DEF S
  <2> QED
    BY <1>1, <1>2, SetInduction
<1>4. PICK f : DOMAIN f = 0 .. MaxPairs /\ \A n \in 0 .. MaxPairs : f[n] = Walk(f, n)
  BY <1>3
<1>5. \E f1 : f1 = [n \in 0 .. MaxPairs |-> Walk(f1, n)]
  <2> DEFINE h == [n \in 0 .. MaxPairs |-> f[n]]
  <2>1. \A n \in 0 .. MaxPairs : h[n] = Walk(h, n)
    BY <1>4 DEF Walk
  <2>2. h = [n \in 0 .. MaxPairs |-> Walk(h, n)]
    BY <2>1
  <2> HIDE DEF h
  <2> QED
    BY <2>2
<1>6. ListFrom = CHOOSE f1 : f1 = [n \in 0 .. MaxPairs |-> Walk(f1, n)]
  BY DEF ListFrom, Walk, Links, Pairs
<1> QED
  BY <1>5, <1>6

\* What the pairs of s hold.
Cars(s) == [i \in 1 .. Len(s) |-> car[s[i]]]

\* The pairs of s, in this order, are the list that begins with p.
Linked(s, p) ==
  /\ p = IF s = <<>> THEN Nil ELSE s[1]
  /\ \A i \in 1 .. Len(s) : cdr[s[i]] = IF i = Len(s) THEN Nil ELSE s[i + 1]

\* A sequence is its first element and the rest.
LEMMA FirstAndRest ==
  ASSUME NEW n \in Nat, NEW f, f = [i \in 1 .. n + 1 |-> f[i]]
  PROVE  <<f[1]>> \o [i \in 1 .. n |-> f[i + 1]] = f
<1> DEFINE T == {f[i] : i \in 1 .. n + 1}
           r == [i \in 1 .. n |-> f[i + 1]]
<1>1. <<f[1]>> \in Seq(T) /\ Len(<<f[1]>>) = 1 /\ <<f[1]>>[1] = f[1]
  OBVIOUS
<1>2. r \in Seq(T) /\ Len(r) = n
  <2>1. \A i \in 1 .. n : i + 1 \in 1 .. n + 1
    OBVIOUS
  <2>2. r \in [1 .. n -> T]
    BY <2>1
  <2> HIDE DEF r, T
  <2> QED
    BY <2>2
<1>3. f \in Seq(T) /\ Len(f) = n + 1
  <2>1. f \in [1 .. n + 1 -> T]
    OBVIOUS
  <2> QED
    BY <2>1
<1>4. /\ <<f[1]>> \o r \in Seq(T) /\ Len(<<f[1]>> \o r) = 1 + n
      /\ \A i \in 1 .. 1 + n : (<<f[1]>> \o r)[i] = IF i <= 1 THEN <<f[1]>>[i] ELSE r[i - 1]
  <2> HIDE DEF r, T
  <2> QED
    BY <1>1, <1>2, ConcatProperties
<1>5. ASSUME NEW i \in 1 .. 1 + n PROVE (<<f[1]>> \o r)[i] = f[i]
  <2>1. CASE i <= 1
    BY <1>1, <1>4, <2>1
  <2>2. CASE i > 1
    <3>1. r[i - 1] = f[i]
      BY <2>2
    <3> HIDE DEF r
    <3> QED
      BY <1>4, <2>2, <3>1
  <2> QED
    BY <2>1, <2>2
<1>6. 1 + n = n + 1
  OBVIOUS
<1> HIDE DEF r, T
<1>7. <<f[1]>> \o r = f
  BY <1>3, <1>4, <1>5, <1>6, SeqEqual, Zenon
<1> QED
  BY <1>7 DEF r

\* If pairs are linked, the list that begins with the first of them holds their cars.
LEMMA ListIsCars ==
  ASSUME ListQueueAssumption, NEW s \in Seq(Pairs), NEW p, Linked(s, p), Len(s) <= MaxPairs
  PROVE  List(p) = Cars(s)
<1> DEFINE At(j)   == IF j = Len(s) THEN Nil ELSE s[j + 1]
           Rest(j) == [i \in 1 .. Len(s) - j |-> car[s[i + j]]]
           Done(n) == n <= MaxPairs =>
                        \A j \in 0 .. Len(s) : Len(s) - j <= n => ListFrom[n][At(j)] = Rest(j)
           S == {n \in Nat : Done(n)}
<1>0. MaxPairs \in Nat /\ Nil \notin Nat /\ Len(s) \in Nat /\ \A j \in 1 .. Len(s) : s[j] \in Pairs
  BY ElementOfSeq, LenProperties DEF ListQueueAssumption
<1>1. \A n \in 0 .. MaxPairs : ListFrom[n] = Walk(ListFrom, n)
  BY <1>0, WalkExists
<1>2. ASSUME NEW n \in 0 .. MaxPairs, NEW q \in Links
      PROVE  ListFrom[n][q] = IF n = 0 \/ q = Nil THEN <<>> ELSE <<car[q]>> \o ListFrom[n - 1][cdr[q]]
  BY <1>1 DEF Walk
<1>3. At(Len(s)) = Nil /\ Rest(Len(s)) = <<>>
  BY <1>0
<1>4. \A n \in 0 .. MaxPairs : ListFrom[n][Nil] = <<>>
  BY <1>2 DEF Links
<1>5. 0 \in S
  BY <1>0, <1>3, <1>4
<1>6. ASSUME NEW n \in Nat, n \in S PROVE n + 1 \in S
  <2> SUFFICES ASSUME n + 1 <= MaxPairs, NEW j \in 0 .. Len(s), Len(s) - j <= n + 1
               PROVE  ListFrom[n + 1][At(j)] = Rest(j)
    OBVIOUS
  <2>1. CASE j = Len(s)
    BY <1>0, <1>3, <1>4, <2>1
  <2>2. CASE j # Len(s)
    <3>1. j + 1 \in 0 .. Len(s) /\ Len(s) - (j + 1) <= n /\ j + 1 \in 1 .. Len(s)
      BY <1>0, <2>2
    <3>2. ListFrom[n][At(j + 1)] = Rest(j + 1)
      BY <1>0, <1>6, <3>1
    <3>3. At(j) = s[j + 1] /\ s[j + 1] \in Pairs /\ cdr[s[j + 1]] = At(j + 1)
      BY <1>0, <2>2, <3>1 DEF Linked
    <3>4. ListFrom[n + 1][At(j)] = <<car[s[j + 1]]>> \o ListFrom[n][At(j + 1)]
      <4>1. n + 1 \in 0 .. MaxPairs /\ n + 1 # 0 /\ (n + 1) - 1 = n /\ s[j + 1] \in Links /\ s[j + 1] # Nil
        BY <1>0, <3>3 DEF Links, Pairs
      <4> QED
        BY <1>2, <3>3, <4>1
    <3>5. <<car[s[j + 1]]>> \o Rest(j + 1) = Rest(j)
      <4> DEFINE f == Rest(j)
                 m == Len(s) - j - 1
      <4>1. m \in Nat /\ m + 1 = Len(s) - j /\ Len(s) - (j + 1) = m
        BY <1>0, <3>1
      <4>2. f = [i \in 1 .. m + 1 |-> f[i]] /\ f[1] = car[s[j + 1]]
        BY <1>0, <4>1
      <4>3. Rest(j + 1) = [i \in 1 .. m |-> f[i + 1]]
        BY <1>0, <4>1
      <4> HIDE DEF f, m
      <4> QED
        BY <4>1, <4>2, <4>3, FirstAndRest, SMTT(30)
    <3> QED
      BY <3>2, <3>4, <3>5
  <2> QED
    BY <2>1, <2>2
<1>7. MaxPairs \in S
  <2> HIDE DEF S
  <2> QED
    BY <1>0, <1>5, <1>6, SetInduction
<1>8. At(0) = p /\ Rest(0) = Cars(s)
  <2>1. At(0) = p
    BY <1>0, EmptySeq DEF Linked
  <2> QED
    BY <1>0, <2>1 DEF Cars
<1> QED
  BY <1>0, <1>7, <1>8 DEF List

----------------------------------------------------------------------------
(* The inductive invariant.                                                *)

Types ==
  /\ used \in 0 .. MaxPairs
  /\ car \in [Pairs -> Objects \cup {Nil}] /\ cdr \in [Pairs -> Links]
  /\ \A p \in Pairs : used < p => cdr[p] = Nil
  /\ head \in [Queues -> Links] /\ last \in [Queues -> Links]
  /\ given \subseteq Queues

InUse == 1 .. used
Own   == Queues \ given

\* w gives the pairs of each queue, in order: they are a list, which ends where the
\* queue says unless it is empty, and no pair is in two places.
Chained(w) ==
  /\ w \in [Queues -> Seq(InUse)]
  /\ \A q \in Own : Linked(w[q], head[q])
  /\ \A q \in Own : w[q] # <<>> => last[q] = w[q][Len(w[q])]
  /\ \A q, r \in Own : \A i \in 1 .. Len(w[q]), j \in 1 .. Len(w[r]) :
       w[q][i] = w[r][j] => q = r /\ i = j

IInv == Types /\ \E w : Chained(w)

\* At first all chains are empty.
LEMMA InitChained ==
  ASSUME ListQueueAssumption, Init PROVE Types /\ Chained([q \in Queues |-> <<>>])
<1>1. Types
  BY DEF Init, Types, Links, Pairs, ListQueueAssumption
<1>2. Chained([q \in Queues |-> <<>>])
  BY DEF Init, Chained, Own, InUse, Linked
<1> QED
  BY <1>1, <1>2

\* A queue is shorter than the heap.
LEMMA ChainFits ==
  ASSUME ListQueueAssumption, Types, NEW w, Chained(w), NEW q \in Own
  PROVE  w[q] \in Seq(Pairs) /\ Len(w[q]) <= used
<1>0. MaxPairs \in Nat /\ used \in Nat /\ InUse \subseteq Pairs
  BY DEF ListQueueAssumption, Types, InUse, Pairs
<1>1. w[q] \in Seq(InUse) /\ w[q] \in [1 .. Len(w[q]) -> InUse] /\ Len(w[q]) \in Nat
  BY LenProperties DEF Chained, Own
<1>2. \A i, j \in 1 .. Len(w[q]) : w[q][i] = w[q][j] => i = j
  BY DEF Chained
<1>3. IsFiniteSet(InUse) /\ Cardinality(InUse) = used
  BY <1>0, FS_Interval DEF InUse
<1> DEFINE k == Len(w[q])
<1>4. IsFiniteSet(1 .. k) /\ Cardinality(1 .. k) = k
  <2>1. 1 \in Int /\ k \in Int /\ k - 1 + 1 = k /\ (1 > k => k = 0)
    BY <1>1
  <2> HIDE DEF k
  <2> QED
    BY <2>1, FS_Interval
<1>5. ~ (used < Len(w[q]))
  <2> SUFFICES ASSUME used < k PROVE FALSE
    OBVIOUS
  <2>1. Cardinality(InUse) < Cardinality(1 .. k)
    BY <1>3, <1>4
  <2>2. w[q] \in [1 .. k -> InUse]
    BY <1>1
  <2>3. \A i, j \in 1 .. k : w[q][i] = w[q][j] => i = j
    BY <1>2
  <2> HIDE DEF k
  <2>4. PICK i, j \in 1 .. k : i # j /\ w[q][i] = w[q][j]
    BY <1>3, <1>4, <2>1, <2>2, FS_PigeonHole
  <2> QED
    BY <2>3, <2>4
<1> QED
  BY <1>0, <1>1, <1>5, SeqMonotonic

\* The list of a queue is what its chain says; a formula of its own, to be primed.
ListsAreCars == \A w : Types /\ Chained(w) => \A q \in Own : List(head[q]) = Cars(w[q])

LEMMA ListsOfQueues == ASSUME ListQueueAssumption PROVE ListsAreCars
<1> SUFFICES ASSUME NEW w, Types, Chained(w), NEW q \in Own PROVE List(head[q]) = Cars(w[q])
  BY DEF ListsAreCars
<1>1. w[q] \in Seq(Pairs) /\ Len(w[q]) <= MaxPairs
  <2>1. w[q] \in Seq(Pairs) /\ Len(w[q]) <= used
    BY ChainFits
  <2>2. Len(w[q]) \in Nat /\ used <= MaxPairs /\ used \in Nat /\ MaxPairs \in Nat
    BY <2>1, LenProperties DEF Types, ListQueueAssumption
  <2> QED
    BY <2>1, <2>2
<1>2. Linked(w[q], head[q])
  BY DEF Chained
<1> QED
  BY <1>1, <1>2, ListIsCars

LEMMA ListsOfQueuesNext == ASSUME ListQueueAssumption PROVE ListsAreCars'
  BY ListsOfQueues, PTL

----------------------------------------------------------------------------
(* The steps.                                                              *)

\* What a chain says of its pairs.
LEMMA ChainPairs ==
  ASSUME ListQueueAssumption, Types, NEW w, Chained(w)
  PROVE  /\ MaxPairs \in Nat /\ used \in Nat /\ used <= MaxPairs /\ Nil \notin Nat
         /\ \A q \in Queues : Len(w[q]) \in Nat /\ w[q] \in Seq(InUse)
         /\ \A q \in Queues : \A i \in 1 .. Len(w[q]) : w[q][i] \in Nat /\ 1 <= w[q][i] /\ w[q][i] <= used
         /\ \A q \in Queues : w[q] = <<>> <=> Len(w[q]) = 0
<1>1. ListQueueAssumption /\ used \in 0 .. MaxPairs /\ w \in [Queues -> Seq(InUse)]
  BY DEF Types, Chained
<1>2. ASSUME NEW q \in Queues
      PROVE  /\ Len(w[q]) \in Nat /\ w[q] \in Seq(InUse) /\ \A i \in 1 .. Len(w[q]) : w[q][i] \in InUse
             /\ w[q] = <<>> <=> Len(w[q]) = 0
  BY <1>1, LenProperties, ElementOfSeq, EmptySeq
<1> QED
  BY <1>1, <1>2 DEF InUse, ListQueueAssumption

\* Enqueue adds a new pair at the end of one chain.
LEMMA StepEnqueue ==
  ASSUME ListQueueAssumption, Types, NEW w, Chained(w), NEW q \in Own, NEW x \in Objects, Enqueue(q, x)
  PROVE  /\ Types'
         /\ \E v : /\ Chained(v)'
                   /\ \A u \in Own : Cars(v[u])' = IF u = q THEN Append(Cars(w[q]), x) ELSE Cars(w[u])
<1> DEFINE new == used + 1
<1>a. PICK v : v = [w EXCEPT ![q] = Append(w[q], new)]
  OBVIOUS
<1>0. /\ MaxPairs \in Nat /\ used \in Nat /\ used < MaxPairs /\ new \in Pairs /\ used' = new /\ Nil \notin Nat
      /\ q \in Queues /\ Own \subseteq Queues /\ Own' = Own /\ given' = given
      /\ car' = [car EXCEPT ![new] = x] /\ last' = [last EXCEPT ![q] = new]
  BY ChainPairs DEF Enqueue, Pairs, Own, Types
<1> DEFINE n == Len(w[q])
<1>2. /\ \A u \in Queues : Len(w[u]) \in Nat /\ w[u] \in Seq(InUse)
      /\ \A u \in Queues : \A i \in 1 .. Len(w[u]) : w[u][i] \in Nat /\ 1 <= w[u][i] /\ w[u][i] <= used
      /\ \A u \in Queues : w[u] = <<>> <=> Len(w[u]) = 0
      /\ w \in [Queues -> Seq(InUse)]
  BY ChainPairs DEF Chained
<1>1. Types'
  <2>1. CASE head[q] = Nil
    BY <1>0, <2>1 DEF Types, Enqueue, Links, Pairs
  <2>2. CASE head[q] # Nil
    <3>1. n # 0 /\ last[q] = w[q][n] /\ last[q] \in Nat /\ last[q] <= used
      BY <1>0, <1>2, <2>2 DEF Chained, Linked
    <3>2. cdr' = [cdr EXCEPT ![last[q]] = new] /\ head' = head
      BY <2>2 DEF Enqueue
    <3>3. \A p \in Pairs : used' < p => cdr'[p] = Nil
      BY <1>0, <3>1, <3>2 DEF Types, Pairs
    <3>4. cdr' \in [Pairs -> Links] /\ head' \in [Queues -> Links] /\ last' \in [Queues -> Links]
      BY <1>0, <3>2 DEF Types, Links
    <3> QED
      BY <1>0, <3>3, <3>4 DEF Types, Pairs
  <2> QED
    BY <2>1, <2>2
<1>3. /\ \A u \in Queues \ {q} : v[u] = w[u]
      /\ v[q] \in Seq(InUse') /\ Len(v[q]) = n + 1 /\ v[q][n + 1] = new /\ \A i \in 1 .. n : v[q][i] = w[q][i]
      /\ v \in [Queues -> Seq(InUse')]
  <2>1. InUse \subseteq InUse' /\ new \in InUse'
    BY <1>0 DEF InUse
  <2>2. \A u \in Queues : w[u] \in Seq(InUse')
    BY <1>2, <2>1, SeqMonotonic
  <2>3. /\ Append(w[q], new) \in Seq(InUse') /\ Len(Append(w[q], new)) = n + 1
        /\ \A i \in 1 .. n : Append(w[q], new)[i] = w[q][i]
        /\ Append(w[q], new)[n + 1] = new
    BY <1>0, <2>1, <2>2, AppendProperties
  <2>4. v[q] = Append(w[q], new) /\ \A u \in Queues \ {q} : v[u] = w[u]
    BY <1>0, <1>2, <1>a
  <2>5. v \in [Queues -> Seq(InUse')]
    BY <1>0, <1>2, <1>a, <2>2, <2>3
  <2> QED
    BY <2>3, <2>4, <2>5
<1>4. ASSUME NEW u \in Own PROVE Linked(v[u], head[u])'
  <2>0. Linked(w[u], head[u]) /\ u \in Queues /\ u \in Own
    BY <1>0 DEF Chained
  <2>1. CASE u # q /\ head[q] = Nil
    BY <1>0, <1>2, <1>3, <2>0, <2>1, SMTT(30) DEF Linked, Enqueue, Types
  <2>2. CASE u # q /\ head[q] # Nil
    <3>1. n # 0 /\ last[q] = w[q][n]
      BY <1>0, <1>2, <2>2 DEF Chained, Linked
    <3>2. \A i \in 1 .. Len(w[u]) : w[u][i] # last[q]
      BY <1>0, <1>2, <2>0, <2>2, <3>1 DEF Chained
    <3>3. cdr' = [cdr EXCEPT ![last[q]] = new] /\ head' = head
      BY <1>0, <2>2 DEF Enqueue
    <3>4. \A i \in 1 .. Len(w[u]) : cdr'[w[u][i]] = cdr[w[u][i]]
      BY <1>0, <1>2, <2>0, <3>2, <3>3 DEF Types, Pairs
    <3> QED
      BY <1>3, <2>0, <2>2, <3>3, <3>4 DEF Linked
  <2>3. CASE u = q /\ head[q] = Nil
    <3>1. n = 0
      <4>1. \A i \in 1 .. n : w[q][i] # Nil
        BY <1>0, <1>2
      <4> QED
        BY <1>0, <1>2, <2>0, <2>3, <4>1 DEF Linked
    <3>2. head'[q] = new /\ cdr' = cdr /\ v[q][1] = new /\ Len(v[q]) = 1 /\ v[q] # <<>>
      BY <1>0, <1>3, <2>3, <3>1, EmptySeq DEF Enqueue, Types
    <3>3. cdr[new] = Nil
      BY <1>0 DEF Types
    <3> QED
      BY <2>3, <3>2, <3>3 DEF Linked
  <2>4. CASE u = q /\ head[q] # Nil
    <3>1. n # 0 /\ last[q] = w[q][n] /\ last[q] \in Pairs /\ last[q] # new
      BY <1>0, <1>2, <2>4 DEF Chained, Linked, Pairs
    <3>2. cdr' = [cdr EXCEPT ![last[q]] = new] /\ head' = head
      BY <1>0, <2>4 DEF Enqueue
    <3>3. cdr'[w[q][n]] = new /\ cdr'[new] = cdr[new]
      BY <1>0, <3>1, <3>2 DEF Types
    <3>4. ASSUME NEW i \in 1 .. n, i < n PROVE cdr'[w[q][i]] = w[q][i + 1]
      <4>1. w[q][i] # last[q] /\ cdr[w[q][i]] = w[q][i + 1]
        BY <1>0, <1>2, <2>0, <2>4, <3>1, <3>4 DEF Chained, Linked
      <4> QED
        BY <1>0, <1>2, <3>2, <3>4, <4>1 DEF Types, Pairs
    <3>5. cdr[new] = Nil
      BY <1>0 DEF Types
    <3>6. head'[q] = v[q][1] /\ v[q] # <<>>
      BY <1>0, <1>2, <1>3, <2>0, <2>4, <3>1, <3>2, EmptySeq DEF Linked
    <3>7. ASSUME NEW i \in 1 .. n + 1 PROVE cdr'[v[q][i]] = IF i = n + 1 THEN Nil ELSE v[q][i + 1]
      <4>1. CASE i = n + 1
        BY <1>3, <3>3, <3>5, <4>1
      <4>2. CASE i = n
        BY <1>2, <1>0, <1>3, <3>1, <3>3, <4>2
      <4>3. CASE i < n
        <5>1. i \in 1 .. n /\ i + 1 \in 1 .. n /\ v[q][i] = w[q][i] /\ v[q][i + 1] = w[q][i + 1] /\ i # n + 1
          BY <1>2, <1>0, <1>3, <4>3
        <5> QED
          BY <3>4, <4>3, <5>1
      <4> QED
        BY <1>2, <1>0, <4>1, <4>2, <4>3
    <3> QED
      BY <1>3, <2>4, <3>6, <3>7 DEF Linked
  <2> QED
    BY <2>1, <2>2, <2>3, <2>4
<1>5. ASSUME NEW u \in Own, v[u] # <<>> PROVE last'[u] = v[u][Len(v[u])]
  <2>1. u \in Queues /\ last \in [Queues -> Links]
    BY <1>0 DEF Types
  <2>2. CASE u = q
    BY <1>0, <1>3, <2>1, <2>2
  <2>3. CASE u # q
    BY <1>0, <1>3, <1>5, <2>1, <2>3 DEF Chained
  <2> QED
    BY <2>2, <2>3
<1>6. ASSUME NEW u \in Own, NEW r \in Own, NEW i \in 1 .. Len(v[u]), NEW j \in 1 .. Len(v[r]), v[u][i] = v[r][j]
      PROVE  u = r /\ i = j
  <2>0. u \in Queues /\ r \in Queues /\ u \in Own /\ r \in Own
    BY <1>0
  <2>1. \A t \in Own, k \in Nat : k \in 1 .. Len(v[t]) =>
          \/ k \in 1 .. Len(w[t]) /\ v[t][k] = w[t][k] /\ v[t][k] # new
          \/ t = q /\ k = n + 1 /\ v[t][k] = new
    BY <1>0, <1>2, <1>3
  <2>2. i \in Nat /\ j \in Nat
    OBVIOUS
  <2>3. CASE v[u][i] = new
    BY <1>6, <2>1, <2>2, <2>3
  <2>4. CASE v[u][i] # new
    <3>1. i \in 1 .. Len(w[u]) /\ v[u][i] = w[u][i] /\ j \in 1 .. Len(w[r]) /\ v[r][j] = w[r][j]
      BY <1>6, <2>1, <2>2, <2>4
    <3>2. w[u][i] = w[r][j]
      BY <1>6, <3>1
    <3> QED
      BY <2>0, <3>1, <3>2 DEF Chained
  <2> QED
    BY <2>3, <2>4
<1>7. Chained(v)'
  BY <1>0, <1>3, <1>4, <1>5, <1>6 DEF Chained, Linked
<1>8. ASSUME NEW u \in Own PROVE Cars(v[u])' = IF u = q THEN Append(Cars(w[q]), x) ELSE Cars(w[u])
  <2>1. \A t \in Queues : \A i \in 1 .. Len(w[t]) : car'[w[t][i]] = car[w[t][i]]
    BY <1>0, <1>2 DEF Types, Pairs
  <2>2. CASE u # q
    <3>1. v[u] = w[u] /\ u \in Queues
      BY <1>0, <1>3, <2>2
    <3> QED
      BY <2>1, <2>2, <3>1 DEF Cars
  <2>3. CASE u = q
    <3>1. car'[new] = x
      BY <1>0 DEF Types
    <3>2. \A i \in 1 .. n + 1 : car'[v[q][i]] = IF i = n + 1 THEN x ELSE car[w[q][i]]
      BY <1>0, <1>2, <1>3, <2>1, <3>1
    <3>3. Cars(v[q])' = [i \in 1 .. n + 1 |-> IF i = n + 1 THEN x ELSE car[w[q][i]]]
      BY <1>3, <3>2 DEF Cars
    <3>4. Append(Cars(w[q]), x) = [i \in 1 .. n + 1 |-> IF i = n + 1 THEN x ELSE car[w[q][i]]]
      <4>1. Len(Cars(w[q])) = n /\ \A i \in 1 .. n : Cars(w[q])[i] = car[w[q][i]]
        BY <1>0, <1>2 DEF Cars
      <4> QED
        BY <1>0, <1>2, <4>1
    <3> QED
      BY <2>3, <3>3, <3>4
  <2> QED
    BY <2>2, <2>3
<1> QED
  BY <1>1, <1>7, <1>8

\* Dequeue cuts the first pair off.
LEMMA StepDequeue ==
  ASSUME ListQueueAssumption, Types, NEW w, Chained(w), NEW q \in Own, Dequeue(q)
  PROVE  /\ Types' /\ w[q] # <<>> /\ taken' = Head(Cars(w[q])) /\ Cars(w[q]) # <<>>
         /\ \E v : /\ Chained(v)'
                   /\ \A u \in Own : Cars(v[u])' = IF u = q THEN Tail(Cars(w[q])) ELSE Cars(w[u])
<1>a. PICK v : v = [w EXCEPT ![q] = Tail(w[q])]
  OBVIOUS
<1> DEFINE n == Len(w[q])
<1>0. /\ q \in Queues /\ Own \subseteq Queues /\ Own' = Own /\ given' = given
      /\ car' = car /\ cdr' = cdr /\ used' = used /\ last' = last /\ InUse' = InUse
      /\ head' = [head EXCEPT ![q] = cdr[head[q]]] /\ head[q] # Nil /\ head \in [Queues -> Links]
  BY DEF Dequeue, Own, Types, heap, InUse
<1>2. /\ \A u \in Queues : Len(w[u]) \in Nat /\ w[u] \in Seq(InUse)
      /\ \A u \in Queues : \A i \in 1 .. Len(w[u]) : w[u][i] \in Nat /\ 1 <= w[u][i] /\ w[u][i] <= used
      /\ \A u \in Queues : w[u] = <<>> <=> Len(w[u]) = 0
      /\ w \in [Queues -> Seq(InUse)]
  BY ChainPairs DEF Chained
<1>3. n # 0 /\ w[q] # <<>> /\ head[q] = w[q][1] /\ Linked(w[q], head[q])
  BY <1>0, <1>2 DEF Chained, Linked
<1>4. Types'
  <2>1. cdr[head[q]] \in Links
    BY <1>0 DEF Types, Links
  <2> QED
    BY <1>0, <2>1 DEF Types
<1>5. /\ \A u \in Queues \ {q} : v[u] = w[u]
      /\ v[q] \in Seq(InUse) /\ Len(v[q]) = n - 1 /\ \A i \in 1 .. n - 1 : v[q][i] = w[q][i + 1]
      /\ v \in [Queues -> Seq(InUse)]
  <2>1. /\ Tail(w[q]) \in Seq(InUse) /\ Len(Tail(w[q])) = n - 1
        /\ \A i \in 1 .. n - 1 : Tail(w[q])[i] = w[q][i + 1]
    BY <1>0, <1>2, <1>3, HeadTailProperties
  <2>2. v[q] = Tail(w[q]) /\ \A u \in Queues \ {q} : v[u] = w[u]
    BY <1>0, <1>2, <1>a
  <2>3. v \in [Queues -> Seq(InUse)]
    BY <1>0, <1>2, <1>a, <2>1
  <2> QED
    BY <2>1, <2>2, <2>3
<1>6. ASSUME NEW u \in Own PROVE Linked(v[u], head[u])'
  <2>0. u \in Queues /\ Linked(w[u], head[u])
    BY <1>0 DEF Chained
  <2>1. CASE u # q
    BY <1>0, <1>5, <2>0, <2>1 DEF Linked
  <2>2. CASE u = q
    <3>0. n \in Nat /\ 1 \in 1 .. n
      BY <1>0, <1>2, <1>3
    <3>1. cdr[w[q][1]] = IF 1 = n THEN Nil ELSE w[q][1 + 1]
      BY <1>3, <3>0 DEF Linked
    <3>4. head'[q] = cdr[w[q][1]]
      BY <1>0, <1>3
    <3>2. v[q] = <<>> <=> n = 1
      <4>1. v[q] \in Seq(InUse) /\ Len(v[q]) = n - 1
        BY <1>5
      <4>2. v[q] = <<>> => Len(v[q]) = 0
        BY EmptySeq
      <4>3. v[q] # <<>> => Len(v[q]) # 0
        BY <4>1, EmptySeq
      <4> QED
        BY <3>0, <4>1, <4>2, <4>3
    <3>3. head'[q] = IF v[q] = <<>> THEN Nil ELSE v[q][1]
      BY <1>0, <1>2, <1>3, <1>5, <3>0, <3>1, <3>2, <3>4
    <3>5. ASSUME NEW i \in 1 .. n - 1 PROVE cdr[v[q][i]] = IF i = n - 1 THEN Nil ELSE v[q][i + 1]
      <4>1. /\ i + 1 \in 1 .. n /\ v[q][i] = w[q][i + 1]
            /\ i # n - 1 => i + 1 \in 1 .. n - 1 /\ v[q][i + 1] = w[q][(i + 1) + 1]
        <5>1. n \in Nat /\ \A k \in 1 .. n - 1 : v[q][k] = w[q][k + 1]
          BY <1>0, <1>2, <1>5
        <5> HIDE DEF n
        <5>2. i + 1 \in 1 .. n /\ (i # n - 1 => i + 1 \in 1 .. n - 1)
          BY <5>1
        <5> QED
          BY <5>1, <5>2
      <4>2. cdr[w[q][i + 1]] = IF i + 1 = n THEN Nil ELSE w[q][(i + 1) + 1]
        BY <1>3, <4>1 DEF Linked
      <4> QED
        BY <1>0, <1>2, <4>1, <4>2
    <3> QED
      BY <1>0, <1>5, <2>2, <3>3, <3>5 DEF Linked
  <2> QED
    BY <2>1, <2>2
<1>7. ASSUME NEW u \in Own, v[u] # <<>> PROVE last[u] = v[u][Len(v[u])]
  <2>1. CASE u # q
    BY <1>0, <1>5, <1>7, <2>1 DEF Chained
  <2>2. CASE u = q
    <3>1. n - 1 # 0 /\ last[q] = w[q][n]
      BY <1>0, <1>2, <1>3, <1>5, <1>7, <2>2, EmptySeq DEF Chained
    <3>2. n - 1 \in 1 .. n - 1 /\ (n - 1) + 1 = n /\ Len(v[q]) = n - 1
      <4>1. n \in Nat /\ n # 0 /\ n - 1 # 0 /\ Len(v[q]) = n - 1
        BY <1>0, <1>2, <1>3, <1>5, <3>1
      <4> HIDE DEF n
      <4> QED
        BY <4>1
    <3>3. v[q][n - 1] = w[q][(n - 1) + 1]
      BY <1>5, <3>2
    <3> QED
      BY <2>2, <3>1, <3>2, <3>3
  <2> QED
    BY <2>1, <2>2
<1>8. ASSUME NEW u \in Own, NEW r \in Own, NEW i \in 1 .. Len(v[u]), NEW j \in 1 .. Len(v[r]), v[u][i] = v[r][j]
      PROVE  u = r /\ i = j
  <2> DEFINE d(t, k) == IF t = q THEN k + 1 ELSE k
  <2>1. ASSUME NEW t \in Own, NEW k \in 1 .. Len(v[t])
        PROVE  d(t, k) \in 1 .. Len(w[t]) /\ v[t][k] = w[t][d(t, k)]
    <3>1. CASE t # q
      BY <1>0, <1>5, <3>1
    <3>2. CASE t = q
      BY <1>0, <1>2, <1>3, <1>5, <3>2
    <3> QED
      BY <3>1, <3>2
  <2>2. d(u, i) \in 1 .. Len(w[u]) /\ d(r, j) \in 1 .. Len(w[r]) /\ w[u][d(u, i)] = w[r][d(r, j)]
    BY <1>8, <2>1
  <2>3. u = r /\ d(u, i) = d(r, j)
    <3> HIDE DEF d
    <3> QED
      BY <2>2 DEF Chained
  <2> QED
    BY <2>3
<1>9. Chained(v)'
  BY <1>0, <1>5, <1>6, <1>7, <1>8 DEF Chained, Linked
<1>10. Cars(w[q]) = [i \in 1 .. n |-> car[w[q][i]]] /\ taken' = car[w[q][1]] /\ n \in Nat /\ n # 0
  BY <1>0, <1>2, <1>3 DEF Cars, Dequeue
<1>11. taken' = Head(Cars(w[q])) /\ Cars(w[q]) # <<>>
  BY <1>10
<1>12. ASSUME NEW u \in Own PROVE Cars(v[u])' = IF u = q THEN Tail(Cars(w[q])) ELSE Cars(w[u])
  <2>1. CASE u # q
    BY <1>0, <1>5, <2>1 DEF Cars
  <2>2. CASE u = q
    <3>1. Cars(v[q])' = [i \in 1 .. n - 1 |-> car[w[q][i + 1]]]
      BY <1>0, <1>5 DEF Cars
    <3>2. Tail(Cars(w[q])) = [i \in 1 .. n - 1 |-> car[w[q][i + 1]]]
      BY <1>10
    <3> QED
      BY <2>2, <3>1, <3>2
  <2> QED
    BY <2>1, <2>2
<1> QED
  BY <1>3, <1>4, <1>9, <1>11, <1>12

\* Qappend puts copies of the pairs of q before the pairs of r.
LEMMA StepQappend ==
  ASSUME ListQueueAssumption, Types, NEW w, Chained(w), NEW q \in Own, NEW r \in Own, q # r, Qappend(q, r)
  PROVE  /\ Types'
         /\ \E v : /\ Chained(v)'
                   /\ \A u \in Own' : Cars(v[u])' = IF u = q THEN Cars(w[q]) \o Cars(w[r]) ELSE Cars(w[u])
<1>n. PICK n, m : n = Len(w[q]) /\ m = Len(w[r])
  OBVIOUS
<1> DEFINE New == used + 1 .. used + n
<1>a. PICK v : v = [w EXCEPT ![q] = [i \in 1 .. n + m |-> IF i <= n THEN used + i ELSE w[r][i - n]]]
  OBVIOUS
<1>0. /\ q \in Queues /\ r \in Queues /\ Own \subseteq Queues /\ Own' = Own \ {r} /\ given' = given \cup {r}
      /\ head[r] # Nil /\ head \in [Queues -> Links] /\ last \in [Queues -> Links]
      /\ last' = [last EXCEPT ![q] = last[r]]
  BY DEF Qappend, Own, Types
<1>2. /\ \A u \in Queues : Len(w[u]) \in Nat /\ w[u] \in Seq(InUse)
      /\ \A u \in Queues : \A i \in 1 .. Len(w[u]) : w[u][i] \in Nat /\ 1 <= w[u][i] /\ w[u][i] <= used
      /\ \A u \in Queues : w[u] = <<>> <=> Len(w[u]) = 0
      /\ w \in [Queues -> Seq(InUse)] /\ MaxPairs \in Nat /\ used \in Nat
  BY ChainPairs DEF Chained
<1>3. n \in Nat /\ m \in Nat /\ m # 0 /\ head[r] = w[r][1] /\ last[r] = w[r][m]
  BY <1>n, <1>0, <1>2 DEF Chained, Linked
<1>4. List(head[q]) = Cars(w[q]) /\ Len(Cars(w[q])) = n /\ \A i \in 1 .. n : Cars(w[q])[i] = car[w[q][i]]
  <2>1. List(head[q]) = Cars(w[q])
    BY ListsOfQueues DEF ListsAreCars
  <2> QED
    BY <1>n, <1>3, <2>1 DEF Cars
<1>5. /\ used + n <= MaxPairs /\ used' = used + n
      /\ car' = [p \in 1 .. MaxPairs |-> IF p \in New THEN Cars(w[q])[p - used] ELSE car[p]]
      /\ cdr' = [p \in 1 .. MaxPairs |-> IF p \notin New THEN cdr[p]
                                         ELSE IF p = used + n THEN head[r] ELSE p + 1]
      /\ head' = [head EXCEPT ![q] = IF n = 0 THEN head[r] ELSE used + 1]
  BY <1>4 DEF Qappend
<1>b. {n, m, used, MaxPairs} \subseteq Nat /\ m # 0 /\ used + n <= MaxPairs
  BY <1>2, <1>3, <1>5
<1>6. Types'
  <2>1. used' \in 0 .. MaxPairs
    BY <1>2, <1>3, <1>5
  <2>2. ASSUME NEW p \in Pairs, p \in New PROVE Cars(w[q])[p - used] \in Objects \cup {Nil}
    <3>1. p - used \in 1 .. n
      BY <1>2, <1>3, <2>2 DEF Pairs
    <3>2. w[q][p - used] \in Pairs
      BY <1>n, <1>0, <1>2, <3>1 DEF Pairs, Types
    <3> QED
      BY <1>4, <3>1, <3>2 DEF Types
  <2>3. car' \in [Pairs -> Objects \cup {Nil}]
    BY <1>5, <2>2 DEF Types, Pairs
  <2>4. ASSUME NEW p \in Pairs, p \in New, p # used + n PROVE p + 1 \in Links
    BY <1>2, <1>3, <1>5, <2>4 DEF Pairs, Links
  <2>5. cdr' \in [Pairs -> Links]
    BY <1>0, <1>5, <2>4 DEF Types, Pairs
  <2>6. ASSUME NEW p \in Pairs, used' < p PROVE cdr'[p] = Nil
    <3>1. p \notin New /\ used < p
      BY <1>2, <1>3, <1>5, <2>6 DEF Pairs
    <3> QED
      BY <1>5, <3>1 DEF Types, Pairs
  <2>7. n # 0 => used + 1 \in Links
    BY <1>2, <1>3, <1>5 DEF Pairs, Links
  <2>8. head' \in [Queues -> Links] /\ last' \in [Queues -> Links] /\ given' \subseteq Queues
    BY <1>0, <1>5, <2>7 DEF Types
  <2> QED
    BY <2>1, <2>3, <2>5, <2>6, <2>8 DEF Types
<1>7. /\ \A u \in Queues \ {q} : v[u] = w[u]
      /\ v[q] \in Seq(InUse') /\ Len(v[q]) = n + m
      /\ \A i \in 1 .. n + m : v[q][i] = IF i <= n THEN used + i ELSE w[r][i - n]
      /\ v \in [Queues -> Seq(InUse')]
  <2> DEFINE both == [i \in 1 .. n + m |-> IF i <= n THEN used + i ELSE w[r][i - n]]
  <2>1. n + m \in Nat
    BY <1>3
  <2>2. ASSUME NEW i \in 1 .. n + m PROVE both[i] \in InUse'
    <3>1. CASE i <= n
      BY <1>2, <1>3, <1>5, <3>1 DEF InUse
    <3>2. CASE i > n
      <4>1. i - n \in 1 .. m /\ both[i] = w[r][i - n]
        BY <1>3, <3>2
      <4>2. w[r][i - n] \in Nat /\ 1 <= w[r][i - n] /\ w[r][i - n] <= used
        BY <1>n, <1>0, <1>2, <4>1
      <4>3. w[r][i - n] \in 1 .. used + n
        BY <1>b, <4>2
      <4> QED
        BY <1>5, <4>1, <4>3 DEF InUse
    <3> QED
      BY <1>3, <3>1, <3>2
  <2>3. both \in [1 .. n + m -> InUse']
    BY <2>2
  <2>4. both \in Seq(InUse') /\ Len(both) = n + m
    <3> HIDE DEF both
    <3> QED
      BY <2>1, <2>3
  <2>5. \A u \in Queues : w[u] \in Seq(InUse')
    <3>1. InUse \subseteq InUse'
      BY <1>2, <1>3, <1>5 DEF InUse
    <3> QED
      BY <1>2, <3>1, SeqMonotonic
  <2>6. v[q] = both /\ \A u \in Queues \ {q} : v[u] = w[u]
    BY <1>0, <1>2, <1>a
  <2>7. v \in [Queues -> Seq(InUse')]
    <3>1. v = [w EXCEPT ![q] = both]
      BY <1>a
    <3> HIDE DEF both
    <3> QED
      BY <1>2, <2>4, <2>5, <3>1
  <2>8. \A i \in 1 .. n + m : both[i] = IF i <= n THEN used + i ELSE w[r][i - n]
    OBVIOUS
  <2> HIDE DEF both
  <2> QED
    BY <2>4, <2>6, <2>7, <2>8
<1>8. \A u \in Queues : \A i \in 1 .. Len(w[u]) : cdr'[w[u][i]] = cdr[w[u][i]] /\ car'[w[u][i]] = car[w[u][i]]
  <2> SUFFICES ASSUME NEW p \in 1 .. used PROVE cdr'[p] = cdr[p] /\ car'[p] = car[p]
    BY <1>2
  <2> QED
    BY <1>2, <1>3, <1>5
<1>9. ASSUME NEW u \in Own' PROVE Linked(v[u], head[u])'
  <2>1. CASE u # q
    <3>1. Linked(w[u], head[u]) /\ u \in Queues /\ head'[u] = head[u] /\ v[u] = w[u]
      BY <1>0, <1>5, <1>7, <2>1 DEF Chained
    <3> QED
      BY <1>8, <3>1 DEF Linked
  <2>2. CASE u = q
    <3>1. v[q] # <<>> /\ v[q][1] = head'[q]
      <4>1. 1 \in 1 .. n + m /\ (1 <= n <=> n # 0) /\ (n = 0 => 1 - n = 1) /\ n + m # 0
        BY <1>3
      <4>2. v[q][1] = IF n = 0 THEN w[r][1] ELSE used + 1
        BY <1>7, <4>1
      <4>3. v[q] # <<>>
        BY <1>7, <4>1, EmptySeq
      <4> QED
        BY <1>0, <1>3, <1>5, <4>2, <4>3
    <3>2. ASSUME NEW i \in 1 .. n + m PROVE cdr'[v[q][i]] = IF i = n + m THEN Nil ELSE v[q][i + 1]
      <4>1. CASE i < n
        <5>1. /\ i + 1 \in 1 .. n + m /\ i <= n /\ i + 1 <= n /\ i # n + m /\ used + (i + 1) = (used + i) + 1
              /\ used + i \in New /\ used + i # used + n /\ used + i \in 1 .. MaxPairs
          BY <1>b, <4>1
        <5>2. v[q][i] = used + i /\ v[q][i + 1] = (used + i) + 1
          BY <1>7, <5>1
        <5> QED
          BY <1>5, <5>1, <5>2
      <4>2. CASE i = n
        <5>1. /\ i <= n /\ i + 1 \in 1 .. n + m /\ ~ (i + 1 <= n) /\ (i + 1) - n = 1 /\ i # n + m
              /\ used + n \in New /\ used + n \in 1 .. MaxPairs
          BY <1>b, <4>2
        <5>2. v[q][i] = used + n /\ v[q][i + 1] = w[r][1]
          BY <1>7, <4>2, <5>1
        <5> QED
          BY <1>3, <1>5, <5>1, <5>2
      <4>3. CASE i > n
        <5>1. /\ i - n \in 1 .. m /\ ~ (i <= n) /\ (i - n = m <=> i = n + m)
              /\ i # n + m => i + 1 \in 1 .. n + m /\ ~ (i + 1 <= n) /\ (i + 1) - n = (i - n) + 1
          BY <1>3, <4>3
        <5>2. v[q][i] = w[r][i - n] /\ (i # n + m => v[q][i + 1] = w[r][(i - n) + 1])
          BY <1>7, <5>1
        <5>3. cdr'[w[r][i - n]] = IF i - n = m THEN Nil ELSE w[r][(i - n) + 1]
          BY <1>n, <1>0, <1>8, <5>1, SMTT(30) DEF Chained, Linked
        <5> QED
          BY <5>1, <5>2, <5>3
      <4> QED
        BY <1>3, <4>1, <4>2, <4>3
    <3> QED
      BY <1>7, <2>2, <3>1, <3>2 DEF Linked
  <2> QED
    BY <2>1, <2>2
<1>10. ASSUME NEW u \in Own', v[u] # <<>> PROVE last'[u] = v[u][Len(v[u])]
  <2>1. CASE u # q
    BY <1>0, <1>7, <1>10, <2>1 DEF Chained
  <2>2. CASE u = q
    <3>1. n + m \in 1 .. n + m /\ ~ (n + m <= n) /\ (n + m) - n = m
      BY <1>3
    <3>2. v[q][n + m] = w[r][m]
      BY <1>7, <3>1
    <3> QED
      BY <1>0, <1>3, <1>7, <2>2, <3>2
  <2> QED
    BY <2>1, <2>2
<1>11. ASSUME NEW t \in Own', NEW u \in Own', NEW i \in 1 .. Len(v[t]), NEW j \in 1 .. Len(v[u]), v[t][i] = v[u][j]
       PROVE  t = u /\ i = j
  \* A pair of a new chain is a new one, or where it was.
  <2> DEFINE from(k) == IF k = q THEN r ELSE k
             place(k, a) == IF k = q THEN a - n ELSE a
  <2>1. ASSUME NEW k \in Own', NEW a \in 1 .. Len(v[k])
        PROVE  \/ k = q /\ a <= n /\ v[k][a] = used + a
               \/ /\ from(k) \in Own /\ place(k, a) \in 1 .. Len(w[from(k)])
                  /\ v[k][a] = w[from(k)][place(k, a)] /\ v[k][a] <= used
    <3>1. k \in Own /\ k # r /\ k \in Queues
      BY <1>0
    <3>2. CASE k # q
      BY <1>2, <1>7, <3>1, <3>2
    <3>3. CASE k = q /\ a <= n
      BY <1>7, <3>3
    <3>4. CASE k = q /\ a > n
      <4>1. a \in 1 .. n + m /\ ~ (a <= n) /\ a - n \in 1 .. m
        BY <1>3, <1>7, <3>4
      <4> QED
        BY <1>n, <1>0, <1>2, <1>7, <3>4, <4>1
    <3> QED
      BY <1>3, <1>7, <3>2, <3>3, <3>4
  <2>2. \A a \in 1 .. Len(v[q]) : used + a > used
    BY <1>2, <1>7
  <2>3. CASE t = q /\ i <= n /\ v[t][i] = used + i
    <3>1. u = q /\ v[u][j] = used + j
      BY <1>2, <1>11, <2>1, <2>2, <2>3
    <3> QED
      BY <1>2, <1>11, <2>3, <3>1
  <2>4. CASE u = q /\ j <= n /\ v[u][j] = used + j
    <3>1. t = q /\ v[t][i] = used + i
      BY <1>2, <1>11, <2>1, <2>2, <2>4
    <3> QED
      BY <1>2, <1>11, <2>4, <3>1
  <2>5. CASE /\ from(t) \in Own /\ place(t, i) \in 1 .. Len(w[from(t)]) /\ v[t][i] = w[from(t)][place(t, i)]
             /\ from(u) \in Own /\ place(u, j) \in 1 .. Len(w[from(u)]) /\ v[u][j] = w[from(u)][place(u, j)]
    <3>1. from(t) = from(u) /\ place(t, i) = place(u, j)
      <4> HIDE DEF from, place
      <4>1. w[from(t)][place(t, i)] = w[from(u)][place(u, j)]
        BY <1>11, <2>5
      <4> QED
        BY <2>5, <4>1 DEF Chained
    <3>2. t = u
      BY <1>0, <3>1
    <3> QED
      BY <1>3, <3>1, <3>2
  <2> QED
    BY <2>1, <2>3, <2>4, <2>5
<1>12. Chained(v)'
  BY <1>0, <1>7, <1>9, <1>10, <1>11 DEF Chained, Linked
<1>13. ASSUME NEW u \in Own'
       PROVE  Cars(v[u])' = IF u = q THEN Cars(w[q]) \o Cars(w[r]) ELSE Cars(w[u])
  <2>1. CASE u # q
    <3>1. v[u] = w[u] /\ u \in Queues
      BY <1>0, <1>7, <2>1
    <3> QED
      BY <1>8, <2>1, <3>1 DEF Cars
  <2>2. CASE u = q
    <3>1. ASSUME NEW i \in 1 .. n + m PROVE car'[v[q][i]] = IF i <= n THEN car[w[q][i]] ELSE car[w[r][i - n]]
      <4>1. CASE i <= n
        <5>1. v[q][i] = used + i /\ used + i \in New /\ used + i \in 1 .. MaxPairs /\ (used + i) - used = i /\ i \in 1 .. n
          BY <1>2, <1>3, <1>5, <1>7, <4>1, SMTT(30)
        <5> QED
          BY <1>4, <1>5, <4>1, <5>1
      <4>2. CASE i > n
        <5>1. i - n \in 1 .. m /\ ~ (i <= n) /\ v[q][i] = w[r][i - n]
          BY <1>3, <1>7, <4>2
        <5> QED
          BY <1>n, <1>0, <1>8, <5>1
      <4> QED
        BY <1>3, <4>1, <4>2
    <3>2. Cars(v[q])' = [i \in 1 .. n + m |-> IF i <= n THEN car[w[q][i]] ELSE car[w[r][i - n]]]
      BY <1>7, <3>1 DEF Cars
    <3>3. Cars(w[q]) \o Cars(w[r]) = [i \in 1 .. n + m |-> IF i <= n THEN car[w[q][i]] ELSE car[w[r][i - n]]]
      <4>1. Cars(w[q]) = [i \in 1 .. n |-> car[w[q][i]]] /\ Cars(w[r]) = [i \in 1 .. m |-> car[w[r][i]]]
        BY <1>n DEF Cars
      <4> QED
        BY <1>3, <4>1
    <3> QED
      BY <2>2, <3>2, <3>3
  <2> QED
    BY <2>1, <2>2
<1> QED
  BY <1>6, <1>12, <1>13

----------------------------------------------------------------------------
(* The refinement.                                                         *)

\* What the queues hold, as the chains say.
Held(w) == [q \in Queues |-> IF q \in given THEN <<>> ELSE Cars(w[q])]

\* The mapping of the refinement.
contents == [q \in Queues |-> IF q \in given THEN <<>> ELSE List(head[q])]

LEMMA ContentsHeld ==
  ASSUME ListQueueAssumption, Types, NEW w, Chained(w)
  PROVE  contents = Held(w)
<1>1. \A q \in Own : List(head[q]) = Cars(w[q])
  BY ListsOfQueues DEF ListsAreCars
<1> QED
  BY <1>1 DEF contents, Held, Own

LEMMA ContentsHeldNext ==
  ASSUME ListQueueAssumption, Types', NEW v, Chained(v)'
  PROVE  contents' = [q \in Queues |-> IF q \in given' THEN <<>> ELSE Cars(v[q])']
<1>1. \A q \in Own' : List(head[q])' = Cars(v[q])'
  BY ListsOfQueuesNext DEF ListsAreCars
<1> QED
  BY <1>1 DEF contents, Own

\* Every step keeps the invariant and is a step of FifoQueues.
LEMMA StepImplements ==
  ASSUME ListQueueAssumption, IInv, [Next]_vars
  PROVE  IInv' /\ [Fifo!Next]_(Fifo!vars)
<1>w. PICK w : Types /\ Chained(w)
  BY DEF IInv
<1>0. contents = Held(w) /\ Own \subseteq Queues /\ given \subseteq Queues
  BY <1>w, ContentsHeld DEF Own, Types
<1>1. ASSUME NEW q \in Own, NEW x \in Objects, Enqueue(q, x)
      PROVE  IInv' /\ Fifo!Next
  <2>1. PICK v : /\ Chained(v)' /\ Types'
                 /\ \A u \in Own : Cars(v[u])' = IF u = q THEN Append(Cars(w[q]), x) ELSE Cars(w[u])
    BY <1>w, <1>1, StepEnqueue
  <2>2. contents' = [u \in Queues |-> IF u \in given' THEN <<>> ELSE Cars(v[u])']
    BY <2>1, ContentsHeldNext
  <2>3. given' = given /\ entered' = entered + 1 /\ UNCHANGED taken
    BY <1>1 DEF Enqueue
  <2>4. contents' = [contents EXCEPT ![q] = Append(@, x)]
    BY <1>0, <2>1, <2>2, <2>3 DEF Held, Own
  <2>5. Fifo!Put(q, x)
    BY <2>3, <2>4 DEF Fifo!Put, contents
  <2> QED
    BY <1>0, <2>1, <2>5 DEF IInv, Fifo!Next
<1>2. ASSUME NEW q \in Own, Dequeue(q)
      PROVE  IInv' /\ Fifo!Next
  <2>1. PICK v : /\ Chained(v)' /\ Types' /\ taken' = Head(Cars(w[q])) /\ Cars(w[q]) # <<>>
                 /\ \A u \in Own : Cars(v[u])' = IF u = q THEN Tail(Cars(w[q])) ELSE Cars(w[u])
    BY <1>w, <1>2, StepDequeue
  <2>2. contents' = [u \in Queues |-> IF u \in given' THEN <<>> ELSE Cars(v[u])']
    BY <2>1, ContentsHeldNext
  <2>3. given' = given /\ UNCHANGED entered
    BY <1>2 DEF Dequeue
  <2>4. contents[q] = Cars(w[q]) /\ contents' = [contents EXCEPT ![q] = Tail(@)]
    BY <1>0, <2>1, <2>2, <2>3 DEF Held, Own
  <2>5. Fifo!Take(q)
    BY <2>1, <2>3, <2>4 DEF Fifo!Take, contents
  <2> QED
    BY <1>0, <2>1, <2>5 DEF IInv, Fifo!Next
<1>3. ASSUME NEW q \in Own, NEW r \in Own, q # r, Qappend(q, r)
      PROVE  IInv' /\ Fifo!Next
  <2>1. PICK v : /\ Chained(v)' /\ Types'
                 /\ \A u \in Own' : Cars(v[u])' = IF u = q THEN Cars(w[q]) \o Cars(w[r]) ELSE Cars(w[u])
    BY <1>w, <1>3, StepQappend
  <2>2. contents' = [u \in Queues |-> IF u \in given' THEN <<>> ELSE Cars(v[u])']
    BY <2>1, ContentsHeldNext
  <2>3. given' = given \cup {r} /\ UNCHANGED <<taken, entered>> /\ Own' = Own \ {r}
    BY <1>3 DEF Qappend, Own
  <2>4. contents[r] = Cars(w[r]) /\ contents' = [contents EXCEPT ![q] = @ \o contents[r], ![r] = <<>>]
    BY <1>0, <1>3, <2>1, <2>2, <2>3 DEF Held, Own
  <2>5. Fifo!Join(q, r)
    BY <2>3, <2>4 DEF Fifo!Join, contents
  <2> QED
    BY <1>0, <1>3, <2>1, <2>5 DEF IInv, Fifo!Next
<1>4. CASE UNCHANGED vars
  <2>1. Types' /\ Chained(w)'
    BY <1>w, <1>4 DEF Types, Chained, Linked, Own, InUse, vars, heap
  <2>2. contents' = [u \in Queues |-> IF u \in given' THEN <<>> ELSE Cars(w[u])']
    BY <2>1, ContentsHeldNext
  <2>3. contents' = contents /\ UNCHANGED <<taken, entered>>
    BY <1>0, <1>4, <2>2 DEF Held, Cars, vars, heap
  <2> QED
    BY <2>1, <2>3 DEF IInv, Fifo!vars, contents
<1> QED
  BY <1>1, <1>2, <1>3, <1>4 DEF Next, Own

\* Enqueue, dequeue and qappend of multiproc.oak: whatever their sequence, each dequeue
\* returns the oldest object of its queue and none that entered is lost, although qappend
\* leaves lists that share pairs, and dequeue leaves last pairs that are out of date.
THEOREM QueuesAreFifo ==
  ASSUME ListQueueAssumption PROVE Spec => ImplementsFifo
<1>1. Init => IInv /\ Fifo!Init
  <2> SUFFICES ASSUME Init PROVE IInv /\ Fifo!Init
    OBVIOUS
  <2> DEFINE w == [q \in Queues |-> <<>>]
  <2>1. Types /\ Chained(w)
    BY InitChained
  <2>2. IInv
    BY <2>1 DEF IInv
  <2>3. contents = w
    BY <2>1, ContentsHeld DEF Held, Cars
  <2> QED
    BY <2>2, <2>3 DEF Fifo!Init, Init, ListQueueAssumption, contents
<1>2. IInv /\ [Next]_vars => IInv' /\ [Fifo!Next]_(Fifo!vars)
  BY StepImplements
<1> QED
  BY <1>1, <1>2, PTL DEF Spec, ImplementsFifo, Fifo!Spec
=============================================================================
