--------------------------- MODULE SweepHeapProofs ---------------------------
(***************************************************************************)
(* Proofs about SweepHeap, for a heap of any size, any size classes,       *)
(* requests, number of threads, buffer size and sweep block: the words are *)
(* partitioned, a locative finds its object, and the count of listed words *)
(* is exact, in every state until a plain BM_SET has undone the atomic     *)
(* one of a buffer.  That exception is real (gc-ms.c:57 beside 189): past  *)
(* it the statements are false, and TLC refutes them.                      *)
(*                                                                         *)
(* The argument: objects and entries are intervals that begin at a start   *)
(* bit and have none inside (Whole), so two of them that begin in          *)
(* different places are apart without any comparison of their ends.  The   *)
(* rest of a buffer has no start bits at all (Buffers).  While a sweep is  *)
(* under way there are no buffers, what is held ahead of the cursor is     *)
(* marked, and what is listed lies behind it (Sweeping): hence an extent   *)
(* that the sweep lists is neither held nor listed already.                *)
(***************************************************************************)
EXTENDS SweepHeap, FiniteSetTheorems, WellFoundedInduction, TLAPS

----------------------------------------------------------------------------
(* The inductive invariant.                                                *)

Positive == Nat \ {0}

Types ==
    /\ free_point \in Nat /\ free_point <= HeapWords
    /\ objstart \subseteq 1 .. free_point
    /\ DOMAIN held \subseteq 1 .. free_point /\ held \in [DOMAIN held -> Positive]
    /\ DOMAIN entries \subseteq 1 .. free_point /\ entries \in [DOMAIN entries -> Positive]
    /\ tlab \in [Threads -> Positive \X Positive]
    /\ cursor \in Nat /\ sweep_limit \in Nat /\ lazy_sweep_active \in BOOLEAN
    /\ free_list_total_words \in Int
    /\ setting = Idle \/ \E read \in SUBSET objstart, a \in 1 .. free_point, t \in Threads : setting = <<read, a, t>>

\* The start bits, with the one that is being set.
Starts == objstart \cup (IF setting = Idle THEN {} ELSE {setting[2]})

\* Each interval of f begins at a start bit and has no other inside.
Whole(f) ==
    \A a \in DOMAIN f :
        /\ a \in Starts /\ a + f[a] <= free_point + 1
        /\ \A b \in Starts : b <= a \/ a + f[a] <= b

\* Nothing is held and listed.
Apart == DOMAIN held \cap DOMAIN entries = {}

\* The thread has a buffer with room; the intervals of f lie outside.
Open(t) == tlab[t][1] < tlab[t][2]

Aside(f, t) == \A a \in DOMAIN f : a + f[a] <= tlab[t][1] \/ tlab[t][2] <= a

\* The rest of a buffer holds no start bit, no object, no entry, and no other buffer.
Buffers ==
    \A t \in Threads : Open(t) =>
        /\ tlab[t][2] <= free_point + 1
        /\ \A b \in Starts : b < tlab[t][1] \/ tlab[t][2] <= b
        /\ Aside(held, t) /\ Aside(entries, t)
        /\ \A u \in Threads \ {t} : Open(u) => tlab[t][2] <= tlab[u][1] \/ tlab[u][2] <= tlab[t][1]

\* What a sweep under way relies on.
Sweeping ==
    lazy_sweep_active =>
        /\ Limit = free_point
        /\ \A t \in Threads : ~ Open(t)
        /\ \A a \in DOMAIN held : a <= cursor \/ a \in mark
        /\ \A a \in DOMAIN entries : a <= cursor

\* The count of the listed words is exact.
Counted == free_list_total_words = Total(entries)

IInv == Types /\ Whole(held) /\ Whole(entries) /\ Apart /\ Buffers /\ Sweeping /\ Counted

----------------------------------------------------------------------------
(* The smallest of a set of numbers, and sums as cardinalities.            *)

\* Min is the minimum, by the least-number principle.
LEMMA Least ==
  ASSUME NEW S \in SUBSET Nat, S # {}
  PROVE  Min(S) \in S /\ \A x \in S : Min(S) <= x
  <1>1. \E m \in S : \A x \in S : m <= x
    <2>1. PICK m \in S : \A x \in S : ~ (<<x, m>> \in OpToRel(<, Nat))
      BY NatLessThanWellFounded, WFMin
    <2>2. \A x, y \in Nat : x < y => <<x, y>> \in OpToRel(<, Nat)
      BY DEF OpToRel
    <2> QED
      <3> SUFFICES ASSUME NEW x \in S PROVE m <= x
        BY <2>1
      <3>1. x \in Nat /\ m \in Nat
        OBVIOUS
      <3>2. ~ (x < m)
        BY <2>1, <2>2, <3>1, Zenon
      <3> QED
        BY <3>1, <3>2
  <1> QED
    BY <1>1 DEF Min

\* The sum of a function of one argument.
LEMMA SumOfOne ==
  ASSUME NEW a, NEW n \in Nat, n <= HeapWords, HeapWords \in Nat
  PROVE  Total([b \in {a} |-> n]) = n
  <1>1. Pairs([b \in {a} |-> n]) = {a} \X (1 .. n)
    BY DEF Pairs
  <1>2. IsFiniteSet({a}) /\ Cardinality({a}) = 1
    BY FS_Singleton
  <1>3. IsFiniteSet(1 .. n) /\ Cardinality(1 .. n) = n
    BY FS_Interval
  <1>4. Cardinality({a} \X (1 .. n)) = 1 * n
    BY <1>2, <1>3, FS_Product
  <1>5. 1 * n = n
    OBVIOUS
  <1> QED
    BY <1>1, <1>4, <1>5, Zenon DEF Total

\* f where g is not defined, and g.
Joined(f, g) == [a \in DOMAIN f \cup DOMAIN g |-> IF a \in DOMAIN g THEN g[a] ELSE f[a]]

\* Sums over disjoint domains add up.
LEMMA SumOfBoth ==
  ASSUME NEW f, NEW g, IsFiniteSet(DOMAIN f), IsFiniteSet(DOMAIN g), HeapWords \in Nat,
         DOMAIN f \cap DOMAIN g = {}
  PROVE  Total(Joined(f, g)) = Total(f) + Total(g) /\ Total(f) \in Nat /\ Total(g) \in Nat
  <1>1. Pairs(Joined(f, g)) = Pairs(f) \cup Pairs(g) /\ Pairs(f) \cap Pairs(g) = {}
    BY DEF Pairs, Joined
  <1>2. ASSUME NEW h, IsFiniteSet(DOMAIN h) PROVE IsFiniteSet(Pairs(h))
    <2>1. IsFiniteSet(1 .. HeapWords)
      BY FS_Interval
    <2>2. IsFiniteSet((DOMAIN h) \X (1 .. HeapWords))
      BY <1>2, <2>1, FS_Product
    <2> QED
      BY <2>2, FS_Subset DEF Pairs
  <1>3. IsFiniteSet(Pairs(f)) /\ IsFiniteSet(Pairs(g))
    BY <1>2
  <1>4. Cardinality(Pairs(f)) \in Nat /\ Cardinality(Pairs(g)) \in Nat
    BY <1>3, FS_CardinalityType
  <1>5. Cardinality(Pairs(f) \cup Pairs(g)) = Cardinality(Pairs(f)) + Cardinality(Pairs(g)) - Cardinality(Pairs(f) \cap Pairs(g))
    BY <1>3, FS_Union
  <1> QED
    BY <1>1, <1>4, <1>5, FS_EmptySet DEF Total

\* What ms_objstart_extent returns: the distance to the next start bit, or to the limit.
LEMMA Extents ==
  ASSUME Types, NEW a \in objstart
  PROVE  /\ Extent(a, free_point) \in Positive /\ a + Extent(a, free_point) <= free_point + 1
         /\ \A b \in objstart : b <= a \/ a + Extent(a, free_point) <= b
  <1> DEFINE S == {b \in objstart \cup {free_point + 1} : b > a}
  <1>1. S \in SUBSET Nat /\ free_point + 1 \in S
    BY DEF Types
  <1>2. Min(S) \in S /\ \A x \in S : Min(S) <= x
    BY <1>1, Least
  <1> HIDE DEF S
  <1>3. Extent(a, free_point) = Min(S) - a
    BY DEF Extent, S
  <1>4. a \in Nat /\ free_point \in Nat /\ Min(S) \in Nat /\ Min(S) > a /\ Min(S) <= free_point + 1
    BY <1>1, <1>2 DEF S, Types
  <1>5. \A b \in objstart : b \in Nat /\ (b <= a \/ Min(S) <= b)
    BY <1>2 DEF S, Types
  <1> QED
    BY <1>3, <1>4, <1>5 DEF Positive

\* ms_reinit establishes the invariant.
LEMMA InitInvariant ==
  ASSUME SweepAssumption, Init PROVE IInv
  <1>1. Types
    <2>1. EmptyFn \in [DOMAIN EmptyFn -> Positive] /\ DOMAIN EmptyFn = {}
      BY DEF EmptyFn
    <2>2. NoTlab \in Positive \X Positive
      BY DEF NoTlab, Positive
    <2> QED
      <3>1. tlab \in [Threads -> Positive \X Positive]
        BY <2>2 DEF Init
      <3>2. DOMAIN held \subseteq 1 .. free_point /\ held \in [DOMAIN held -> Positive]
        BY <2>1 DEF Init
      <3>3. DOMAIN entries \subseteq 1 .. free_point /\ entries \in [DOMAIN entries -> Positive]
        BY <2>1 DEF Init
      <3>4. /\ free_point = 0 /\ HeapWords \in Nat /\ objstart = {} /\ cursor = 0 /\ sweep_limit = 0
            /\ lazy_sweep_active = FALSE /\ free_list_total_words = 0 /\ setting = Idle
        BY DEF Init, SweepAssumption, NoLimit
      <3>5. free_point \in Nat /\ free_point <= HeapWords /\ objstart \subseteq 1 .. free_point
        BY <3>4
      <3>6. cursor \in Nat /\ sweep_limit \in Nat /\ free_list_total_words \in Int
        BY <3>4
      <3>7. lazy_sweep_active \in BOOLEAN
        BY <3>4
      <3> QED
        BY <3>1, <3>2, <3>3, <3>4, <3>5, <3>6, <3>7, Zenon DEF Types
  <1>2. Whole(held) /\ Whole(entries) /\ Apart
    BY DEF Init, EmptyFn, Whole, Apart
  <1>3. Buffers /\ Sweeping
    BY DEF Init, Buffers, Open, NoTlab, Sweeping
  <1>4. Pairs(entries) = {}
    BY DEF Init, EmptyFn, Pairs
  <1>5. Counted
    BY <1>4, FS_EmptySet DEF Init, Counted, Total
  <1> QED
    BY <1>1, <1>2, <1>3, <1>5 DEF IInv

----------------------------------------------------------------------------
(* Each action keeps the invariant.                                        *)

\* An object from a buffer takes words that nothing else has.
LEMMA AllocTlabKeeps ==
  ASSUME SweepAssumption, IInv, NEW t \in Threads, AllocTlab(t)
  PROVE  IInv'
  <1> DEFINE p == tlab[t][1]
  <1>1. PICK n \in Sizes :
          /\ n <= TlabSize /\ p + n <= tlab[t][2]
          /\ tlab' = [tlab EXCEPT ![t] = <<p + n, tlab[t][2]>>]
          /\ objstart' = objstart \cup {p} /\ held' = Put(held, p, n)
    BY DEF AllocTlab
  <1>2. free_point' = free_point /\ entries' = entries /\ setting' = setting
        /\ UNCHANGED <<mark, free_list_total_words, sweep_limit, cursor, lazy_sweep_active>>
    BY DEF AllocTlab, sweep
  <1>3. n \in Positive /\ p \in Positive /\ tlab[t][2] \in Positive /\ Open(t)
    BY <1>1 DEF IInv, Types, SweepAssumption, Positive, Open
  <1>4. /\ DOMAIN held' = DOMAIN held \cup {p} /\ held'[p] = n
        /\ \A a \in DOMAIN held : a # p => held'[a] = held[a]
    BY <1>1 DEF Put
  <1>5. Starts' = Starts \cup {p} /\ p \notin Starts /\ Starts \subseteq Nat
    <2>1. Starts' = Starts \cup {p} /\ Starts \subseteq Nat
      <3>1. Starts' = Starts \cup {p}
        BY <1>1, <1>2 DEF Starts
      <3>2. setting = Idle \/ setting[2] \in Nat
        BY DEF IInv, Types
      <3> QED
        BY <3>1, <3>2 DEF Starts, IInv, Types
    <2>2. \A b \in Starts : b < p \/ tlab[t][2] <= b
      BY <1>3 DEF IInv, Buffers
    <2> QED
      BY <1>3, <2>1, <2>2 DEF Open, Positive
  <1>6. /\ tlab[t][2] <= free_point + 1 /\ Aside(held, t) /\ Aside(entries, t)
        /\ \A b \in Starts : b < p \/ tlab[t][2] <= b
    BY <1>3 DEF IInv, Buffers
  <1>7. ~ lazy_sweep_active
    BY <1>3 DEF IInv, Sweeping
  <1>8. /\ DOMAIN held \subseteq Starts /\ DOMAIN entries \subseteq Starts
        /\ \A a \in DOMAIN held : held[a] \in Positive
        /\ \A a \in DOMAIN entries : entries[a] \in Positive
    BY DEF IInv, Whole, Types
  <1>9. free_point \in Nat /\ \A b \in Starts : b \in Nat
    BY <1>5 DEF IInv, Types
  <1>17. /\ p \in Nat /\ n \in Nat /\ tlab[t][2] \in Nat /\ n > 0 /\ p + n <= tlab[t][2]
         /\ \A a \in DOMAIN held : a \in Nat /\ held[a] \in Nat /\ (a + held[a] <= p \/ tlab[t][2] <= a)
         /\ \A a \in DOMAIN entries : a \in Nat /\ entries[a] \in Nat /\ (a + entries[a] <= p \/ tlab[t][2] <= a)
    BY <1>1, <1>3, <1>6, <1>8, <1>9 DEF Positive, Aside
  <1> HIDE DEF p
  <1>10. Types'
    <2>1. p \in 1 .. free_point
      BY <1>1, <1>3, <1>6, <1>9 DEF Positive
    <2>2. held' \in [DOMAIN held' -> Positive]
      BY <1>1, <1>3, <1>4, <1>8 DEF Put
    <2>3. tlab' \in [Threads -> Positive \X Positive]
      BY <1>1, <1>3 DEF IInv, Types, Positive
    <2>4. setting' = Idle \/ \E read \in SUBSET objstart', a \in 1 .. free_point', u \in Threads : setting' = <<read, a, u>>
      <3>1. objstart \subseteq objstart'
        BY <1>1
      <3> QED
        BY <1>2, <3>1 DEF IInv, Types
    <2> QED
      BY <1>1, <1>2, <1>4, <2>1, <2>2, <2>3, <2>4 DEF IInv, Types
  <1>11. Whole(held)'
    <2>1. SUFFICES ASSUME NEW a \in DOMAIN held'
                   PROVE  /\ a \in Starts' /\ a + held'[a] <= free_point + 1
                          /\ \A b \in Starts' : b <= a \/ a + held'[a] <= b
      BY <1>2 DEF Whole
    <2>2. CASE a = p
      BY <1>1, <1>3, <1>4, <1>5, <1>6, <1>9, <2>2 DEF Positive
    <2>3. CASE a # p
      <3>1. /\ a \in Starts /\ a + held[a] <= free_point + 1 /\ held'[a] = held[a] /\ held[a] \in Positive
            /\ \A b \in Starts : b <= a \/ a + held[a] <= b
        BY <1>4, <1>8, <2>3 DEF IInv, Whole
      <3>2. a \in DOMAIN held
        BY <1>4, <2>3
      <3>3. a \in Nat /\ held[a] \in Nat /\ (p <= a \/ a + held[a] <= p)
        BY <1>17, <3>2
      <3> QED
        BY <1>5, <3>1, <3>3
    <2> QED
      BY <2>2, <2>3
  <1>12. Whole(entries)'
    <2>1. SUFFICES ASSUME NEW a \in DOMAIN entries
                   PROVE  /\ a \in Starts' /\ a + entries[a] <= free_point + 1
                          /\ \A b \in Starts' : b <= a \/ a + entries[a] <= b
      BY <1>2 DEF Whole
    <2>2. /\ a \in Starts /\ a + entries[a] <= free_point + 1 /\ entries[a] \in Positive
          /\ \A b \in Starts : b <= a \/ a + entries[a] <= b
      BY <1>8 DEF IInv, Whole
    <2>3. a \in Nat /\ (p <= a \/ a + entries[a] <= p)
      BY <1>17
    <2> QED
      BY <1>5, <2>2, <2>3
  <1>13. Apart'
    BY <1>2, <1>4, <1>5, <1>8 DEF IInv, Apart
  <1>14. /\ \A u \in Threads : u # t => tlab'[u] = tlab[u]
         /\ tlab'[t][1] = p + n /\ tlab'[t][2] = tlab[t][2]
    BY <1>1 DEF IInv, Types
  <1>15. Buffers'
    <2> SUFFICES ASSUME NEW u \in Threads, Open(u)'
                 PROVE  /\ (tlab[u][2])' <= free_point + 1
                        /\ \A b \in Starts' : b < (tlab[u][1])' \/ (tlab[u][2])' <= b
                        /\ Aside(held, u)' /\ Aside(entries, u)'
                        /\ \A v \in Threads \ {u} :
                              Open(v)' => (tlab[u][2])' <= (tlab[v][1])' \/ (tlab[v][2])' <= (tlab[u][1])'
      BY <1>2 DEF Buffers
    <2>1. \A v \in Threads : tlab[v][1] \in Positive /\ tlab[v][2] \in Positive
      BY DEF IInv, Types
    <2>2. Open(u) /\ \A v \in Threads : Open(v)' => Open(v)
      BY <1>3, <1>14 DEF Open
    <2>3. /\ tlab[u][2] <= free_point + 1
          /\ \A b \in Starts : b < tlab[u][1] \/ tlab[u][2] <= b
          /\ Aside(held, u) /\ Aside(entries, u)
          /\ \A v \in Threads \ {u} : Open(v) => tlab[u][2] <= tlab[v][1] \/ tlab[v][2] <= tlab[u][1]
      BY <2>2 DEF IInv, Buffers
    <2>4. CASE u = t
      <3>1. \A b \in Starts' : b < p + n \/ tlab[t][2] <= b
        <4>1. \A b \in Starts : b < p + n \/ tlab[t][2] <= b
          BY <1>6, <1>9, <1>17
        <4> QED
          BY <1>5, <1>17, <4>1
      <3>2. \A a \in DOMAIN held' : a + held'[a] <= p + n \/ tlab[t][2] <= a
        <4> SUFFICES ASSUME NEW a \in DOMAIN held' PROVE a + held'[a] <= p + n \/ tlab[t][2] <= a
          OBVIOUS
        <4>1. CASE a = p
          BY <1>4, <1>17, <4>1
        <4>2. CASE a # p
          <5>1. a \in DOMAIN held /\ held'[a] = held[a]
            BY <1>4, <4>2
          <5>2. a \in Nat /\ held[a] \in Nat /\ (a + held[a] <= p \/ tlab[t][2] <= a)
            BY <1>17, <5>1
          <5> QED
            BY <1>17, <5>1, <5>2
        <4> QED
          BY <4>1, <4>2
      <3>3. \A a \in DOMAIN entries : a + entries[a] <= p + n \/ tlab[t][2] <= a
        <4> SUFFICES ASSUME NEW a \in DOMAIN entries PROVE a + entries[a] <= p + n \/ tlab[t][2] <= a
          OBVIOUS
        <4>1. a \in Nat /\ entries[a] \in Nat /\ (a + entries[a] <= p \/ tlab[t][2] <= a)
          BY <1>17
        <4> QED
          BY <1>17, <4>1
      <3>4. \A v \in Threads \ {t} : Open(v) => tlab[t][2] <= tlab[v][1] \/ tlab[v][2] <= p + n
        BY <1>3, <2>1, <2>3, <2>4 DEF Positive, p
      <3> QED
        BY <1>2, <1>6, <1>14, <2>2, <2>4, <3>1, <3>2, <3>3, <3>4 DEF Aside
    <2>5. CASE u # t
      <3>1. tlab[u][2] <= p \/ tlab[t][2] <= tlab[u][1]
        BY <1>3, <2>3, <2>5 DEF p
      <3>2. \A b \in Starts' : b < tlab[u][1] \/ tlab[u][2] <= b
        BY <1>1, <1>3, <1>5, <2>1, <2>3, <3>1 DEF Positive
      <3>3. \A a \in DOMAIN held' : a + held'[a] <= tlab[u][1] \/ tlab[u][2] <= a
        BY <1>1, <1>3, <1>4, <2>1, <2>3, <3>1 DEF Positive, Aside
      <3>4. \A v \in Threads \ {u} :
              Open(v)' => tlab[u][2] <= (tlab[v][1])' \/ (tlab[v][2])' <= tlab[u][1]
        BY <1>3, <1>14, <2>1, <2>2, <2>3, <3>1 DEF Positive, p
      <3> QED
        BY <1>2, <1>14, <2>3, <2>5, <3>2, <3>3, <3>4 DEF Aside
    <2> QED
      BY <2>4, <2>5
  <1>16. Sweeping' /\ Counted'
    BY <1>2, <1>7 DEF IInv, Sweeping, Counted, Total, Pairs
  <1> QED
    BY <1>10, <1>11, <1>12, <1>13, <1>15, <1>16 DEF IInv

\* An object from a free list takes the place of the entry.
LEMMA MsFreeListAllocKeeps ==
  ASSUME SweepAssumption, IInv, NEW t \in Threads, MsFreeListAlloc(t)
  PROVE  IInv'
  <1>1. PICK n \in Sizes, a \in DOMAIN entries :
          /\ Fits(a, n) /\ entries' = Drop(entries, {a})
          /\ free_list_total_words' = free_list_total_words - Unlisted(a, n)
          /\ held' = Put(held, a, n) /\ setting' = <<objstart, a, t>>
    BY DEF MsFreeListAlloc
  <1>2. setting = Idle /\ UNCHANGED <<objstart, mark, free_point, tlab, sweep_limit, cursor, lazy_sweep_active>>
    BY DEF MsFreeListAlloc, sweep
  <1>3. /\ DOMAIN held' = DOMAIN held \cup {a} /\ held'[a] = n
        /\ \A b \in DOMAIN held : b # a => held'[b] = held[b]
        /\ held' \in [DOMAIN held' -> Positive]
    BY <1>1 DEF Put, IInv, Types, SweepAssumption, Positive
  <1>4. /\ DOMAIN entries' = DOMAIN entries \ {a}
        /\ \A b \in DOMAIN entries' : entries'[b] = entries[b]
        /\ entries' \in [DOMAIN entries' -> Positive]
    BY <1>1 DEF Drop, IInv, Types
  <1>5. a \in objstart /\ a \in Nat /\ Starts = objstart /\ Starts' = Starts /\ free_point \in Nat
    BY <1>1, <1>2 DEF Starts, IInv, Types, Whole, Idle
  <1>6. n \in Nat /\ entries[a] \in Nat /\ n <= entries[a]
    BY <1>1 DEF Fits, IInv, Types, SweepAssumption, Positive
  <1>7. Types'
    <2>1. a \in 1 .. free_point
      BY <1>1 DEF IInv, Types
    <2>2. setting' = <<objstart', a, t>>
      BY <1>1, <1>2
    <2>3. free_list_total_words' \in Int
      BY <1>1, <1>6 DEF Unlisted, IInv, Types
    <2> QED
      BY <1>2, <1>3, <1>4, <2>1, <2>2, <2>3 DEF IInv, Types
  <1>8. Whole(held)'
    <2> SUFFICES ASSUME NEW b \in DOMAIN held'
                 PROVE  /\ b \in Starts /\ b + held'[b] <= free_point + 1
                        /\ \A c \in Starts : c <= b \/ b + held'[b] <= c
      BY <1>2, <1>5 DEF Whole
    <2>1. CASE b = a
      <3>1. a + entries[a] <= free_point + 1 /\ \A c \in Starts : c \in Nat /\ (c <= a \/ a + entries[a] <= c)
        BY <1>5 DEF IInv, Types, Whole
      <3> QED
        BY <1>3, <1>5, <1>6, <2>1, <3>1
    <2>2. CASE b # a
      BY <1>3, <2>2 DEF IInv, Whole
    <2> QED
      BY <2>1, <2>2
  <1>9. Whole(entries)'
    BY <1>2, <1>4, <1>5 DEF IInv, Whole
  <1>10. Apart'
    BY <1>3, <1>4 DEF IInv, Apart
  <1>11. Buffers'
    <2>1. ASSUME NEW u \in Threads, Open(u) PROVE Aside(held, u)' /\ Aside(entries, u)'
      <3>1. Aside(held, u) /\ Aside(entries, u) /\ tlab[u][1] \in Nat /\ tlab[u][2] \in Nat
        BY <2>1 DEF IInv, Types, Buffers, Positive
      <3>2. a + n <= tlab[u][1] \/ tlab[u][2] <= a
        BY <1>5, <1>6, <3>1 DEF Aside
      <3> QED
        BY <1>2, <1>3, <1>4, <3>1, <3>2 DEF Aside
    <2> QED
      BY <1>2, <1>5, <2>1 DEF IInv, Buffers, Open
  <1>12. Sweeping'
    BY <1>2, <1>3, <1>4 DEF IInv, Sweeping, Limit, Open
  <1>13. Counted'
    <2> DEFINE one == [b \in {a} |-> entries[a]]
    <2>1. IsFiniteSet(DOMAIN entries')
      <3>1. IsFiniteSet(1 .. free_point)
        BY <1>5, FS_Interval
      <3> QED
        BY <1>4, <3>1, FS_Subset DEF IInv, Types
    <2>2. entries = Joined(entries', one)
      BY <1>4 DEF Joined, IInv, Types
    <2>3. HeapWords \in Nat /\ entries[a] <= HeapWords
      BY <1>1, <1>5, <1>6 DEF SweepAssumption, IInv, Types, Whole
    <2>4. Total(one) = entries[a]
      BY <1>6, <2>3, SumOfOne
    <2>5. IsFiniteSet(DOMAIN one) /\ DOMAIN entries' \cap DOMAIN one = {}
      BY <1>4, FS_Singleton
    <2> HIDE DEF one
    <2>6. Total(entries) = Total(entries') + entries[a] /\ Total(entries') \in Nat
      BY <2>1, <2>2, <2>3, <2>4, <2>5, SumOfBoth
    <2>7. free_list_total_words' = Total(entries) - entries[a]
      BY <1>1 DEF Unlisted, IInv, Counted
    <2>8. free_list_total_words' = Total(entries')
      BY <1>6, <2>6, <2>7
    <2> QED
      BY <2>8 DEF Counted, Total, Pairs
  <1> QED
    BY <1>7, <1>8, <1>9, <1>10, <1>11, <1>12, <1>13 DEF IInv

\* The bit that a plain BM_SET writes was counted before it was written, and here
\* the write undoes no other.
LEMMA SetBitKeeps ==
  ASSUME SweepAssumption, IInv, SetBit, intact'
  PROVE  IInv'
  <1>1. PICK read \in SUBSET objstart, a \in 1 .. free_point, t \in Threads : setting = <<read, a, t>>
    BY DEF SetBit, IInv, Types
  <1>2. /\ objstart' = objstart \cup {a} /\ setting' = Idle /\ setting # Idle
        /\ UNCHANGED <<held, mark, free_point, entries, free_list_total_words, tlab, sweep_limit, cursor, lazy_sweep_active>>
    <2>1. objstart' = read \cup {a} /\ objstart \subseteq objstart' /\ read \subseteq objstart
      BY <1>1 DEF SetBit
    <2> QED
      BY <1>1, <2>1 DEF SetBit, sweep
  <1>3. Starts' = Starts
    BY <1>1, <1>2 DEF Starts
  <1>4. Types'
    BY <1>2 DEF IInv, Types
  <1>5. Whole(held)' /\ Whole(entries)' /\ Apart' /\ Buffers'
    BY <1>2, <1>3 DEF IInv, Whole, Apart, Buffers, Open, Aside
  <1>6. Sweeping' /\ Counted'
    BY <1>2 DEF IInv, Sweeping, Limit, Open, Counted, Total, Pairs
  <1> QED
    BY <1>4, <1>5, <1>6 DEF IInv

\* The sweep lists only extents that are neither held nor listed.
LEMMA MsLazySweepOneKeeps ==
  ASSUME SweepAssumption, IInv, MsLazySweepOne
  PROVE  IInv'
  <1>1. /\ setting = Idle /\ setting' = Idle /\ lazy_sweep_active
        /\ UNCHANGED <<objstart, free_point, held, tlab, sweep_limit>>
    BY DEF MsLazySweepOne, space
  <1>2. Limit = free_point /\ free_point \in Nat /\ cursor \in Nat /\ Limit' = Limit
    BY <1>1 DEF IInv, Types, Sweeping, Limit
  <1>3. Starts = objstart /\ Starts' = Starts
    BY <1>1 DEF Starts
  <1>4. CASE cursor >= Limit
    <2>1. lazy_sweep_active' = FALSE /\ UNCHANGED <<mark, entries, free_list_total_words, cursor>>
      BY <1>4 DEF MsLazySweepOne, space
    <2>2. Types'
      BY <1>1, <2>1 DEF IInv, Types
    <2>3. Whole(held)' /\ Whole(entries)' /\ Apart' /\ Buffers'
      BY <1>1, <1>3, <2>1 DEF IInv, Whole, Apart, Buffers, Open, Aside
    <2>4. Sweeping' /\ Counted'
      BY <2>1 DEF IInv, Sweeping, Counted, Total, Pairs
    <2> QED
      BY <2>2, <2>3, <2>4 DEF IInv
  <1>5. CASE ~ (cursor >= Limit)
    <2> DEFINE freed == (objstart \cap (cursor + 1 .. cursor')) \ mark
               found == [a \in freed |-> Extent(a, free_point)]
    <2>1. /\ cursor' = Min({cursor + SweepBlock, Limit}) /\ lazy_sweep_active' = lazy_sweep_active
          /\ mark' = mark \ (objstart \cap (cursor + 1 .. cursor'))
          /\ entries' = Joined(entries, found)
          /\ free_list_total_words' = free_list_total_words + Total(found)
      <3>1. DOMAIN found = freed
        OBVIOUS
      <3>2. entries' = [a \in DOMAIN entries \cup freed |-> IF a \in freed THEN Extent(a, Limit) ELSE entries[a]]
        BY <1>1, <1>5 DEF MsLazySweepOne, SweepTo, AddEntries
      <3>3. entries' = Joined(entries, found)
        BY <1>2, <3>1, <3>2 DEF Joined
      <3> QED
        BY <1>1, <1>2, <1>5, <3>3 DEF MsLazySweepOne, SweepTo, AddEntries
    <2>2. cursor' \in Nat /\ cursor' >= cursor
      <3>1. cursor + SweepBlock \in Nat /\ cursor + SweepBlock >= cursor /\ Limit \in Nat /\ Limit >= cursor
        BY <1>2, <1>5 DEF SweepAssumption
      <3>2. cursor' \in {cursor + SweepBlock, Limit}
        BY <2>1, <3>1, Least
      <3> QED
        BY <1>2, <3>1, <3>2
    <2>3. /\ freed \subseteq objstart /\ \A a \in freed : a \in Nat /\ a > cursor /\ a <= cursor' /\ a \notin mark
      BY <1>2, <2>2 DEF IInv, Types
    <2>4. /\ \A a \in DOMAIN held : a <= cursor \/ a \in mark
          /\ \A a \in DOMAIN entries : a <= cursor
          /\ \A t \in Threads : ~ Open(t)
      BY <1>1 DEF IInv, Sweeping
    <2>5. DOMAIN entries \cap freed = {} /\ DOMAIN held \cap freed = {}
      BY <1>2, <2>3, <2>4
    <2>6. \A a \in freed :
            /\ found[a] \in Positive /\ a + found[a] <= free_point + 1
            /\ \A b \in objstart : b <= a \/ a + found[a] <= b
      BY <2>3, Extents DEF IInv
    <2>7. DOMAIN found = freed
      OBVIOUS
    <2> HIDE DEF found, freed
    <2>8. /\ DOMAIN entries' = DOMAIN entries \cup freed
          /\ \A a \in freed : entries'[a] = found[a]
          /\ \A a \in DOMAIN entries : entries'[a] = entries[a]
          /\ entries' = [a \in DOMAIN entries' |-> entries'[a]]
      BY <2>1, <2>5, <2>7 DEF Joined
    <2>9. Types'
      <3>1. DOMAIN entries' \subseteq 1 .. free_point
        BY <2>3, <2>8 DEF IInv, Types
      <3>2. entries' \in [DOMAIN entries' -> Positive]
        BY <2>6, <2>8 DEF IInv, Types
      <3>3. free_list_total_words' \in Int
        <4>1. IsFiniteSet(freed)
          BY <1>2, <2>3, FS_BoundedSetOfNaturals, <2>2
        <4>2. IsFiniteSet(DOMAIN EmptyFn) /\ DOMAIN EmptyFn \cap DOMAIN found = {} /\ HeapWords \in Nat
          BY FS_EmptySet DEF EmptyFn, SweepAssumption
        <4>3. Total(found) \in Nat
          BY <2>7, <4>1, <4>2, SumOfBoth
        <4> QED
          BY <2>1, <4>3 DEF IInv, Types
      <3> QED
        BY <1>1, <1>2, <2>1, <2>2, <3>1, <3>2, <3>3 DEF IInv, Types
    <2>10. Whole(held)'
      BY <1>1, <1>3 DEF IInv, Whole
    <2>11. Whole(entries)'
      <3> SUFFICES ASSUME NEW a \in DOMAIN entries'
                   PROVE  /\ a \in Starts /\ a + entries'[a] <= free_point + 1
                          /\ \A b \in Starts : b <= a \/ a + entries'[a] <= b
        BY <1>1, <1>3 DEF Whole
      <3>1. CASE a \in freed
        BY <1>3, <2>3, <2>6, <2>8, <3>1
      <3>2. CASE a \in DOMAIN entries
        BY <2>8, <3>2 DEF IInv, Whole
      <3> QED
        BY <2>8, <3>1, <3>2
    <2>12. Apart'
      BY <1>1, <2>5, <2>8 DEF IInv, Apart
    <2>13. Buffers'
      BY <1>1, <2>4 DEF Buffers, Open
    <2>14. Sweeping'
      <3>1. \A a \in DOMAIN held : a \in Nat /\ (a <= cursor' \/ a \in mark')
        <4> SUFFICES ASSUME NEW a \in DOMAIN held PROVE a \in Nat /\ (a <= cursor' \/ a \in mark')
          OBVIOUS
        <4>1. a \in Nat
          BY DEF IInv, Types
        <4>2. CASE a <= cursor
          BY <1>2, <2>2, <4>1, <4>2
        <4>3. CASE a \in mark
          BY <1>2, <2>1, <2>2, <4>1, <4>3
        <4> QED
          BY <2>4, <4>2, <4>3, <4>1
      <3>2. \A a \in DOMAIN entries' : a <= cursor'
        <4>1. \A a \in DOMAIN entries : a \in Nat
          BY DEF IInv, Types
        <4> QED
          BY <1>2, <2>2, <2>3, <2>4, <2>8, <4>1
      <3> QED
        BY <1>1, <1>2, <2>4, <3>1, <3>2 DEF Sweeping, Open
    <2>15. Counted'
      <3>1. IsFiniteSet(1 .. free_point) /\ freed \subseteq 1 .. free_point /\ DOMAIN entries \subseteq 1 .. free_point
        <4>1. freed \subseteq 1 .. free_point /\ DOMAIN entries \subseteq 1 .. free_point
          BY <2>3 DEF IInv, Types
        <4> QED
          BY <1>2, <4>1, FS_Interval
      <3>2. IsFiniteSet(freed) /\ IsFiniteSet(DOMAIN entries) /\ HeapWords \in Nat
        BY <3>1, FS_Subset DEF SweepAssumption
      <3>3. Total(entries') = Total(entries) + Total(found)
        BY <2>1, <2>5, <2>7, <3>2, SumOfBoth
      <3>4. free_list_total_words' = Total(entries')
        BY <2>1, <3>3 DEF IInv, Counted
      <3> QED
        BY <3>4 DEF Counted, Total, Pairs
    <2> QED
      BY <2>9, <2>10, <2>11, <2>12, <2>13, <2>14, <2>15 DEF IInv
  <1> QED
    BY <1>4, <1>5

\* What is carved lies above everything else.
LEMMA CarveKeeps ==
  ASSUME SweepAssumption, IInv, NEW t \in Threads, Carve(t)
  PROVE  IInv'
  <1> DEFINE first == free_point + 1
  <1>1. PICK n \in Sizes, words \in Nat :
          /\ words >= n /\ free_point + words < HeapWords /\ free_point' = free_point + words
          /\ tlab' = IF words > n THEN [tlab EXCEPT ![t] = <<first + n, first + words>>] ELSE tlab
          /\ held' = Put(held, first, n) /\ setting' = <<objstart, first, t>>
    <2>1. \A n \in Sizes : n >= n
      BY DEF SweepAssumption
    <2>2. TlabSize \in Nat /\ \A n \in Sizes : n \in Nat
      BY DEF SweepAssumption
    <2> QED
      BY <2>1, <2>2 DEF Carve
  <1>2. /\ setting = Idle /\ ~ lazy_sweep_active
        /\ UNCHANGED <<objstart, mark, entries, free_list_total_words, sweep_limit, cursor, lazy_sweep_active>>
    BY DEF Carve, sweep
  <1>3. /\ free_point \in Nat /\ n \in Nat /\ n > 0 /\ words \in Nat /\ words >= n /\ first \in Nat
        /\ HeapWords \in Nat
    BY <1>1, SMTT(30) DEF IInv, Types, SweepAssumption
  <1>4. /\ \A a \in DOMAIN held : a \in Nat /\ a < first /\ held[a] \in Nat /\ a + held[a] <= first
        /\ \A a \in DOMAIN entries : a \in Nat /\ a < first /\ entries[a] \in Nat /\ a + entries[a] <= first
        /\ \A b \in Starts : b \in Nat /\ b < first
        /\ Starts = objstart
    BY <1>2, <1>3 DEF IInv, Types, Whole, Starts, Positive
  <1>5. Starts' = Starts \cup {first}
    BY <1>1, <1>2, <1>4 DEF Starts, Idle
  <1>6. /\ DOMAIN held' = DOMAIN held \cup {first} /\ held'[first] = n
        /\ \A a \in DOMAIN held : held'[a] = held[a]
        /\ held' \in [DOMAIN held' -> Positive]
    BY <1>1, <1>3, <1>4 DEF Put, IInv, Types, Positive
  <1>7. /\ tlab' \in [Threads -> Positive \X Positive]
        /\ \A u \in Threads : tlab'[u] = tlab[u] \/ (u = t /\ tlab'[u] = <<first + n, first + words>>)
    BY <1>1, <1>3 DEF IInv, Types, Positive
  <1> HIDE DEF first
  <1>8. Types'
    <2>1. free_point' \in Nat /\ free_point' <= HeapWords /\ free_point <= free_point' /\ first \in 1 .. free_point'
      BY <1>1, <1>3 DEF first
    <2>2. DOMAIN held' \subseteq 1 .. free_point' /\ DOMAIN entries' \subseteq 1 .. free_point' /\ objstart' \subseteq 1 .. free_point'
      BY <1>2, <1>3, <1>6, <2>1 DEF IInv, Types
    <2> QED
      BY <1>1, <1>2, <1>6, <1>7, <2>1, <2>2 DEF IInv, Types
  <1>9. free_point' + 1 = first + words /\ free_point + 1 = first
    BY <1>1, <1>3 DEF first
  <1>10. Whole(held)'
    <2> SUFFICES ASSUME NEW a \in DOMAIN held'
                 PROVE  /\ a \in Starts' /\ a + held'[a] <= first + words
                        /\ \A b \in Starts' : b <= a \/ a + held'[a] <= b
      BY <1>9 DEF Whole
    <2>1. CASE a = first
      BY <1>3, <1>4, <1>5, <1>6, <2>1
    <2>2. CASE a \in DOMAIN held
      <3>1. a \in Starts /\ \A b \in Starts : b <= a \/ a + held[a] <= b
        BY <2>2 DEF IInv, Whole
      <3> QED
        BY <1>3, <1>4, <1>5, <1>6, <2>2, <3>1
    <2> QED
      BY <1>6, <2>1, <2>2
  <1>11. Whole(entries)'
    <2> SUFFICES ASSUME NEW a \in DOMAIN entries
                 PROVE  /\ a \in Starts' /\ a + entries[a] <= first + words
                        /\ \A b \in Starts' : b <= a \/ a + entries[a] <= b
      BY <1>2, <1>9 DEF Whole
    <2>1. a \in Starts /\ \A b \in Starts : b <= a \/ a + entries[a] <= b
      BY DEF IInv, Whole
    <2> QED
      BY <1>3, <1>4, <1>5, <2>1
  <1>12. Apart'
    BY <1>2, <1>3, <1>4, <1>6 DEF IInv, Apart
  <1>13. Buffers'
    <2>1. ASSUME NEW u \in Threads, tlab'[u] = tlab[u], Open(u)
          PROVE  /\ tlab[u][2] <= first /\ tlab[u][1] \in Nat /\ tlab[u][2] \in Nat /\ tlab[u][1] <= tlab[u][2]
                 /\ \A b \in Starts' : b < tlab[u][1] \/ tlab[u][2] <= b
                 /\ Aside(held, u)' /\ Aside(entries, u)'
      <3>1. /\ tlab[u][2] <= first /\ tlab[u][1] \in Nat /\ tlab[u][2] \in Nat /\ tlab[u][1] <= tlab[u][2]
            /\ \A b \in Starts : b < tlab[u][1] \/ tlab[u][2] <= b
            /\ Aside(held, u) /\ Aside(entries, u)
        BY <1>9, <2>1 DEF IInv, Types, Buffers, Open, Positive
      <3>2. Aside(held, u)' /\ Aside(entries, u)'
        BY <1>2, <1>3, <1>6, <2>1, <3>1 DEF Aside
      <3> QED
        BY <1>5, <3>1, <3>2
    <2>2. ASSUME NEW u \in Threads, tlab'[u] = <<first + n, first + words>>
          PROVE  /\ \A b \in Starts' : b < first + n
                 /\ \A a \in DOMAIN held' : a + held'[a] <= first + n
                 /\ \A a \in DOMAIN entries : a + entries[a] <= first + n
      BY <1>3, <1>4, <1>5, <1>6
    <2> SUFFICES ASSUME NEW u \in Threads, Open(u)'
                 PROVE  /\ (tlab[u][2])' <= first + words
                        /\ \A b \in Starts' : b < (tlab[u][1])' \/ (tlab[u][2])' <= b
                        /\ Aside(held, u)' /\ Aside(entries, u)'
                        /\ \A v \in Threads \ {u} :
                              Open(v)' => (tlab[u][2])' <= (tlab[v][1])' \/ (tlab[v][2])' <= (tlab[u][1])'
      BY <1>9 DEF Buffers
    <2>3. CASE tlab'[u] = tlab[u]
      <3>1. Open(u)
        BY <2>3 DEF Open
      <3>2. \A v \in Threads \ {u} : Open(v) => tlab[u][2] <= tlab[v][1] \/ tlab[v][2] <= tlab[u][1]
        BY <3>1 DEF IInv, Buffers
      <3>3. ASSUME NEW v \in Threads \ {u}, Open(v)'
            PROVE  tlab[u][2] <= (tlab[v][1])' \/ (tlab[v][2])' <= tlab[u][1]
        <4>1. CASE tlab'[v] = tlab[v]
          BY <3>2, <3>3, <4>1 DEF Open
        <4>2. CASE tlab'[v] = <<first + n, first + words>>
          BY <1>3, <2>1, <2>3, <3>1, <4>2
        <4> QED
          BY <1>7, <4>1, <4>2
      <3> QED
        BY <1>3, <2>1, <2>3, <3>1, <3>3
    <2>4. CASE u = t /\ tlab'[u] = <<first + n, first + words>>
      <3>1. ASSUME NEW v \in Threads \ {u}, Open(v)'
            PROVE  first + words <= (tlab[v][1])' \/ (tlab[v][2])' <= first + n
        <4>1. tlab'[v] = tlab[v]
          BY <1>7, <2>4
        <4>2. Open(v)
          BY <3>1, <4>1 DEF Open
        <4> QED
          BY <1>3, <2>1, <4>1, <4>2
      <3>2. Aside(held, u)' /\ Aside(entries, u)'
        BY <1>2, <2>2, <2>4 DEF Aside
      <3> QED
        BY <1>3, <2>2, <2>4, <3>1, <3>2
    <2> QED
      BY <1>7, <2>3, <2>4
  <1>14. Sweeping' /\ Counted'
    BY <1>2 DEF IInv, Sweeping, Counted, Total, Pairs
  <1> QED
    BY <1>8, <1>10, <1>11, <1>12, <1>13, <1>14 DEF IInv

\* The program drops an object.
LEMMA ForgetKeeps ==
  ASSUME IInv, Forget
  PROVE  IInv'
  <1>1. PICK a \in DOMAIN held : held' = Drop(held, {a})
    BY DEF Forget
  <1>2. UNCHANGED <<objstart, mark, free_point, entries, free_list_total_words, tlab, sweep_limit, cursor,
                    lazy_sweep_active, setting>>
    BY DEF Forget, space, sweep
  <1>3. /\ DOMAIN held' \subseteq DOMAIN held /\ held' \in [DOMAIN held' -> Positive]
        /\ \A b \in DOMAIN held' : held'[b] = held[b]
    BY <1>1 DEF Drop, IInv, Types
  <1>4. Starts' = Starts
    BY <1>2 DEF Starts
  <1>5. Types'
    BY <1>2, <1>3 DEF IInv, Types
  <1>6. Whole(held)' /\ Whole(entries)' /\ Apart'
    BY <1>2, <1>3, <1>4 DEF IInv, Whole, Apart
  <1>7. Buffers'
    BY <1>2, <1>3, <1>4 DEF IInv, Buffers, Open, Aside
  <1>8. Sweeping' /\ Counted'
    BY <1>2, <1>3 DEF IInv, Sweeping, Limit, Open, Counted, Total, Pairs
  <1> QED
    BY <1>5, <1>6, <1>7, <1>8 DEF IInv

\* A collection retires the buffers and empties the lists.
LEMMA CollectKeeps ==
  ASSUME IInv, Collect
  PROVE  IInv'
  <1>1. /\ setting = Idle /\ setting' = Idle /\ UNCHANGED <<held, free_point>>
        /\ tlab' = [t \in Threads |-> NoTlab] /\ sweep_limit' = free_point /\ mark' = DOMAIN held
        /\ entries' = EmptyFn /\ free_list_total_words' = 0 /\ cursor' = 0 /\ lazy_sweep_active' = TRUE
        /\ objstart' = objstart \cup {tlab[t][1] : t \in {u \in Threads : Open(u)}}
    BY DEF Collect, MsTlabRetireAll, Open
  <1>2. free_point \in Nat /\ Starts = objstart /\ Starts' = objstart'
    BY <1>1 DEF Starts, IInv, Types
  <1>3. \A b \in objstart' \ objstart : \E t \in Threads : Open(t) /\ b = tlab[t][1]
    BY <1>1
  <1>4. \A t \in Threads : Open(t) =>
          /\ tlab[t][1] \in Nat /\ tlab[t][1] > 0 /\ tlab[t][2] \in Nat /\ tlab[t][1] < tlab[t][2]
          /\ tlab[t][2] <= free_point + 1 /\ Aside(held, t)
    BY DEF IInv, Types, Buffers, Open, Positive
  <1>5. DOMAIN EmptyFn = {} /\ EmptyFn \in [DOMAIN EmptyFn -> Positive]
    BY DEF EmptyFn
  <1>6. Types'
    <2>1. objstart' \subseteq 1 .. free_point
      <3> SUFFICES ASSUME NEW b \in objstart', b \notin objstart PROVE b \in 1 .. free_point
        BY DEF IInv, Types
      <3> QED
        BY <1>2, <1>3, <1>4
    <2>2. tlab' \in [Threads -> Positive \X Positive]
      BY <1>1 DEF NoTlab, Positive
    <2>3. DOMAIN entries' \subseteq 1 .. free_point /\ entries' \in [DOMAIN entries' -> Positive]
      BY <1>1, <1>5
    <2> QED
      BY <1>1, <1>2, <2>1, <2>2, <2>3 DEF IInv, Types
  <1>7. Whole(held)'
    <2> SUFFICES ASSUME NEW a \in DOMAIN held, NEW b \in objstart' PROVE b <= a \/ a + held[a] <= b
      BY <1>1, <1>2 DEF IInv, Whole
    <2>1. CASE b \in objstart
      BY <1>2, <2>1 DEF IInv, Whole
    <2>2. CASE b \notin objstart
      <3>1. PICK t \in Threads : Open(t) /\ b = tlab[t][1]
        BY <1>3, <2>2
      <3>2. a + held[a] <= b \/ tlab[t][2] <= a
        BY <1>4, <3>1 DEF Aside
      <3>3. a \in Nat /\ b \in Nat /\ tlab[t][2] \in Nat /\ b < tlab[t][2]
        BY <1>4, <3>1 DEF IInv, Types
      <3> QED
        BY <3>2, <3>3
    <2> QED
      BY <2>1, <2>2
  <1>8. Whole(entries)' /\ Apart'
    BY <1>1, <1>5 DEF Whole, Apart
  <1>9. \A t \in Threads : ~ Open(t)'
    BY <1>1 DEF Open, NoTlab
  <1>10. Buffers'
    BY <1>9 DEF Buffers
  <1>11. Sweeping'
    BY <1>1, <1>5, <1>9 DEF Sweeping, Limit
  <1>12. Counted'
    <2>1. Pairs(entries') = {}
      BY <1>1, <1>5 DEF Pairs
    <2>2. free_list_total_words' = Total(entries')
      BY <1>1, <2>1, FS_EmptySet DEF Total
    <2> QED
      BY <2>2 DEF Counted, Total, Pairs
  <1> QED
    BY <1>6, <1>7, <1>8, <1>10, <1>11, <1>12 DEF IInv

\* ms_collect forgets its limit when it returns.
LEMMA EndCycleKeeps ==
  ASSUME IInv, EndCycle
  PROVE  IInv'
  <1>1. /\ sweep_limit' = NoLimit
        /\ UNCHANGED <<held, objstart, mark, free_point, entries, free_list_total_words, tlab, cursor, lazy_sweep_active, setting>>
    BY DEF EndCycle, space
  <1>2. Starts' = Starts
    BY <1>1 DEF Starts
  <1>3. Types'
    BY <1>1 DEF IInv, Types, NoLimit
  <1>4. Whole(held)' /\ Whole(entries)' /\ Apart' /\ Buffers'
    BY <1>1, <1>2 DEF IInv, Whole, Apart, Buffers, Open, Aside
  <1>5. Limit' = free_point'
    BY <1>1 DEF Limit
  <1>6. Sweeping' /\ Counted'
    BY <1>1, <1>5 DEF IInv, Sweeping, Open, Counted, Total, Pairs
  <1> QED
    BY <1>3, <1>4, <1>6 DEF IInv

\* Every step that leaves the start bits intact keeps the invariant.
LEMMA StepInvariant ==
  ASSUME SweepAssumption, intact => IInv, [Next]_vars
  PROVE  (intact => IInv)'
  <1> SUFFICES ASSUME intact' PROVE IInv'
    OBVIOUS
  <1>1. CASE UNCHANGED vars
    <2>1. Starts' = Starts /\ IInv
      BY <1>1 DEF vars, space, Starts
    <2>2. Types'
      BY <1>1, <2>1 DEF vars, space, sweep, IInv, Types
    <2>3. Whole(held)' /\ Whole(entries)' /\ Apart' /\ Buffers'
      BY <1>1, <2>1 DEF vars, space, IInv, Whole, Apart, Buffers, Open, Aside
    <2>4. Sweeping' /\ Counted'
      BY <1>1, <2>1 DEF vars, space, sweep, IInv, Sweeping, Limit, Open, Counted, Total, Pairs
    <2> QED
      BY <2>2, <2>3, <2>4 DEF IInv
  <1>2. CASE Next
    <2>1. IInv
      BY <1>2 DEF Next, AllocTlab, MsFreeListAlloc, Carve, SetBit, MsLazySweepOne, Forget, Collect, EndCycle
    <2>2. CASE \E t \in Threads : AllocTlab(t) \/ MsFreeListAlloc(t) \/ Carve(t)
      BY <2>1, <2>2, AllocTlabKeeps, MsFreeListAllocKeeps, CarveKeeps
    <2>3. CASE SetBit \/ MsLazySweepOne \/ Forget \/ Collect \/ EndCycle
      BY <2>1, <2>3, SetBitKeeps, MsLazySweepOneKeeps, ForgetKeeps, CollectKeeps, EndCycleKeeps
    <2> QED
      BY <1>2, <2>2, <2>3 DEF Next
  <1> QED
    BY <1>1, <1>2

\* The invariant holds in every state of the allocator and the sweep with intact
\* start bits.
THEOREM Invariance ==
  ASSUME SweepAssumption PROVE Spec => [](intact => IInv)
  <1>1. Init => (intact => IInv)
    BY InitInvariant
  <1>2. (intact => IInv) /\ [Next]_vars => (intact => IInv)'
    BY StepInvariant
  <1> QED
    BY <1>1, <1>2, PTL DEF Spec

----------------------------------------------------------------------------
(* What follows.                                                           *)

\* Intervals that begin in different places share no word.
LEMMA WholeApart ==
  ASSUME Types, NEW f, NEW g, Whole(f), Whole(g), NEW a \in DOMAIN f, NEW b \in DOMAIN g, a # b,
         f[a] \in Nat, g[b] \in Nat
  PROVE  Words(a, f[a]) \cap Words(b, g[b]) = {}
  <1>1. a \in Nat /\ b \in Nat
    BY DEF Types, Whole, Starts
  <1>2. (b <= a \/ a + f[a] <= b) /\ (a <= b \/ b + g[b] <= a)
    BY DEF Whole
  <1> QED
    BY <1>1, <1>2 DEF Words

\* Nor does an interval with the rest of a buffer.
LEMMA RestApart ==
  ASSUME Types, Buffers, NEW f, NEW t \in Threads, NEW a \in DOMAIN f, f[a] \in Nat, a \in Nat,
         Open(t) => Aside(f, t)
  PROVE  Words(a, f[a]) \cap Rest(t) = {}
  <1>1. tlab[t][1] \in Nat /\ tlab[t][2] \in Nat
    BY DEF Types, Positive
  <1>2. CASE Open(t)
    <2>1. a + f[a] <= tlab[t][1] \/ tlab[t][2] <= a
      BY <1>2 DEF Aside
    <2> QED
      BY <1>1, <2>1 DEF Words, Rest
  <1>3. CASE ~ Open(t)
    BY <1>1, <1>3 DEF Rest, Open
  <1> QED
    BY <1>2, <1>3

\* No word belongs to two objects, entries of the free lists or buffers, however
\* allocation, sweeping and collection follow one another (gc-ms.c), until a plain
\* BM_SET undoes the atomic one of a buffer.
THEOREM NothingHandedOutTwice ==
  ASSUME SweepAssumption PROVE Spec => []NoWordTwice
  <1>1. ASSUME intact => IInv, intact
        PROVE  \A c \in Claims : c[3] \subseteq 1 .. free_point /\ \A d \in Claims \ {c} : c[3] \cap d[3] = {}
    <2>1. /\ \A a \in DOMAIN held : a \in Nat /\ a > 0 /\ held[a] \in Nat /\ a + held[a] <= free_point + 1
          /\ \A a \in DOMAIN entries : a \in Nat /\ a > 0 /\ entries[a] \in Nat /\ a + entries[a] <= free_point + 1
          /\ \A t \in Threads : tlab[t][1] \in Nat /\ tlab[t][1] > 0 /\ tlab[t][2] \in Nat
          /\ free_point \in Nat
      BY <1>1 DEF IInv, Types, Whole, Positive
    <2>2. ASSUME NEW t \in Threads, NEW u \in Threads, t # u PROVE Rest(t) \cap Rest(u) = {}
      <3>1. CASE Open(t) /\ Open(u)
        <4>1. tlab[t][2] <= tlab[u][1] \/ tlab[u][2] <= tlab[t][1]
          BY <1>1, <2>2, <3>1 DEF IInv, Buffers
        <4> QED
          BY <2>1, <4>1 DEF Rest
      <3>2. CASE ~ (Open(t) /\ Open(u))
        BY <2>1, <3>2 DEF Rest, Open
      <3> QED
        BY <3>1, <3>2
    <2>3. ASSUME NEW t \in Threads, NEW a \in DOMAIN held PROVE Words(a, held[a]) \cap Rest(t) = {}
      BY <1>1, <2>1, RestApart DEF IInv, Buffers
    <2>4. ASSUME NEW t \in Threads, NEW a \in DOMAIN entries PROVE Words(a, entries[a]) \cap Rest(t) = {}
      BY <1>1, <2>1, RestApart DEF IInv, Buffers
    <2>5. ASSUME NEW a \in DOMAIN held, NEW b \in DOMAIN held, a # b PROVE Words(a, held[a]) \cap Words(b, held[b]) = {}
      BY <1>1, <2>1, <2>5, WholeApart DEF IInv
    <2>6. ASSUME NEW a \in DOMAIN entries, NEW b \in DOMAIN entries, a # b PROVE Words(a, entries[a]) \cap Words(b, entries[b]) = {}
      BY <1>1, <2>1, <2>6, WholeApart DEF IInv
    <2>7. ASSUME NEW a \in DOMAIN held, NEW b \in DOMAIN entries PROVE Words(a, held[a]) \cap Words(b, entries[b]) = {}
      <3>1. a # b
        BY <1>1 DEF IInv, Apart
      <3> QED
        BY <1>1, <2>1, <3>1, WholeApart DEF IInv
    <2>8. ASSUME NEW c \in Claims PROVE c[3] \subseteq 1 .. free_point
      <3>1. ASSUME NEW t \in Threads PROVE Rest(t) \subseteq 1 .. free_point
        <4>1. Open(t) => tlab[t][2] <= free_point + 1
          BY <1>1 DEF IInv, Buffers
        <4> QED
          BY <2>1, <4>1 DEF Rest, Open
      <3>2. ASSUME NEW a \in DOMAIN held PROVE Words(a, held[a]) \subseteq 1 .. free_point
        BY <2>1 DEF Words
      <3>3. ASSUME NEW a \in DOMAIN entries PROVE Words(a, entries[a]) \subseteq 1 .. free_point
        BY <2>1 DEF Words
      <3> QED
        BY <3>1, <3>2, <3>3 DEF Claims
    <2>9. ASSUME NEW c \in Claims, NEW d \in Claims \ {c} PROVE c[3] \cap d[3] = {}
      <3> DEFINE Objects == {<<"object", a, Words(a, held[a])>> : a \in DOMAIN held}
                 Entries == {<<"entry", a, Words(a, entries[a])>> : a \in DOMAIN entries}
                 Rests   == {<<"buffer", t, Rest(t)>> : t \in Threads}
      <3>1. c \in Objects \cup Entries \cup Rests /\ d \in Objects \cup Entries \cup Rests /\ c # d
        BY <2>9 DEF Claims
      <3>2. CASE c \in Objects
        BY <2>3, <2>5, <2>7, <3>1, <3>2
      <3>3. CASE c \in Entries
        BY <2>4, <2>6, <2>7, <3>1, <3>3
      <3>4. CASE c \in Rests
        BY <2>2, <2>3, <2>4, <3>1, <3>4
      <3> QED
        BY <3>1, <3>2, <3>3, <3>4
    <2> QED
      BY <2>8, <2>9
  <1>2. (intact => IInv) => NoWordTwice
    BY <1>1 DEF NoWordTwice
  <1> QED
    BY <1>2, Invariance, PTL

\* find_object_start, from any word of an object, gives the object, with the same
\* exception.
THEOREM LocativesFindTheirObject ==
  ASSUME SweepAssumption PROVE Spec => []InteriorFound
  <1>1. ASSUME intact => IInv PROVE InteriorFound
    <2> SUFFICES ASSUME intact, NEW a \in DOMAIN held, setting = Idle \/ setting[2] # a, NEW w \in Words(a, held[a])
                 PROVE  FindObjectStart(w) = a
      BY DEF InteriorFound
    <2> DEFINE S == {0} \cup {b \in objstart : b <= w}
    <2>1. a \in objstart /\ a \in Nat /\ held[a] \in Nat /\ \A b \in objstart : b \in Nat /\ (b <= a \/ a + held[a] <= b)
      BY <1>1 DEF IInv, Types, Whole, Starts, Positive
    <2>2. w \in Nat /\ a <= w /\ w < a + held[a]
      BY <2>1 DEF Words
    <2>3. a \in S /\ \A b \in S : b \in Nat /\ a >= b
      BY <2>1, <2>2
    <2> HIDE DEF S
    <2>4. ASSUME NEW x \in S, \A y \in S : x >= y PROVE x = a
      <3>1. x \in Nat /\ a >= x /\ x >= a
        BY <2>3, <2>4
      <3> QED
        BY <2>1, <3>1
    <2>5. Max(S) = a
      BY <2>3, <2>4, Zenon DEF Max
    <2> QED
      BY <2>5 DEF FindObjectStart, S
  <1> QED
    BY <1>1, Invariance, PTL

\* free_list_total_words is the number of words on the free lists, with the same
\* exception.
THEOREM CountIsListed ==
  ASSUME SweepAssumption PROVE Spec => []TotalIsListed
  <1>1. (intact => IInv) => TotalIsListed
    BY DEF IInv, Counted, TotalIsListed
  <1> QED
    BY <1>1, Invariance, PTL
=============================================================================
