------------------------------ MODULE WeakTable ------------------------------
(***************************************************************************)
(* Weak pointers: the table from slots to objects, the hash table from     *)
(* objects to their slots that linear probing searches, the list of slots  *)
(* to use again, growth, and what collections do to all of them.  A slot   *)
(* number is the weak pointer (OBJECT-HASH) that the program gets; every   *)
(* operation is one step under wp_lock.                                    *)
(***************************************************************************)
EXTENDS Integers, Sequences, SequencesExt, FiniteSets

CONSTANTS
    Objects,
    FirstTable, FirstHash,  \* wp_table_size and wp_hashtable_size of a new process
    MostSlots,              \* bound: capacity that the tables grow to
    Keys,                   \* bound: the keys that addresses give
    Moves                   \* bound: collections of one behaviour

None == 0

WeakAssumption ==
    /\ None \notin Objects /\ Keys \subseteq Nat /\ Moves \in Nat
    /\ FirstTable \in Nat \ {0} /\ FirstHash > FirstTable

VARIABLES
    state,              \* "new", "live" or "dead", of each object
    key,                \* wp_key of its address, which changes when it moves
    wp_table, wp_table_size,
    wp_hashtable,       \* a function on 0 .. its size - 1; an entry is <<object, slot>>
    wp_free_list,
    issued,             \* ghost: what the program was told
    moves

vars == <<state, key, wp_table, wp_table_size, wp_hashtable, wp_free_list, issued, moves>>

Empty == <<None, 0>>
HashSize == Cardinality(DOMAIN wp_hashtable)
Live == {o \in Objects : state[o] = "live"}

Init ==
    /\ state = [o \in Objects |-> "new"] /\ key \in [Objects -> Keys]
    /\ wp_table = <<>> /\ wp_table_size = FirstTable
    /\ wp_hashtable = [i \in 0 .. FirstHash - 1 |-> Empty]
    /\ wp_free_list = <<>> /\ issued = {} /\ moves = 0

----------------------------------------------------------------------------
\* The first slot at or after the key of o that holds what or is empty.
Probe(h, k, o) ==
    LET n    == Cardinality(DOMAIN h)
        at(j) == (k + j) % n
        ends == {j \in 0 .. n - 1 : h[at(j)][1] \in {o, None}}
    IN  IF ends = {} THEN None ELSE 1 + at(CHOOSE j \in ends : \A i \in ends : j <= i)

EnterWp(h, k, o, slot) == [h EXCEPT ![Probe(h, k, None) - 1] = <<o, slot>>]

\* rebuild_wp_hashtable_locked: both the hash table and the list of free slots.
Rehash(table, k, size) ==
    LET enter[n \in 0 .. Len(table)] ==
          IF n = 0 THEN [i \in 0 .. size - 1 |-> Empty]
          ELSE IF table[n] = None THEN enter[n - 1]
          ELSE EnterWp(enter[n - 1], k[table[n]], table[n], n)
    IN  enter[Len(table)]

FreeSlots(table) == SelectSeq([n \in 1 .. Len(table) |-> n], LAMBDA n : table[n] = None)

\* next_hash_prime of twice the capacity and one; oddness is all that matters here.
NextHashPrime(n) == IF n % 2 = 0 THEN n + 1 ELSE n

GrownTo(needed) ==
    CHOOSE n \in {wp_table_size * (2 ^ d) : d \in 0 .. 8} :
        n >= needed /\ \A d \in 0 .. 8 : wp_table_size * (2 ^ d) >= needed => n <= wp_table_size * (2 ^ d)

Grown(needed) == Rehash(wp_table, key, NextHashPrime(2 * GrownTo(needed) + 1))

Crowded == Len(wp_table) >= wp_table_size \/ 2 * (Len(wp_table) + 1) >= HashSize

\* OBJECT-HASH: the slot of an object, a used one or a new one.
RefToWp(o) ==
    /\ o \in Live
    /\ LET i == Probe(wp_hashtable, key[o], o) - 1
       IN  IF wp_hashtable[i][1] = o
           THEN /\ issued' = issued \cup {<<o, wp_hashtable[i][2]>>}
                /\ UNCHANGED <<wp_table, wp_table_size, wp_hashtable, wp_free_list>>
           ELSE \/ /\ wp_free_list # <<>>
                   /\ wp_table' = [wp_table EXCEPT ![Last(wp_free_list)] = o]
                   /\ wp_hashtable' = [wp_hashtable EXCEPT ![i] = <<o, Last(wp_free_list)>>]
                   /\ issued' = issued \cup {<<o, Last(wp_free_list)>>}
                   /\ wp_free_list' = Front(wp_free_list)
                   /\ UNCHANGED wp_table_size
                \/ /\ wp_free_list = <<>> /\ Len(wp_table) < MostSlots
                   /\ wp_table_size' = IF Crowded THEN GrownTo(Len(wp_table) + 1) ELSE wp_table_size
                   /\ wp_hashtable' = EnterWp(IF Crowded THEN Grown(Len(wp_table) + 1) ELSE wp_hashtable,
                                              key[o], o, Len(wp_table) + 1)
                   /\ wp_table' = Append(wp_table, o)
                   /\ issued' = issued \cup {<<o, Len(wp_table) + 1>>}
                   /\ UNCHANGED wp_free_list
    /\ UNCHANGED <<state, key, moves>>

\* The world loader's request.
EnsureWpCapacity ==
    /\ wp_table = <<>> /\ wp_table_size < MostSlots
    /\ wp_table_size' = GrownTo(wp_table_size + 1) /\ wp_hashtable' = Grown(wp_table_size + 1)
    /\ UNCHANGED <<state, key, wp_table, wp_free_list, issued, moves>>

Create == \E o \in Objects : state[o] = "new" /\ state' = [state EXCEPT ![o] = "live"]
            /\ UNCHANGED <<key, wp_table, wp_table_size, wp_hashtable, wp_free_list, issued, moves>>

\* Mutant: the old hash table is kept after a collection.
KeepHash(table, k) == wp_hashtable' = wp_hashtable

RebuildHash(table, k) == wp_hashtable' = Rehash(table, k, HashSize)

\* A collection: some objects die, the others may move.
PostGcWp ==
    /\ moves < Moves /\ moves' = moves + 1
    /\ \E dead \in SUBSET Live :
          /\ state' = [o \in Objects |-> IF o \in dead THEN "dead" ELSE state[o]]
          /\ wp_table' = [n \in DOMAIN wp_table |-> IF wp_table[n] \in dead THEN None ELSE wp_table[n]]
    /\ key' \in [Objects -> Keys]
    /\ RebuildHash(wp_table', key') /\ wp_free_list' = FreeSlots(wp_table')
    /\ UNCHANGED <<wp_table_size, issued>>

Next == Create \/ EnsureWpCapacity \/ PostGcWp \/ \E o \in Objects : RefToWp(o)

Spec == Init /\ [][Next]_vars

----------------------------------------------------------------------------
\* OBJECT-UNHASH (wp_to_ref).
WpToRef(w) == wp_table[w]

\* As long as an object lives, its weak pointer leads to it and it gets no second
\* one: eq hash tables are keyed by these numbers.
OneWeakPointerEach ==
    \A p, q \in issued : state[p[1]] = "live" => WpToRef(p[2]) = p[1] /\ (p[1] = q[1] => p = q)

\* The search of ref_to_wp ends: there is an empty entry whatever the table holds,
\* and it finds the object that is there.
ProbesEnd ==
    /\ \E i \in DOMAIN wp_hashtable : wp_hashtable[i] = Empty
    /\ \A n \in DOMAIN wp_table : wp_table[n] # None =>
          wp_hashtable[Probe(wp_hashtable, key[wp_table[n]], wp_table[n]) - 1] = <<wp_table[n], n>>

\* weak.c:92-96: a slot may only be handed out again once nothing can be holding the
\* old index; so a weak pointer never leads to another object than its own.
NeverAnother == \A p \in issued : WpToRef(p[2]) \in {p[1], None}
=============================================================================
