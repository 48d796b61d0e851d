----------------------------- MODULE HeapSizing -----------------------------
(***************************************************************************)
(* How big the copying collector makes the next space.  gc() tests for     *)
(* room after each object it transports and ends the process unless a word *)
(* is left over; the allocator does not test again after a collection.     *)
(* Both rely on the arithmetic at the end of the collection before and of  *)
(* this one.  Sizes are in words; what survives a collection is anybody's  *)
(* guess.                                                                  *)
(***************************************************************************)
EXTENDS Integers

CONSTANTS
    RECLAIM_FACTOR,
    OriginalSize,       \* original_newspace_size
    MaxAmount,          \* bound: words of one request
    MaxWords            \* bound: words in use and asked for

SizingAssumption ==
    /\ RECLAIM_FACTOR \in Nat \ {0} /\ OriginalSize \in Nat \ {0}
    /\ MaxAmount \in Nat /\ MaxWords \in Nat

VARIABLES
    stage,              \* "run", "copied" or "room": where the allocation is;
                        \* "exhausted" when the process has ended
    size, taken,        \* of new_space
    spatic,             \* words in spatic space
    e_next_newspace_size,
    amount, full,       \* of the collection under way
    flips,              \* times through gc_top
    filled              \* history: the last request that collected took the last word

vars == <<stage, size, taken, spatic, e_next_newspace_size, amount, full, flips, filled>>

Init ==
    /\ stage = "run" /\ size = OriginalSize /\ taken = 0
    /\ spatic \in 0 .. 1 /\ e_next_newspace_size = OriginalSize
    /\ amount = 0 /\ full = FALSE /\ flips = 0 /\ filled = FALSE

\* Up to so many words are alive and copied into the space of size'.  The copy that
\* takes its last word is fatal: "This indicates a bug in the garbage collector".
Transport(words) ==
    /\ taken' \in 0 .. words
    /\ stage' = IF taken' > 0 /\ taken' >= size' THEN "exhausted" ELSE "copied"
    /\ flips' = flips + 1

\* The collection copies what is alive into a space of the size that was chosen.
Flip(words, everything) ==
    /\ size' = IF everything THEN size + spatic ELSE e_next_newspace_size
    /\ Transport(words)

\* ALLOCATE_PROT, when there is room.
AllocateRoom ==
    /\ stage = "run"
    /\ \E words \in 1 .. MaxAmount :
          /\ words < size - taken /\ taken + spatic + words <= MaxWords
          /\ taken' = taken + words
    /\ UNCHANGED <<stage, size, spatic, e_next_newspace_size, amount, full, flips, filled>>

\* ... and when there is not; the mark-sweep build falls back to a full collection.
AllocateCollecting ==
    /\ stage = "run"
    /\ \E words \in 1 .. MaxAmount, f \in BOOLEAN :
          /\ words >= size - taken /\ taken + spatic + words <= MaxWords
          /\ amount' = words /\ full' = f /\ Flip(IF f THEN taken + spatic ELSE taken, f)
    /\ UNCHANGED <<spatic, e_next_newspace_size, filled>>

\* The GC and FULL-GC instructions.
CollectExplicitly ==
    /\ stage = "run"
    /\ \E f \in BOOLEAN : full' = f /\ Flip(IF f THEN taken + spatic ELSE taken, f)
    /\ amount' = 0
    /\ UNCHANGED <<spatic, e_next_newspace_size, filled>>

Wanted == RECLAIM_FACTOR * taken + amount

\* "Make the next new space bigger", and collect again if it is needed at once.
Resize ==
    /\ stage = "copied" /\ ~ full
    /\ e_next_newspace_size' = IF Wanted > size THEN Wanted ELSE e_next_newspace_size
    /\ IF Wanted > size /\ size - taken < amount
       THEN size' = e_next_newspace_size' /\ Transport(taken)
       ELSE stage' = "room" /\ UNCHANGED <<taken, size, flips>>
    /\ UNCHANGED <<spatic, amount, full, filled>>

\* A full collection makes what it copied spatic and starts an empty space.
BecomeSpatic ==
    /\ stage = "copied" /\ full
    /\ spatic' = taken /\ taken' = 0
    /\ size' = IF OriginalSize <= amount THEN RECLAIM_FACTOR * amount ELSE OriginalSize
    /\ e_next_newspace_size' = size'
    /\ stage' = "room"
    /\ UNCHANGED <<amount, full, flips, filled>>

\* Back in the allocator: p = free_point, without a test.  A request fits that takes
\* the last word.
Bump ==
    /\ stage = "room"
    /\ stage' = "run" /\ taken' = taken + amount /\ flips' = 0
    /\ filled' = (taken' = size)
    /\ amount' = 0 /\ full' = FALSE
    /\ UNCHANGED <<size, spatic, e_next_newspace_size>>

Next == AllocateRoom \/ AllocateCollecting \/ CollectExplicitly \/ Resize \/ BecomeSpatic \/ Bump

Spec == Init /\ [][Next]_vars

----------------------------------------------------------------------------
\* What is allocated lies inside the space, one more collection is always enough to
\* get there, and what is alive fits with a word to spare into the space that is made
\* for it, unless a request had filled the space before to its last word.
RoomForAll ==
    /\ taken <= size /\ flips <= 2
    /\ stage = "exhausted" => filled

\* New space is never exhausted by the collector's own copies.
NeverExhausted == stage # "exhausted"
=============================================================================
