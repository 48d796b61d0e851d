------------------------------ MODULE CopyingGc ------------------------------
(***************************************************************************)
(* The copying collector word by word: objects move when a reference to    *)
(* them is found and leave locatives behind, then locatives are redirected *)
(* and cells that only a locative knows are moved alone, then weak         *)
(* pointers follow.  Other threads are stopped (modules StopTheWorld and   *)
(* MarkSweepCycle), so that only the order of the steps matters.           *)
(*                                                                         *)
(* A cell holds <<"ref", a>>, <<"loc", a>> or <<"int", 0>>.  The heaps to  *)
(* collect are all fillings of a given layout; the first word of an object *)
(* is its type, to which no locative points.                               *)
(***************************************************************************)
EXTENDS Integers, Sequences

CONSTANTS
    Layout,         \* starts of the objects in old space |-> their lengths
    Naked,          \* cells of MAKE-CELL, part of no object
    Fillings,       \* contents of the first word of objects, and of other words
    RootCount,
    LateRoots,      \* roots that only the second pass visits: e_bp and e_pc
    Pointers        \* the kinds of pointer that registers and stacks hold

VARIABLES stage, next, mem, free_point, roots, weak, mem0, roots0, weak0

vars  == <<stage, next, mem, free_point, roots, weak, mem0, roots0, weak0>>
given == <<mem0, roots0, weak0>>

Int0  == <<"int", 0>>
Body(a)   == a .. a + Layout[a] - 1
Old       == UNION {Body(a) : a \in DOMAIN Layout} \cup Naked
Bound     == CHOOSE n \in Old : \A a \in Old : a <= n       \* old_space.end
InNew(a)  == a > Bound
Is(v, tag)     == v[1] = tag
IntoOld(v)     == v[1] # "int" /\ v[2] \in Old
Forwarded(m, a) == Is(m[a], "loc") /\ InNew(m[a][2])

Refs == {<<"ref", a>> : a \in DOMAIN Layout}
Locs == {<<"loc", a>> : a \in Old \ DOMAIN Layout}
Init ==
    /\ stage = "root" /\ next = 1 /\ free_point = Bound + 1
    /\ mem \in Fillings
    /\ roots \in [1 .. RootCount -> Pointers] /\ weak \in Refs
    /\ \A i \in LateRoots : roots[i] \in Locs
    /\ mem0 = mem /\ roots0 = roots /\ weak0 = weak

----------------------------------------------------------------------------
\* What a touch makes of memory: mem, free_point, and the value that replaces v.
Result(m, f, v) == [mem |-> m, free |-> f, val |-> v]

\* gc_touch0 on a reference: where the object went, or goes now.
Transport(m, f, v) ==
    LET a == v[2]
    IN  IF Is(m[a], "loc") THEN Result(m, f, <<"ref", m[a][2]>>)
        ELSE Result([w \in DOMAIN m \cup f .. f + Layout[a] - 1 |->
                       IF w \in Body(a) THEN <<"loc", f + w - a>>
                       ELSE IF w >= f THEN m[a + w - f] ELSE m[w]],
                    f + Layout[a], <<"ref", f>>)

\* The value at the end of a chain of locatives into old space, if it has one.
ChainEnd(m, v) ==
    LET at[n \in 0 .. Bound + 1] ==
          IF n = 0 THEN v
          ELSE IF Is(at[n - 1], "loc") /\ IntoOld(at[n - 1]) THEN m[at[n - 1][2]] ELSE at[n - 1]
    IN  IF Is(at[Bound + 1], "loc") THEN Int0 ELSE at[Bound + 1]

\* Mutant: a locative is left for the second pass, with what its cell refers to.
TouchRefs(m, f, v) == IF Is(v, "ref") /\ IntoOld(v) THEN Transport(m, f, v) ELSE Result(m, f, v)

\* GC_TOUCH: a locative stays, but what its cell refers to moves.
GcTouch(m, f, v) ==
    IF Is(v, "loc") /\ IntoOld(v)
    THEN LET e == ChainEnd(m, v)
             r == IF Is(e, "ref") /\ IntoOld(e) THEN Transport(m, f, e) ELSE Result(m, f, e)
         IN  [r EXCEPT !.val = v]
    ELSE TouchRefs(m, f, v)

\* LOC_TOUCH: to where the cell went, or the lonely cell moves by itself; what it
\* refers to has moved already.
LocTouch(m, f, v) ==
    IF ~ (Is(v, "loc") /\ IntoOld(v)) THEN Result(m, f, v)
    ELSE IF Forwarded(m, v[2]) THEN Result(m, f, m[v[2]])
    ELSE LET old  == m[v[2]]
             cell == IF Is(old, "ref") /\ IntoOld(old) THEN <<"ref", m[old[2]][2]>> ELSE old
         IN  Result([w \in DOMAIN m \cup {f} |->
                       IF w = f THEN cell ELSE IF w = v[2] THEN <<"loc", f>> ELSE m[w]],
                    f + 1, <<"loc", f>>)

Take(r) == mem' = r.mem /\ free_point' = r.free

\* Registers and stacks, in the first pass and in the pass over locatives.
TouchRoot ==
    /\ stage \in {"root", "loc root"} /\ next <= RootCount /\ next' = next + 1
    /\ LET r == CASE stage = "loc root"   -> LocTouch(mem, free_point, roots[next])
                  [] next \in LateRoots    -> Result(mem, free_point, roots[next])
                  [] OTHER                 -> GcTouch(mem, free_point, roots[next])
       IN  Take(r) /\ roots' = [roots EXCEPT ![next] = r.val]
    /\ UNCHANGED <<stage, weak, given>>

\* scavenge and loc_scavenge: new space is scanned while it grows.
Scavenge ==
    /\ stage \in {"scavenge", "loc scavenge"} /\ next < free_point /\ next' = next + 1
    /\ LET r == IF stage = "scavenge" THEN GcTouch(mem, free_point, mem[next])
                                      ELSE LocTouch(mem, free_point, mem[next])
       IN  free_point' = r.free /\ mem' = [r.mem EXCEPT ![next] = r.val]
    /\ UNCHANGED <<stage, roots, weak, given>>

AdvancePass ==
    /\ \/ stage \in {"root", "loc root"} /\ next > RootCount /\ next' = Bound + 1
       \/ stage = "scavenge" /\ next = free_point /\ next' = 1
       \/ stage = "loc scavenge" /\ next = free_point /\ UNCHANGED next
    /\ stage' = CASE stage = "root" -> "scavenge" [] stage = "scavenge" -> "loc root"
                  [] stage = "loc root" -> "loc scavenge" [] OTHER -> "weak"
    /\ UNCHANGED <<mem, free_point, roots, weak, given>>

PostGcWp ==
    weak' = IF Forwarded(mem, weak[2]) THEN <<"ref", mem[weak[2]][2]>> ELSE Int0

\* Weak pointers, and old space is given back.
Finish ==
    /\ stage = "weak" /\ stage' = "done" /\ PostGcWp
    /\ UNCHANGED <<next, mem, free_point, roots, given>>

Done == stage = "done" /\ UNCHANGED vars

Next == TouchRoot \/ Scavenge \/ AdvancePass \/ Finish \/ Done

Spec == Init /\ [][Next]_vars

----------------------------------------------------------------------------
\* The words that the program could reach before: a reference leads to all words
\* of its object, a locative to one.  A method that is done with its own object may
\* leave e_bp as the last pointer into it; that cell need not survive in good order.
Reached ==
    LET words(v) == IF Is(v, "ref") THEN Body(v[2]) ELSE IF Is(v, "loc") THEN {v[2]} ELSE {}
        within[n \in 0 .. Bound] ==
          IF n = 0 THEN UNION {words(roots0[i]) : i \in (1 .. RootCount) \ LateRoots}
          ELSE within[n - 1] \cup UNION {words(mem0[w]) : w \in within[n - 1]}
    IN  within[Bound]

\* The same value after the move.
Moved(v) == IF Is(v, "int") THEN v ELSE <<v[1], mem[v[2]][2]>>

\* The program sees the heap it had: every word it could reach has one new place,
\* which holds what it held with its pointers redirected, objects stay in one
\* piece, locatives still point into them, and nothing refers to old space.
SameGraph ==
    stage = "done" =>
        /\ \A w \in Reached : Forwarded(mem, w) /\ mem[mem[w][2]] = Moved(mem0[w])
        /\ \A w, x \in Reached : w # x => mem[w][2] # mem[x][2]
        /\ \A a \in DOMAIN Layout \cap Reached : \A w \in Body(a) : mem[w][2] = mem[a][2] + w - a
        /\ \A i \in 1 .. RootCount : roots[i] = Moved(roots0[i])
        /\ \A i \in LateRoots : InNew(roots[i][2])

\* A weak pointer keeps its object exactly as long as something else does.
WeakExactly ==
    stage = "done" => weak = (IF weak0[2] \in Reached THEN Moved(weak0) ELSE Int0)

=============================================================================
