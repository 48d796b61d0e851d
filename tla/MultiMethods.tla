---------------------------- MODULE MultiMethods ----------------------------
(***************************************************************************)
(* Operations that dispatch on several arguments: the %MULTI-METHOD of a   *)
(* home type with its entries and its cache of type tuples, how methods    *)
(* get into it, how FUNCALL uses it, and the choice on a miss.  One        *)
(* operation is modelled; the first argument is of a subtype of OBJECT.    *)
(***************************************************************************)
EXTENDS Integers, Sequences, SequencesExt

CONSTANTS
    SuperList,      \* the supertypes of each type
    SearchOrder,    \* what Hierarchy makes of them
    Homes, Tuples,  \* what methods are added to, and their later specializers
    ArgLists,       \* arguments: pairs of a type and the type when forced
    CacheLines,     \* %multi-cache-lines
    MaxInstalls     \* bound on the methods added

VARIABLES
    lambda,         \* the operation's LAMBDA? slot: a method, Never or Generic
    alist,          \* what each home's alist has for it: a method, Multi or Nothing
    multi,          \* the %MULTI-METHOD of each home
    cache,          \* the operation's own cache: a type, what is found for it, and where
    pending,        \* the call that dispatch has made again with promises forced
    installed       \* the methods a program has added, replaced ones too

vars == <<lambda, alist, multi, cache, pending, installed>>

Types     == DOMAIN SuperList

\* find_method_type_pair and %type-precedence-list: depth first; of a type that occurs
\* again the first place counts.
Hierarchy == LET walk[t \in Types] ==
                    <<t>> \o FlattenSeq([i \in DOMAIN SuperList[t] |-> walk[SuperList[t][i]]])
             IN  walk

Place(t, super) == SelectInSeq(SearchOrder[t], LAMBDA u : u = super)
IsA(t, super)   == Place(t, super) # 0

Special(what) == [home |-> what, tuple |-> <<>>, no |-> 0]
Never   == Special("never")
Generic == Special("generic")
Nothing == Special("nothing")
Multi   == Special("multi")

\* Where the frame of a home lies in an instance of t; no argument has none.
BpOffset(t, home) == IF home = "object" THEN 0 ELSE IF t = home THEN 1 ELSE Place(t, home)

TypeOf(args, i)   == IF i <= Len(args) THEN args[i][1] ELSE "object"
FirstType(args)   == TypeOf(args, 1)
Forcible(args, i) == i <= Len(args) /\ IsA(args[i][1], "forcible")
Forced(args, is)  == [i \in DOMAIN args |-> IF i \in is THEN <<args[i][2], args[i][2]>> ELSE args[i]]
Promises(args)    == {i \in DOMAIN args : Forcible(args, i)}

MultiAssumption ==
    /\ \A t \in Types : SearchOrder[t] = Hierarchy[t]
    /\ DOMAIN SearchOrder = Types
    /\ CacheLines \in Nat \ {0} /\ MaxInstalls \in Nat
    /\ \A tuple \in Tuples : tuple # <<>> /\ Last(tuple) # "object"
    /\ \A args \in ArgLists : \A is \in {{1}, DOMAIN args} : Forced(args, is \cap Promises(args)) \in ArgLists

Search(t) ==
    LET homes == SelectSeq(SearchOrder[t], LAMBDA h : h \in Homes /\ alist[h] # Nothing)
    IN  IF homes = <<>> THEN <<Nothing, "object">> ELSE <<alist[homes[1]], homes[1]>>

----------------------------------------------------------------------------
(* Selection.                                                              *)

Specializer(tuple, i) == IF i <= Len(tuple) THEN tuple[i] ELSE "object"
Pad(tuple, n)         == [i \in 1 .. n |-> Specializer(tuple, i)]

Applicable(tuple, args) ==
    \A i \in DOMAIN tuple :
        tuple[i] = "object" \/ (i < Len(args) /\ IsA(TypeOf(args, i + 1), tuple[i]))

\* %multi-compare: 1.
Precedes(a, b, args) ==
    \E i \in DOMAIN a :
        LET t == TypeOf(args, i + 1)
        IN  /\ a[i] # b[i] /\ \A j \in 1 .. i - 1 : a[j] = b[j]
            /\ IF IsA(t, a[i]) \/ IsA(t, b[i])
               THEN IsA(t, a[i]) /\ (IsA(t, b[i]) => Place(t, a[i]) < Place(t, b[i]))
               ELSE b[i] = "object"

\* The entries more specific than all others that apply: the code takes one.
Best(mm, args) ==
    LET fit == {e \in mm.entries : Applicable(e.tuple, args)}
    IN  {e \in fit : \A f \in fit \ {e} : Precedes(e.tuple, f.tuple, args)}

MatchedPromise(tuple, args) ==
    \E i \in DOMAIN tuple : tuple[i] = "object" /\ Forcible(args, i + 1)

\* %multi-cache-key and what FUNCALL compares with it: 0 stands for a missing argument.
Key(n, args) == [i \in 1 .. n |-> IF i <= Len(args) THEN args[i][1] ELSE "0"]

----------------------------------------------------------------------------
(* What a call does: it runs a method on a frame, is made again with other *)
(* arguments, or fails; and what it caches.                                *)

Run(method, off) == [does |-> "run", method |-> method, off |-> off, args |-> <<>>]
Retry(args, is)  == [does |-> "retry", method |-> Nothing, off |-> 0, args |-> Forced(args, is)]
Fail             == [does |-> "fail", method |-> Nothing, off |-> 0, args |-> <<>>]
Ambiguous        == [Fail EXCEPT !.does = "ambiguous"]

\* The end of failed-funcall.
Unhandled(args) == IF Forcible(args, 1) THEN Retry(args, {1}) ELSE Fail

\* %multi-resolve of failed-funcall; an entry runs through an operation of its own.
Resolve(args) ==
    LET home == Search(FirstType(args))[2]
        best == Best(multi[home], args)
        some == CHOOSE e \in best : TRUE
    IN  IF Search(FirstType(args))[1] # Multi THEN Unhandled(args)
        ELSE IF best # {} /\ ~ MatchedPromise(some.tuple, args)
             THEN Run(some.method, BpOffset(FirstType(args), home))
        ELSE IF Promises(args) # {} THEN Retry(args, Promises(args))
        ELSE IF best # {} THEN Run(some.method, BpOffset(FirstType(args), home))
        ELSE IF \E e \in multi[home].entries : Applicable(e.tuple, args) THEN Ambiguous
        ELSE Fail

\* FUNCALL: the operation's cache or the search.
Reached(args) == IF cache.type = FirstType(args) THEN cache.found ELSE Search(FirstType(args))

LinesFor(mm, args) == SelectSeq(mm.lines, LAMBDA line : line.key = Key(Len(line.key), args))

Missed(args) == Reached(args)[1] = Multi /\ LinesFor(multi[Reached(args)[2]], args) = <<>>

Decision(args) ==
    LET found == Reached(args)[1]
        home  == Reached(args)[2]
    IN  IF lambda \notin {Never, Generic} THEN Run(lambda, 0)
        ELSE IF lambda = Never \/ found = Nothing THEN Unhandled(args)
        ELSE IF found # Multi THEN Run(found, BpOffset(FirstType(args), home))
        ELSE IF Missed(args) THEN Resolve(args)
        ELSE LET line == LinesFor(multi[home], args)[1] IN Run(line.method, line.off)

\* %multi-remember!: newest first, cut off.
Remember(mm, method, off, args) ==
    LET line == [key |-> Key(mm.arity + 1, args), method |-> method, off |-> off]
    IN  [mm EXCEPT !.lines = SubSeq(<<line>> \o @, 1, IF Len(@) < CacheLines THEN Len(@) + 1 ELSE CacheLines)]

Call(args) ==
    LET found == Reached(args)
        what  == Decision(args)
    IN  /\ pending \in {{}, {args}}
        /\ pending' = IF what.does = "retry" THEN {what.args} ELSE {}
        /\ IF lambda = Generic /\ found[1] # Nothing
           THEN /\ cache' = [type |-> FirstType(args), found |-> found]
                /\ multi' = IF Missed(args) /\ what.does = "run"
                            THEN [multi EXCEPT ![found[2]] = Remember(@, what.method, what.off, args)]
                            ELSE multi
           ELSE UNCHANGED <<cache, multi>>
        /\ UNCHANGED <<lambda, alist, installed>>

----------------------------------------------------------------------------
(* Installation.                                                           *)

Fresh  == [arity |-> 0, entries |-> {}, lines |-> <<>>]
Parked == [type |-> "0", found |-> <<Nothing, "object">>]

\* %multi-put!: widen the tuples, replace an equal one, empty the cache.
Put(mm, tuple, method) ==
    LET arity == IF Len(tuple) > mm.arity THEN Len(tuple) ELSE mm.arity
        grown == {[e EXCEPT !.tuple = Pad(@, arity)] : e \in mm.entries}
    IN  [arity   |-> arity,
         entries |-> {e \in grown : e.tuple # Pad(tuple, arity)} \cup {[tuple |-> Pad(tuple, arity), method |-> method]},
         lines   |-> <<>>]

\* A lambda that is no longer the only method goes to OBJECT's alist.
Tossed == IF lambda \in {Never, Generic} THEN alist ELSE [alist EXCEPT !["object"] = lambda]

\* The new method, by how often its place has been taken, and what the program has then.
NewMethod(home, tuple) ==
    [home |-> home, tuple |-> tuple, no |-> 1 + Cardinality({m \in installed : m.home = home /\ m.tuple = tuple})]

Added(home, tuple) ==
    /\ pending = {} /\ Cardinality(installed) < MaxInstalls
    /\ installed' = installed \cup {NewMethod(home, tuple)}
    /\ UNCHANGED pending

\* ADD-METHOD specializing on the first parameter: %INSTALL-METHOD-WITH-ENV.
AddMethod(home) ==
    /\ Added(home, <<>>)
    /\ IF home = "object" /\ lambda # Generic
       THEN lambda' = NewMethod(home, <<>>) /\ UNCHANGED <<alist, multi, cache>>
       ELSE /\ lambda' = Generic /\ cache' = Parked
            /\ IF Tossed[home] = Multi
               THEN alist' = Tossed /\ multi' = [multi EXCEPT ![home] = Put(@, <<>>, NewMethod(home, <<>>))]
               ELSE alist' = [Tossed EXCEPT ![home] = NewMethod(home, <<>>)] /\ UNCHANGED multi

\* ADD-METHOD specializing on more: %install-multi-method-with-env; a plain method that
\* is there becomes an entry.
AddMultiMethod(home, tuple) ==
    LET there == IF Tossed[home] \in {Nothing, Multi} THEN multi[home] ELSE Put(Fresh, <<>>, Tossed[home])
    IN  /\ Added(home, tuple)
        /\ lambda' = Generic /\ cache' = Parked /\ alist' = [Tossed EXCEPT ![home] = Multi]
        /\ multi' = [multi EXCEPT ![home] = Put(there, tuple, NewMethod(home, tuple))]

Init ==
    /\ lambda = Never /\ cache = Parked /\ pending = {} /\ installed = {}
    /\ alist = [h \in Homes |-> Nothing] /\ multi = [h \in Homes |-> Fresh]

Next ==
    \/ \E args \in ArgLists : Call(args)
    \/ \E h \in Homes : AddMethod(h) \/ \E tuple \in Tuples : AddMultiMethod(h, tuple)

Spec == Init /\ [][Next]_vars

----------------------------------------------------------------------------
(* What the manual says (doc/lang, methods): the first type in the search  *)
(* order with a method decides; of its methods that apply, the one whose   *)
(* specializer comes first in the search order, at the first parameter     *)
(* where they differ; and promises are forced if it matched one only       *)
(* through OBJECT.                                                         *)

Newest == {m \in installed : \A n \in installed : n.home = m.home /\ n.tuple = m.tuple => n.no <= m.no}

Reach == Max({0} \cup {Len(tuple) : tuple \in Tuples})

\* Before: a comes before b by the search orders of the types of the arguments.
Before(a, b, args) ==
    LET place(m, i) == Place(TypeOf(args, i + 1), Specializer(m.tuple, i))
        last(m, i)  == IF place(m, i) = 0 THEN 1000 ELSE place(m, i)
    IN  \E i \in 1 .. Reach : last(a, i) < last(b, i) /\ \A j \in 1 .. i - 1 : last(a, j) = last(b, j)

HomesOf(args)    == SelectSeq(SearchOrder[FirstType(args)], LAMBDA h : \E m \in installed : m.home = h)
MethodsFor(args) == {m \in Newest : HomesOf(args) # <<>> /\ m.home = HomesOf(args)[1]}
Fitting(args)    == {m \in MethodsFor(args) : Applicable(m.tuple, args)}

Wanted(args) ==
    LET chosen == CHOOSE m \in Fitting(args) : \A n \in Fitting(args) \ {m} : Before(m, n, args)
        through(i) == Specializer(chosen.tuple, i) = "object" /\ \E m \in MethodsFor(args) : i <= Len(m.tuple)
    IN  IF HomesOf(args) = <<>> THEN Unhandled(args)
        ELSE IF Fitting(args) = {} THEN IF Promises(args) # {} THEN Retry(args, Promises(args)) ELSE Fail
        ELSE IF \E i \in 1 .. Reach : through(i) /\ Forcible(args, i + 1) THEN Retry(args, Promises(args))
        ELSE Run(chosen, BpOffset(FirstType(args), HomesOf(args)[1]))

\* Where the manual contradicts itself: it also says that a method which specializes on
\* nothing after the first parameter "is the least specific of all", but OBJECT comes
\* before a later supertype in the search order of a type with two parents.
Contested(args) == \E m, n \in Fitting(args) : m.tuple = <<>> /\ n # m /\ Before(m, n, args)

\* Whatever was installed, called and remembered before, in whatever order, the next call
\* does what the manual says, on the right frame, and never finds an ambiguity.
DispatchRight == \A args \in ArgLists : ~ Contested(args) => Decision(args) = Wanted(args)

\* The other sentence, also in multi-method.oak, of every call: such a method runs only
\* when no other of its home applies.  The code follows the search order in the
\* contested calls, and TLC refutes this there.
FallbackIsLeast ==
    \A args \in ArgLists :
        LET d == Decision(args)
        IN  d.does = "run" /\ d.method.tuple = <<>> =>
                \A m \in Newest : m.home = d.method.home /\ m.tuple # <<>> => ~ Applicable(m.tuple, args)
=============================================================================
