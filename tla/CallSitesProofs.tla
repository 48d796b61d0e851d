--------------------------- MODULE CallSitesProofs ---------------------------
(***************************************************************************)
(* That caching methods, in the operation and at the call sites of native  *)
(* code, changes nothing as long as one thread runs: for every hierarchy   *)
(* of types, and any number of methods, installations, collections and     *)
(* registrations.                                                          *)
(***************************************************************************)
EXTENDS CallSites, WellFoundedInduction, TLAPS

Methods == [at : Types, no : Nat]
Offsets == {NoFrame} \cup {BpOffset(ty, home) : ty \in Types, home \in Types}

MethodTypes ==
    /\ lambda \in {Generic} \cup [at : {"object"}, no : Nat]
    /\ alist \in [Types -> Methods \cup {Nil}]
    /\ \A ty \in Types : alist[ty] # Nil => alist[ty].at = ty
    /\ cache \in [type : Types \cup {Parked}, meth : Methods \cup {Nil}, off : Offsets]
    /\ installs \in Nat

CallTypes ==
    /\ pc \in [Threads -> {"idle", "type", "meth", "off", "again", "search", "store meth", "store off", "store type",
                           "ran", "replace", "toss", "flush", "generic", "put"}]
    /\ arg \in [Threads -> Types \cup {Parked}]
    /\ meth \in [Threads -> Methods \cup {Nil, Generic, Other}]
    /\ off \in [Threads -> Offsets]
    /\ right \in [Threads -> SUBSET ((Methods \cup {Nil, Generic, Other}) \X Offsets)]
    /\ pc[Thread] # "idle" => arg[Thread] \in Types

At(points) == pc[Thread] \in points

Looking == {"type", "meth", "off", "again", "search", "store meth", "store off", "store type"}

\* The cache is good for nothing only while a miss fills it, and empty unless the
\* operation is generic.
CacheFresh ==
    ~ At({"store off", "store type"}) /\ cache.type # Parked =>
        lambda = Generic /\ <<cache.meth, cache.off>> = Search(cache.type)

\* What the thread has read and written so far in the call it is in.
CallUnderWay ==
    /\ At(Looking) => lambda = Generic /\ Search(arg[Thread]) \in right[Thread]
    /\ At({"meth", "off", "again"}) => cache.type = arg[Thread]
    /\ At({"off", "again"}) => meth[Thread] = cache.meth
    /\ At({"again"}) => off[Thread] = cache.off
    /\ At({"store meth", "store off", "store type"}) => <<meth[Thread], off[Thread]>> = Search(arg[Thread])
    /\ At({"store off", "store type"}) => cache.meth = meth[Thread]
    /\ At({"store type"}) => cache.off = off[Thread]

\* How far the installation is that the thread is in.
InstallUnderWay ==
    /\ At({"replace"}) => arg[Thread] = "object" /\ lambda # Generic
    /\ At({"toss"}) => lambda # Generic
    /\ At({"generic", "put"}) => cache.type = Parked
    /\ At({"put"}) => lambda = Generic

CacheInv == MethodTypes /\ CallTypes /\ CacheFresh /\ CallUnderWay /\ InstallUnderWay

----------------------------------------------------------------------------
(* The search.                                                             *)

\* One method of a type is found with the place of its own type in the instance.
LEMMA SearchFacts ==
  ASSUME CacheAssumption, MethodTypes, NEW ty \in Types
  PROVE  /\ Search(ty) = <<Search(ty)[1], Search(ty)[2]>>
         /\ Search(ty)[1] \in Methods \cup {Nil} /\ Search(ty)[2] \in Offsets
         /\ Search(ty)[1] # Nil => Search(ty)[2] = BpOffset(ty, Search(ty)[1].at)
<1> DEFINE homes == {i \in DOMAIN SearchOrder[ty] : alist[SearchOrder[ty][i]] # Nil}
           home  == SearchOrder[ty][Min(homes)]
<1>1. CASE homes = {}
  BY <1>1 DEF Search, Offsets
<1>2. CASE homes # {}
  <2>1. SearchOrder[ty] \in Seq(Types) /\ homes \subseteq Nat
    BY DEF CacheAssumption
  <2>2. Min(homes) \in homes
    <3>1. PICK m \in homes : \A n \in homes : <<n, m>> \notin OpToRel(<, Nat)
      BY <1>2, <2>1, NatLessThanWellFounded, WFMin
    <3>3. \A i, j \in Nat : i < j => <<i, j>> \in OpToRel(<, Nat)
      BY DEF OpToRel
    <3>4. \A n \in homes : n \in Nat /\ m \in Nat
      BY <2>1
    <3> HIDE DEF homes
    <3>2. ASSUME NEW n \in homes PROVE m <= n
      <4>1. n \in Nat /\ m \in Nat /\ <<n, m>> \notin OpToRel(<, Nat)
        BY <3>1, <3>4
      <4>2. ~ (n < m)
        BY <3>3, <4>1, Zenon
      <4>3. n \in Nat /\ m \in Nat
        BY <3>4
      <4> QED
        BY <4>2, <4>3
    <3> QED
      BY <3>1, <3>2 DEF Min
  <2>3. home \in Types /\ alist[home] # Nil
    <3> DEFINE m == Min(homes)
    <3>1. m \in DOMAIN SearchOrder[ty] /\ alist[SearchOrder[ty][m]] # Nil
      BY <2>2
    <3> HIDE DEF m
    <3>2. SearchOrder[ty][m] \in Types
      BY <2>1, <3>1
    <3> QED
      BY <3>1, <3>2 DEF m
  <2>4. alist[home] \in Methods /\ alist[home].at = home
    BY <2>3 DEF MethodTypes
  <2>5. Search(ty) = <<alist[home], BpOffset(ty, home)>>
    BY <1>2 DEF Search
  <2> HIDE DEF home
  <2> QED
    BY <2>3, <2>4, <2>5 DEF Offsets
<1> QED
  BY <1>1, <1>2

LEMMA SearchUnchanged ==
  ASSUME UNCHANGED alist, NEW ty
  PROVE  Search(ty)' = Search(ty)
BY DEF Search

----------------------------------------------------------------------------
(* Calls by the interpreter and installations.                             *)

\* There is one thread.
Alone == Threads = {Thread}

LEMMA TypesDistinct ==
  ASSUME CacheAssumption
  PROVE  /\ "object" \in Types /\ Parked \notin Types
         /\ Generic \notin Methods /\ Nil \notin Methods /\ Other \notin Methods
         /\ Generic # Nil /\ Generic # Other /\ Nil # Other
         /\ [at : {"object"}, no : Nat] \subseteq Methods
<1>1. "object" \in Types /\ Parked \notin Types /\ "nil" \notin Types /\ "generic" \notin Types /\ "other" \notin Types
  BY DEF CacheAssumption
<1> HIDE DEF Types
<1> QED
  BY <1>1 DEF Methods, Generic, Nil, Other

\* A call of the operation, as far as the words that the search writes down.
LEMMA MethodTypesStep ==
  ASSUME CacheAssumption, Alone, CacheInv, CacheNext
  PROVE  MethodTypes'
<1>0. Thread \in Threads /\ Threads = {Thread}
  BY DEF Alone
<1>t. PICK t \in Threads :
        \/ \E ty \in Types : Funcall(t, ty) \/ AddMethod(t, ty)
        \/ ReadType(t) \/ ReadMeth(t) \/ ReadOff(t) \/ ReadTypeAgain(t)
        \/ FindMethodTypePair(t) \/ StoreMeth(t) \/ StoreOff(t) \/ StoreType(t)
        \/ Return(t)
        \/ ReplaceLambda(t) \/ TossOntoObject(t) \/ FlushCache(t) \/ MakeGeneric(t) \/ PutMethod(t)
  BY DEF CacheNext
<1>1. t = Thread
  BY <1>0
<1> HIDE DEF Thread, Types
<1>m. MethodTypes
  BY DEF CacheInv
<1>2. CASE \/ \E ty \in Types : Funcall(t, ty)
           \/ ReadType(t) \/ ReadMeth(t) \/ ReadOff(t) \/ ReadTypeAgain(t) \/ FindMethodTypePair(t) \/ Return(t)
  <2>1. UNCHANGED <<lambda, alist, cache, installs>>
    BY <1>2 DEF Funcall, ReadType, ReadMeth, ReadOff, ReadTypeAgain, FindMethodTypePair, Return
  <2> QED
    BY <1>m, <2>1 DEF MethodTypes
<1>3. CASE StoreMeth(t) \/ StoreOff(t) \/ StoreType(t) \/ FlushCache(t)
  <2>1. UNCHANGED <<lambda, alist, installs>>
    BY <1>3 DEF StoreMeth, StoreOff, StoreType, FlushCache
  <2>2. CASE StoreMeth(t)
    <3>1. <<meth[t], off[t]>> = Search(arg[t]) /\ arg[t] \in Types
      BY <1>1, <2>2 DEF StoreMeth, Goto, CacheInv, CallUnderWay, CallTypes, At
    <3>2. meth[t] \in Methods \cup {Nil}
      BY <1>m, <3>1, SearchFacts
    <3> QED
      BY <1>m, <2>1, <2>2, <3>2 DEF StoreMeth, MethodTypes
  <2>3. CASE StoreOff(t)
    <3>1. off[t] \in Offsets
      BY <1>0, <1>1 DEF CacheInv, CallTypes
    <3> QED
      BY <1>m, <2>1, <2>3, <3>1 DEF StoreOff, MethodTypes
  <2>4. CASE StoreType(t)
    <3>1. arg[t] \in Types \cup {Parked}
      BY <1>0, <1>1 DEF CacheInv, CallTypes
    <3> QED
      BY <1>m, <2>1, <2>4, <3>1 DEF StoreType, MethodTypes
  <2>5. CASE FlushCache(t)
    BY <1>m, <2>1, <2>5 DEF FlushCache, MethodTypes
  <2> QED
    BY <1>3, <2>2, <2>3, <2>4, <2>5
<1>4. CASE \E ty \in Types : AddMethod(t, ty)
  BY <1>m, <1>4 DEF AddMethod, MethodTypes
<1>5. CASE ReplaceLambda(t) \/ MakeGeneric(t)
  <2>1. UNCHANGED <<alist, cache, installs>>
    BY <1>5 DEF ReplaceLambda, MakeGeneric
  <2>2. lambda' \in {Generic} \cup [at : {"object"}, no : Nat]
    <3>1. CASE ReplaceLambda(t)
      <4>1. arg[t] = "object" /\ meth[t].no \in Nat
        BY <1>0, <1>1, <3>1 DEF ReplaceLambda, Goto, CacheInv, CallTypes, InstallUnderWay, At, Methods, Nil, Generic, Other
      <4> QED
        BY <3>1, <4>1 DEF ReplaceLambda, NewMethod
    <3>2. CASE MakeGeneric(t)
      BY <3>2 DEF MakeGeneric
    <3> QED
      BY <1>5, <3>1, <3>2
  <2> QED
    BY <1>m, <2>1, <2>2 DEF MethodTypes
<1>6. CASE TossOntoObject(t)
  <2>1. lambda # Generic
    BY <1>1, <1>6 DEF TossOntoObject, Goto, CacheInv, InstallUnderWay, At
  <2>2. lambda \in Methods /\ lambda.at = "object" /\ "object" \in Types
    BY <1>m, <2>1, TypesDistinct DEF MethodTypes
  <2>3. alist' = [alist EXCEPT !["object"] = lambda] /\ UNCHANGED <<lambda, cache, installs>>
    BY <1>6, <2>1 DEF TossOntoObject
  <2> QED
    BY <1>m, <2>2, <2>3 DEF MethodTypes
<1>7. CASE PutMethod(t)
  <2>1. arg[t] \in Types /\ meth[t].no \in Nat
    BY <1>0, <1>1, <1>7 DEF PutMethod, Goto, CacheInv, CallTypes, Methods, Nil, Generic, Other
  <2>2. NewMethod(t) \in Methods /\ NewMethod(t).at = arg[t]
    BY <2>1 DEF NewMethod, Methods
  <2>3. alist' = [alist EXCEPT ![arg[t]] = NewMethod(t)] /\ UNCHANGED <<lambda, cache, installs>>
    BY <1>7 DEF PutMethod
  <2> QED
    BY <1>m, <2>1, <2>2, <2>3 DEF MethodTypes
<1> QED
  BY <1>t, <1>2, <1>3, <1>4, <1>5, <1>6, <1>7

LEMMA CallTypesStep ==
  ASSUME CacheAssumption, Alone, CacheInv, CacheNext
  PROVE  CallTypes'
<1>0. Thread \in Threads /\ Threads = {Thread}
  BY DEF Alone
<1>t. PICK t \in Threads :
        \/ \E ty \in Types : Funcall(t, ty) \/ AddMethod(t, ty)
        \/ ReadType(t) \/ ReadMeth(t) \/ ReadOff(t) \/ ReadTypeAgain(t)
        \/ FindMethodTypePair(t) \/ StoreMeth(t) \/ StoreOff(t) \/ StoreType(t)
        \/ Return(t)
        \/ ReplaceLambda(t) \/ TossOntoObject(t) \/ FlushCache(t) \/ MakeGeneric(t) \/ PutMethod(t)
  BY DEF CacheNext
<1>1. t = Thread
  BY <1>0
<1> HIDE DEF Thread, Types
<1>m. MethodTypes /\ CallTypes /\ MethodTypes'
  BY MethodTypesStep DEF CacheInv
<1>2. CASE \E ty \in Types : Funcall(t, ty)
  <2>1. PICK ty \in Types : Funcall(t, ty)
    BY <1>2
  <2>2. lambda \in Methods \cup {Generic} /\ NoFrame \in Offsets
    BY <1>m, TypesDistinct DEF MethodTypes, Offsets
  <2>3. Found(ty) \in (Methods \cup {Nil, Generic, Other}) \X Offsets
    BY <1>m, <2>2, SearchFacts DEF Found
  <2> QED
    BY <1>0, <1>1, <1>m, <2>1, <2>2, <2>3 DEF Funcall, Goto, CallTypes
<1>3. CASE \E ty \in Types : AddMethod(t, ty)
  <2>1. PICK ty \in Types : AddMethod(t, ty)
    BY <1>3
  <2>2. [at |-> ty, no |-> installs + 1] \in Methods
    BY <1>m DEF Methods, MethodTypes
  <2> QED
    BY <1>0, <1>1, <1>m, <2>1, <2>2 DEF AddMethod, Goto, CallTypes
<1>4. CASE ReadType(t) \/ ReadTypeAgain(t) \/ StoreMeth(t) \/ StoreOff(t) \/ StoreType(t) \/ Return(t) \/ FlushCache(t)
  BY <1>0, <1>1, <1>m, <1>4 DEF ReadType, ReadTypeAgain, StoreMeth, StoreOff, StoreType, Return, FlushCache, Goto, CallTypes
<1>5. CASE ReadMeth(t) \/ ReadOff(t)
  <2>1. cache.meth \in Methods \cup {Nil} /\ cache.off \in Offsets
    BY <1>m DEF MethodTypes
  <2> QED
    BY <1>0, <1>1, <1>m, <1>5, <2>1 DEF ReadMeth, ReadOff, Goto, CallTypes
<1>6. CASE FindMethodTypePair(t)
  <2>1. arg[t] \in Types
    BY <1>1, <1>m, <1>6 DEF FindMethodTypePair, Goto, CallTypes
  <2>2. Search(arg[t])[1] \in Methods \cup {Nil} /\ Search(arg[t])[2] \in Offsets
    BY <1>m, <2>1, SearchFacts
  <2> QED
    BY <1>0, <1>1, <1>m, <1>6, <2>2 DEF FindMethodTypePair, Goto, CallTypes
<1>7. CASE ReplaceLambda(t) \/ TossOntoObject(t) \/ MakeGeneric(t) \/ PutMethod(t)
  <2>1. /\ \E from, to \in {"replace", "toss", "flush", "generic", "put", "idle"} : from # "idle" /\ Goto(t, from, to)
        /\ Witnessed /\ UNCHANGED <<arg, meth, off>>
    BY <1>7 DEF ReplaceLambda, TossOntoObject, MakeGeneric, PutMethod
  <2>2. ~ Calling(t) /\ pc'[t] # "ran"
    BY <1>0, <1>1, <1>m, <2>1 DEF Calling, Goto, CallTypes
  <2>3. right' = right
    BY <1>0, <1>1, <1>m, <2>1, <2>2 DEF Witnessed, CallTypes
  <2> QED
    BY <1>0, <1>1, <1>m, <2>1, <2>3 DEF Goto, CallTypes
<1> QED
  BY <1>t, <1>2, <1>3, <1>4, <1>5, <1>6, <1>7

\* The cache and the call; and whoever comes to run a method has what the search finds.
LEMMA CacheStep ==
  ASSUME CacheAssumption, Alone, CacheInv, CacheNext
  PROVE  /\ CacheInv'
         /\ pc'[Thread] = "ran" => pc[Thread] # "ran" /\ (<<meth[Thread], off[Thread]>> \in right[Thread])'
<1>0. Thread \in Threads /\ Threads = {Thread}
  BY DEF Alone
<1>t. PICK t \in Threads :
        \/ \E ty \in Types : Funcall(t, ty) \/ AddMethod(t, ty)
        \/ ReadType(t) \/ ReadMeth(t) \/ ReadOff(t) \/ ReadTypeAgain(t)
        \/ FindMethodTypePair(t) \/ StoreMeth(t) \/ StoreOff(t) \/ StoreType(t)
        \/ Return(t)
        \/ ReplaceLambda(t) \/ TossOntoObject(t) \/ FlushCache(t) \/ MakeGeneric(t) \/ PutMethod(t)
  BY DEF CacheNext
<1>1. t = Thread
  BY <1>0
<1> HIDE DEF Thread, Types
<1>m. MethodTypes /\ CallTypes /\ MethodTypes' /\ CallTypes'
  BY MethodTypesStep, CallTypesStep DEF CacheInv
<1>s. alist' = alist => \A ty \in Types : Search(ty)' = Search(ty)
  BY SearchUnchanged
<1>d. /\ Parked \notin Types /\ Generic # Nil
      /\ cache.type # Parked => cache.type \in Types
      /\ pc[t] # "idle" => arg[t] \in Types
  BY <1>1, <1>m, TypesDistinct DEF MethodTypes, CallTypes
<1> DEFINE Good == /\ CacheFresh' /\ CallUnderWay' /\ InstallUnderWay'
                   /\ pc'[t] = "ran" => pc[t] # "ran" /\ (<<meth[t], off[t]>> \in right[t])'
<1>2. ASSUME NEW ty \in Types, Funcall(t, ty) PROVE Good
  <2>1. /\ pc[t] = "idle" /\ pc'[t] = IF lambda = Generic THEN "type" ELSE "ran"
        /\ arg'[t] = ty /\ right'[t] = {Found(ty)} /\ meth'[t] = lambda /\ off'[t] = NoFrame
        /\ UNCHANGED <<lambda, alist, cache>>
    BY <1>0, <1>1, <1>m, <1>2 DEF Funcall, Goto, CallTypes
  <2>2. Search(ty)' = Search(ty) /\ Found(ty) = IF lambda = Generic THEN Search(ty) ELSE <<lambda, NoFrame>>
    BY <1>s, <2>1 DEF Found
  <2>8. CacheFresh'
    BY <1>1, <1>m, <1>s, <1>d, <2>1, <2>2 DEF CacheInv, CacheFresh, At
  <2>9. CallUnderWay' /\ InstallUnderWay'
    BY <1>1, <1>m, <1>s, <1>d, <2>1, <2>2 DEF CacheInv, CallUnderWay, InstallUnderWay, At, Looking
  <2> QED
    BY <2>1, <2>2, <2>8, <2>9
<1>3. ASSUME NEW ty \in Types, AddMethod(t, ty) PROVE Good
  <2>1. /\ pc[t] = "idle" /\ arg'[t] = ty
        /\ \/ lambda # Generic /\ ty = "object" /\ pc'[t] = "replace"
           \/ lambda # Generic /\ pc'[t] = "toss"
           \/ pc'[t] = "flush"
        /\ UNCHANGED <<lambda, alist, cache>>
    BY <1>0, <1>1, <1>m, <1>3 DEF AddMethod, Goto, CallTypes
  <2>8. CacheFresh'
    BY <1>1, <1>m, <1>s, <1>d, <2>1 DEF CacheInv, CacheFresh, At
  <2>9. CallUnderWay' /\ InstallUnderWay'
    BY <1>1, <1>m, <1>s, <1>d, <2>1 DEF CacheInv, CallUnderWay, InstallUnderWay, At, Looking
  <2> QED
    BY <2>1, <2>8, <2>9
<1>4. ASSUME ReadType(t) PROVE Good
  <2>1. /\ pc[t] = "type" /\ pc'[t] = IF cache.type = arg[t] THEN "meth" ELSE "search"
        /\ UNCHANGED <<lambda, alist, cache, arg, meth, off, right>>
    BY <1>0, <1>1, <1>m, <1>4 DEF ReadType, Goto, CallTypes
  <2>8. CacheFresh'
    BY <1>1, <1>m, <1>s, <1>d, <2>1 DEF CacheInv, CacheFresh, At
  <2>9. CallUnderWay' /\ InstallUnderWay'
    BY <1>1, <1>m, <1>s, <1>d, <2>1 DEF CacheInv, CallUnderWay, InstallUnderWay, At, Looking
  <2> QED
    BY <2>1, <2>8, <2>9
<1>5. ASSUME ReadMeth(t) PROVE Good
  BY <1>0, <1>1, <1>m, <1>s, <1>d, <1>5 DEF ReadMeth, Goto, CacheInv, CallTypes, CacheFresh, CallUnderWay, InstallUnderWay, At, Looking
<1>6. ASSUME ReadOff(t) PROVE Good
  BY <1>0, <1>1, <1>m, <1>s, <1>d, <1>6 DEF ReadOff, Goto, CacheInv, CallTypes, CacheFresh, CallUnderWay, InstallUnderWay, At, Looking
<1>7. ASSUME ReadTypeAgain(t) PROVE Good
  <2>1. /\ pc[t] = "again" /\ pc'[t] = IF cache.type = arg[t] THEN "ran" ELSE "search"
        /\ UNCHANGED <<lambda, alist, cache, arg, meth, off, right>>
    BY <1>0, <1>1, <1>m, <1>7 DEF ReadTypeAgain, Goto, CallTypes
  <2>2. cache.type = arg[t] => <<meth[t], off[t]>> = Search(arg[t]) /\ Search(arg[t]) \in right[t]
    BY <1>1, <1>d, <2>1 DEF CacheInv, CacheFresh, CallUnderWay, At, Looking
  <2>8. CacheFresh'
    BY <1>1, <1>m, <1>s, <1>d, <2>1, <2>2 DEF CacheInv, CacheFresh, At
  <2>9. CallUnderWay' /\ InstallUnderWay'
    BY <1>1, <1>m, <1>s, <1>d, <2>1, <2>2 DEF CacheInv, CallUnderWay, InstallUnderWay, At, Looking
  <2> QED
    BY <2>1, <2>2, <2>8, <2>9
<1>8. ASSUME FindMethodTypePair(t) PROVE Good
  <2>1. Search(arg[t]) = <<Search(arg[t])[1], Search(arg[t])[2]>>
    BY <1>1, <1>d, <1>8, <1>m, SearchFacts DEF FindMethodTypePair, Goto, CallTypes
  <2>2. /\ pc[t] = "search" /\ pc'[t] \in {"idle", "store meth"}
        /\ meth'[t] = Search(arg[t])[1] /\ off'[t] = Search(arg[t])[2]
        /\ UNCHANGED <<lambda, alist, cache, arg, right>>
    BY <1>0, <1>1, <1>m, <1>8 DEF FindMethodTypePair, Goto, CallTypes
  <2>8. CacheFresh'
    BY <1>1, <1>m, <1>s, <1>d, <2>1, <2>2 DEF CacheInv, CacheFresh, At
  <2>9. CallUnderWay' /\ InstallUnderWay'
    BY <1>1, <1>m, <1>s, <1>d, <2>1, <2>2 DEF CacheInv, CallUnderWay, InstallUnderWay, At, Looking
  <2> QED
    BY <2>1, <2>2, <2>8, <2>9
<1>9. ASSUME StoreMeth(t) PROVE Good
  BY <1>0, <1>1, <1>m, <1>s, <1>d, <1>9 DEF StoreMeth, MethodTypes, Goto, CacheInv, CallTypes, CacheFresh, CallUnderWay, InstallUnderWay, At, Looking
<1>10. ASSUME StoreOff(t) PROVE Good
  BY <1>0, <1>1, <1>m, <1>s, <1>d, <1>10 DEF StoreOff, MethodTypes, Goto, CacheInv, CallTypes, CacheFresh, CallUnderWay, InstallUnderWay, At, Looking
<1>11. ASSUME StoreType(t) PROVE Good
  BY <1>0, <1>1, <1>m, <1>s, <1>d, <1>11 DEF StoreType, MethodTypes, Goto, CacheInv, CallTypes, CacheFresh, CallUnderWay, InstallUnderWay, At, Looking
<1>12. ASSUME Return(t) PROVE Good
  <2>1. pc[t] = "ran" /\ pc'[t] = "idle" /\ UNCHANGED <<lambda, alist, cache>>
    BY <1>0, <1>1, <1>m, <1>12 DEF Return, Goto, CallTypes
  <2>8. CacheFresh'
    BY <1>1, <1>m, <1>s, <1>d, <2>1 DEF CacheInv, CacheFresh, At
  <2>9. CallUnderWay' /\ InstallUnderWay'
    BY <1>1, <1>m, <1>s, <1>d, <2>1 DEF CacheInv, CallUnderWay, InstallUnderWay, At, Looking
  <2> QED
    BY <2>1, <2>8, <2>9
<1>13. ASSUME ReplaceLambda(t) PROVE Good
  BY <1>0, <1>1, <1>m, <1>d, <1>13 DEF ReplaceLambda, Goto, CacheInv, CallTypes, CacheFresh, CallUnderWay, InstallUnderWay, At, Looking
<1>14. ASSUME TossOntoObject(t) PROVE Good
  BY <1>0, <1>1, <1>m, <1>d, <1>14 DEF TossOntoObject, Goto, CacheInv, CallTypes, CacheFresh, CallUnderWay, InstallUnderWay, At, Looking
<1>15. ASSUME FlushCache(t) PROVE Good
  BY <1>0, <1>1, <1>m, <1>s, <1>d, <1>15 DEF FlushCache, MethodTypes, Goto, CacheInv, CallTypes, CacheFresh, CallUnderWay, InstallUnderWay, At, Looking
<1>16. ASSUME MakeGeneric(t) PROVE Good
  BY <1>0, <1>1, <1>m, <1>d, <1>16 DEF MakeGeneric, Goto, CacheInv, CallTypes, CacheFresh, CallUnderWay, InstallUnderWay, At, Looking
<1>17. ASSUME PutMethod(t) PROVE Good
  BY <1>0, <1>1, <1>m, <1>d, <1>17 DEF PutMethod, Goto, CacheInv, CallTypes, CacheFresh, CallUnderWay, InstallUnderWay, At, Looking
<1> HIDE DEF Good
<1>18. Good
  BY <1>t, <1>2, <1>3, <1>4, <1>5, <1>6, <1>7, <1>8, <1>9, <1>10, <1>11, <1>12, <1>13, <1>14, <1>15, <1>16, <1>17
<1> QED
  BY <1>1, <1>m, <1>18 DEF Good, CacheInv

----------------------------------------------------------------------------
(* Call sites.                                                             *)

Sites == [live : BOOLEAN, moved : {FALSE}, op : {"f", "g"}, type : Types \cup {Unknown},
          off : Offsets, meth : Methods \cup {Nil, Other}, fn : {NoFn} \cup Nat]

\* A site that is live never holds an old address; its function is the newest one of its
\* method, and beside a type and a method it has the place of the method's type.
SiteOk(s) ==
    /\ s \in Sites
    /\ s.live /\ s.fn # NoFn => s.fn = loads /\ Native(s.meth)
    /\ s.live /\ s.type # Unknown /\ s.meth # Nil => s.meth \in Methods /\ s.off = BpOffset(s.type, s.meth.at)

RunsRight ==
    pc[Thread] = "ran" =>
        /\ jumped = NoFn => <<meth[Thread], off[Thread]>> \in right[Thread]
        /\ jumped # NoFn => SiteSound /\ (Outdated \/ <<meth[Thread], off[Thread]>> \in right[Thread])

SitesInv ==
    /\ CacheInv /\ SiteOk(site) /\ RunsRight
    /\ global \in {"f", "g"} /\ loads \in Nat

\* What the long way finds is what it caches and runs.
LEMMA CallOnStep ==
  ASSUME CacheAssumption, Alone, CacheInv, Idle, global \in {"f", "g"}, NEW ty \in Types, NEW new, CallOn(ty, new),
         UNCHANGED <<lambda, alist, installs>>
  PROVE  /\ CacheInv' /\ site' = new /\ jumped' = NoFn
         /\ pc'[Thread] = "ran" => (<<meth[Thread], off[Thread]>> \in right[Thread])'
<1> DEFINE hit == IF cache.type = ty THEN <<cache.meth, cache.off>> ELSE Search(ty)
<1>0. Thread \in Threads /\ Threads = {Thread} /\ pc[Thread] = "idle"
  BY DEF Alone, Idle
<1> HIDE DEF Thread, Types
<1>m. MethodTypes /\ CallTypes
  BY DEF CacheInv
<1>d. ty # Parked /\ ty \in Types
  BY TypesDistinct
<1>1. site' = new /\ jumped' = NoFn
  BY DEF CallOn
<1>2. hit = Search(ty)
  BY <1>0, <1>d DEF CacheInv, CacheFresh, At
<1>3. hit = <<hit[1], hit[2]>> /\ hit[1] \in Methods \cup {Nil} /\ hit[2] \in Offsets
  BY <1>2, <1>m, SearchFacts
<1>4. CASE Lambda(global) # Generic \/ hit[1] = Nil
  <2>1. UNCHANGED <<cacheVars>>
    BY <1>4 DEF CallOn, cacheVars
  <2>2. UNCHANGED <<lambda, alist, cache, pc, arg, meth, off, right, installs>>
    BY <2>1 DEF cacheVars
  <2>3. MethodTypes' /\ CallTypes'
    BY <1>m, <2>2 DEF MethodTypes, CallTypes
  <2>4. CacheFresh'
    BY <2>2, SearchUnchanged DEF CacheInv, CacheFresh, At, Search
  <2>5. CallUnderWay' /\ InstallUnderWay'
    BY <1>0, <2>2 DEF CallUnderWay, InstallUnderWay, At, Looking
  <2> QED
    BY <1>0, <1>1, <2>2, <2>3, <2>4, <2>5 DEF CacheInv
<1>5. CASE ~ (Lambda(global) # Generic \/ hit[1] = Nil)
  <2>1. /\ cache' = [type |-> ty, meth |-> hit[1], off |-> hit[2]]
        /\ meth' = [meth EXCEPT ![Thread] = hit[1]] /\ off' = [off EXCEPT ![Thread] = hit[2]]
        /\ pc' = [pc EXCEPT ![Thread] = "ran"] /\ arg' = [arg EXCEPT ![Thread] = ty]
        /\ right' = [right EXCEPT ![Thread] = {Found(ty)}]
    BY <1>5 DEF CallOn
  <2>2. lambda = Generic /\ Found(ty) = Search(ty)
    BY <1>5, TypesDistinct DEF Lambda, Found
  <2>3. MethodTypes'
    <3> HIDE DEF hit
    <3> QED
      BY <1>m, <1>d, <1>3, <2>1 DEF MethodTypes
  <2>4. Found(ty) \in (Methods \cup {Nil, Generic, Other}) \X Offsets
    BY <1>2, <1>3, <2>2
  <2>5. CallTypes'
    <3> HIDE DEF hit
    <3> QED
      BY <1>0, <1>m, <1>d, <1>3, <2>1, <2>4 DEF CallTypes
  <2>6. pc'[Thread] = "ran" /\ meth'[Thread] = hit[1] /\ off'[Thread] = hit[2] /\ right'[Thread] = {Search(ty)}
    BY <1>0, <1>m, <2>1, <2>2 DEF CallTypes
  <2>7. Search(ty)' = Search(ty)
    BY SearchUnchanged
  <2>8. CacheFresh'
    <3>1. cache'.type = ty /\ <<cache'.meth, cache'.off>> = Search(ty)
      BY <1>2, <1>3, <2>1
    <3> QED
      BY <2>2, <2>7, <3>1 DEF CacheFresh
  <2>9. CallUnderWay' /\ InstallUnderWay'
    BY <2>6 DEF CallUnderWay, InstallUnderWay, At, Looking
  <2> QED
    BY <1>1, <1>2, <1>3, <2>3, <2>5, <2>6, <2>8, <2>9 DEF CacheInv
<1> QED
  BY <1>4, <1>5

\* A site with new words.
LEMMA SiteChanged ==
  ASSUME NEW s \in Sites, NEW ty \in Types \cup {Unknown}, NEW o \in Offsets, NEW m \in Methods \cup {Nil, Other},
         NEW f \in {NoFn} \cup Nat
  PROVE  /\ [s EXCEPT !.type = ty] \in Sites
         /\ [s EXCEPT !.meth = m, !.fn = f] \in Sites
         /\ [s EXCEPT !.type = ty, !.meth = m, !.off = o, !.fn = f] \in Sites
         /\ [s EXCEPT !.live = FALSE] \in Sites
<1>1. ASSUME NEW T, NEW O, NEW M, NEW F, ty \in T, o \in O, m \in M, f \in F,
             s \in [live : BOOLEAN, moved : {FALSE}, op : {"f", "g"}, type : T, off : O, meth : M, fn : F]
      PROVE  LET R == [live : BOOLEAN, moved : {FALSE}, op : {"f", "g"}, type : T, off : O, meth : M, fn : F]
             IN  /\ [s EXCEPT !.type = ty] \in R
                 /\ [s EXCEPT !.meth = m, !.fn = f] \in R
                 /\ [s EXCEPT !.type = ty, !.meth = m, !.off = o, !.fn = f] \in R
                 /\ [s EXCEPT !.live = FALSE] \in R
  BY <1>1
<1> QED
  BY <1>1, Zenon DEF Sites

\* What a site is filled with.
LEMMA SiteFillOk ==
  ASSUME CacheAssumption, Alone, CacheInv, Idle, loads \in Nat, NEW v \in {"f", "g"}, NEW t \in Types \cup {Unknown}
  PROVE  SiteOk(SiteFill(v, t))
<1>0. pc[Thread] = "idle" /\ MethodTypes
  BY DEF Alone, Idle, CacheInv
<1> HIDE DEF Thread, Types
<1> DEFINE filled == [Empty EXCEPT !.live = TRUE, !.op = v]
<1>d. /\ NoFrame \in Offsets /\ Unknown = Parked /\ Parked \notin Types
      /\ Nil \notin Methods /\ Generic \notin Methods /\ Other # Generic /\ Other # Nil
  BY TypesDistinct DEF Offsets, Unknown, Parked
<1>1. filled \in Sites /\ filled.type = Unknown /\ filled.meth = Nil /\ filled.fn = NoFn
  <2>1. ASSUME NEW T, NEW O, NEW M, NEW F, Unknown \in T, NoFrame \in O, Nil \in M, NoFn \in F
        PROVE  LET R == [live : BOOLEAN, moved : {FALSE}, op : {"f", "g"}, type : T, off : O, meth : M, fn : F]
               IN  filled \in R /\ filled.type = Unknown /\ filled.meth = Nil /\ filled.fn = NoFn
    BY <2>1 DEF Empty
  <2> QED
    BY <1>d, <2>1, Zenon DEF Sites
<1> HIDE DEF filled
<1>2. \A m : Known(m) \in {NoFn} \cup Nat /\ (Known(m) # NoFn => Known(m) = loads /\ Native(m))
  BY DEF Known
<1>3. CASE Lambda(v) # Generic
  <2>1. Lambda(v) \in Methods \cup {Nil, Other}
    BY <1>0, <1>3, TypesDistinct DEF Lambda, MethodTypes
  <2>2. SiteFill(v, t) = [filled EXCEPT !.meth = Lambda(v), !.fn = Known(Lambda(v))]
    BY <1>3 DEF SiteFill, filled
  <2> HIDE DEF Lambda
  <2> QED
    <3>1. SiteFill(v, t) \in Sites
      <4>1. Known(Lambda(v)) \in {NoFn} \cup Nat
        BY <1>2
      <4> HIDE DEF Known
      <4>2. [filled EXCEPT !.meth = Lambda(v), !.fn = Known(Lambda(v))] \in Sites
        BY <1>1, <1>d, <2>1, <4>1, SiteChanged
      <4> QED
        BY <2>2, <4>2
    <3>2. LET s == SiteFill(v, t) IN s.fn = Known(Lambda(v)) /\ s.meth = Lambda(v) /\ s.type = Unknown
      BY <1>1, <2>2
    <3> QED
      BY <1>2, <3>1, <3>2 DEF SiteOk
<1>4. CASE Lambda(v) = Generic /\ t = Unknown
  <2>1. SiteFill(v, t) = [filled EXCEPT !.live = FALSE]
    BY <1>4 DEF SiteFill, filled
  <2> QED
    <3>1. SiteFill(v, t) \in Sites
      BY <1>1, <1>d, <2>1, SiteChanged
    <3>2. ~ SiteFill(v, t).live
      BY <1>1, <2>1 DEF Sites
    <3> QED
      BY <3>1, <3>2 DEF SiteOk
<1>5. CASE Lambda(v) = Generic /\ t # Unknown /\ cache.type # t
  <2>1. SiteFill(v, t) = [filled EXCEPT !.type = t]
    BY <1>5 DEF SiteFill, filled
  <2> QED
    <3>1. SiteFill(v, t) \in Sites
      BY <1>1, <1>d, <2>1, SiteChanged
    <3>2. SiteFill(v, t).fn = NoFn /\ SiteFill(v, t).meth = Nil
      BY <1>1, <2>1
    <3> QED
      BY <3>1, <3>2 DEF SiteOk
<1>6. CASE Lambda(v) = Generic /\ t # Unknown /\ cache.type = t
  <2>1. SiteFill(v, t) = [filled EXCEPT !.type = t, !.meth = cache.meth, !.off = cache.off, !.fn = Known(cache.meth)]
    BY <1>6 DEF SiteFill, filled
  <2>2. <<cache.meth, cache.off>> = Search(t) /\ t \in Types
    BY <1>0, <1>6, <1>d DEF CacheInv, CacheFresh, At
  <2>3. /\ cache.meth \in Methods \cup {Nil} /\ cache.off \in Offsets
        /\ cache.meth # Nil => cache.off = BpOffset(t, cache.meth.at)
    BY <1>0, <2>2, SearchFacts
  <2> QED
    <3>1. SiteFill(v, t) \in Sites
      <4>1. Known(cache.meth) \in {NoFn} \cup Nat
        BY <1>2
      <4>2. [filled EXCEPT !.type = t, !.meth = cache.meth, !.off = cache.off, !.fn = Known(cache.meth)] \in Sites
        BY <1>1, <1>d, <2>2, <2>3, <4>1, SiteChanged
      <4> QED
        BY <2>1, <4>2
    <3>2. LET s == SiteFill(v, t) IN s.fn = Known(cache.meth) /\ s.meth = cache.meth /\ s.type = t /\ s.off = cache.off
      BY <1>1, <2>1
    <3> QED
      BY <1>2, <2>3, <3>1, <3>2 DEF SiteOk
<1> QED
  BY <1>3, <1>4, <1>5, <1>6

\* A jump to what a site holds.
LEMMA JumpStep ==
  ASSUME CacheAssumption, Alone, CacheInv, Idle, NEW ty \in Types, NEW m \in Methods \cup {Nil, Other}, NEW o \in Offsets,
         Jump(ty, m, o), UNCHANGED <<lambda, alist, installs, cache>>
  PROVE  /\ CacheInv' /\ site' = site /\ jumped' = site.fn
         /\ meth'[Thread] = m /\ off'[Thread] = o
         /\ right'[Thread] = {IF global = "f" THEN Found(ty) ELSE <<Other, NoFrame>>}
<1>0. Thread \in Threads /\ Threads = {Thread} /\ pc[Thread] = "idle"
  BY DEF Alone, Idle
<1> HIDE DEF Thread, Types
<1>m. MethodTypes /\ CallTypes
  BY DEF CacheInv
<1>1. /\ site' = site /\ jumped' = site.fn
      /\ meth' = [meth EXCEPT ![Thread] = m] /\ off' = [off EXCEPT ![Thread] = o]
      /\ pc' = [pc EXCEPT ![Thread] = "ran"] /\ arg' = [arg EXCEPT ![Thread] = ty]
      /\ right' = [right EXCEPT ![Thread] = {IF global = "f" THEN Found(ty) ELSE <<Other, NoFrame>>}]
  BY DEF Jump
<1>2. (IF global = "f" THEN Found(ty) ELSE <<Other, NoFrame>>) \in (Methods \cup {Nil, Generic, Other}) \X Offsets
  <2>1. NoFrame \in Offsets /\ lambda \in Methods \cup {Generic}
    BY <1>m, TypesDistinct DEF Offsets, MethodTypes
  <2> QED
    BY <1>m, <2>1, SearchFacts DEF Found
<1>3. MethodTypes' /\ CallTypes'
  BY <1>0, <1>m, <1>1, <1>2, ZenonT(30) DEF MethodTypes, CallTypes
<1>4. pc'[Thread] = "ran" /\ meth'[Thread] = m /\ off'[Thread] = o
      /\ right'[Thread] = {IF global = "f" THEN Found(ty) ELSE <<Other, NoFrame>>}
  BY <1>0, <1>m, <1>1 DEF CallTypes
<1>5. CallUnderWay' /\ InstallUnderWay'
  BY <1>4 DEF CallUnderWay, InstallUnderWay, At, Looking
<1>6. CacheFresh'
  BY <1>0, SearchUnchanged DEF CacheInv, CacheFresh, At, Search
<1> QED
  BY <1>1, <1>3, <1>4, <1>5, <1>6 DEF CacheInv

\* A call at the site: it hits what is right, or goes the long way.
LEMMA SiteCallStep ==
  ASSUME CacheAssumption, Alone, SitesInv, NEW ty \in Types, NEW t \in {ty, Unknown}, SiteCall(ty, t)
  PROVE  SitesInv'
<1>0. Thread \in Threads /\ Idle /\ pc[Thread] = "idle" /\ CacheInv /\ SiteOk(site) /\ global \in {"f", "g"} /\ loads \in Nat
  BY DEF Alone, Idle, SiteCall, SitesInv
<1>u. UNCHANGED <<lambda, alist, installs, global, loads>>
  BY DEF SiteCall
<1>d. Unknown = Parked /\ Parked \notin Types /\ t \in Types \cup {Unknown}
  BY TypesDistinct DEF Unknown, Parked
<1>s. site.moved = FALSE /\ site.meth \in Methods \cup {Nil, Other} /\ site.off \in Offsets /\ site.fn \in {NoFn} \cup Nat
  BY <1>0 DEF SiteOk, Sites
<1> HIDE DEF Thread, Types
<1>1. ASSUME NEW new, CallOn(ty, new), SiteOk(new) PROVE SitesInv'
  <2>1. /\ CacheInv' /\ site' = new /\ jumped' = NoFn
        /\ pc'[Thread] = "ran" => (<<meth[Thread], off[Thread]>> \in right[Thread])'
    BY <1>0, <1>1, <1>u, CallOnStep
  <2>2. SiteOk(site)'
    BY <1>0, <1>1, <1>u, <2>1 DEF SiteOk, Sites
  <2> QED
    BY <1>0, <1>u, <2>1, <2>2 DEF SitesInv, RunsRight
<1>2. SiteOk(SiteFill(global, t))
  BY <1>0, <1>d, SiteFillOk
<1>3. CASE \E new \in {site, SiteFill(global, t)} : CallOn(ty, new)
  BY <1>0, <1>1, <1>2, <1>3
<1>4. ASSUME site.live, site.fn # NoFn, site.type = Unknown, site.op = global,
             Jump(ty, site.meth, NoFrame), UNCHANGED cache
      PROVE  SitesInv'
  <2>1. NoFrame \in Offsets
    BY DEF Offsets
  <2>2. /\ CacheInv' /\ site' = site /\ jumped' = site.fn
        /\ meth'[Thread] = site.meth /\ off'[Thread] = NoFrame
        /\ right'[Thread] = {IF global = "f" THEN Found(ty) ELSE <<Other, NoFrame>>}
    BY <1>0, <1>4, <1>s, <1>u, <2>1, JumpStep
  <2>3. SiteOk(site)'
    BY <1>0, <1>u, <2>2 DEF SiteOk, Sites
  <2>4. site.fn = loads /\ Native(site.meth) /\ site.meth # Generic
    BY <1>0, <1>4, <1>s, TypesDistinct DEF SiteOk
  <2>5. Outdated' = Outdated
    BY <1>u, <2>2 DEF Outdated, Lambda
  <2>6. Outdated \/ <<site.meth, NoFrame>> \in {IF global = "f" THEN Found(ty) ELSE <<Other, NoFrame>>}
    BY <1>0, <1>4, <2>4 DEF Outdated, Lambda, Found
  <2>7. SiteSound'
    BY <1>s, <1>u, <2>2, <2>4 DEF SiteSound, Native
  <2> QED
    BY <1>0, <1>4, <1>s, <1>u, <2>2, <2>3, <2>4, <2>5, <2>6, <2>7 DEF SitesInv, RunsRight
<1>5. ASSUME site.live, site.fn # NoFn, site.type # Unknown, t = site.type, cache.type = t, global = "f",
             site.meth = cache.meth, Jump(ty, site.meth, site.off), UNCHANGED cache
      PROVE  SitesInv'
  <2>1. /\ CacheInv' /\ site' = site /\ jumped' = site.fn
        /\ meth'[Thread] = site.meth /\ off'[Thread] = site.off /\ right'[Thread] = {Found(ty)}
    BY <1>0, <1>5, <1>s, <1>u, JumpStep
  <2>2. SiteOk(site)'
    BY <1>0, <1>u, <2>1 DEF SiteOk, Sites
  <2>3. t = ty /\ t \in Types /\ lambda = Generic /\ <<cache.meth, cache.off>> = Search(ty)
    BY <1>0, <1>5, <1>d DEF CacheInv, CacheFresh, At
  <2>4. site.fn = loads /\ Native(site.meth) /\ site.meth # Nil
    BY <1>0, <1>5 DEF SiteOk, Native
  <2>5. site.off = BpOffset(ty, site.meth.at)
    BY <1>0, <1>5, <2>3, <2>4 DEF SiteOk
  <2>6. Search(ty) = <<Search(ty)[1], Search(ty)[2]>> /\ Search(ty)[1] = site.meth /\ Search(ty)[2] = site.off
    <3>1. Search(ty)[1] = site.meth
      BY <1>5, <2>3
    <3> QED
      BY <1>0, <2>3, <2>4, <2>5, <3>1, SearchFacts DEF CacheInv
  <2>7. <<site.meth, site.off>> \in {Found(ty)}
    BY <2>3, <2>6 DEF Found
  <2>8. SiteSound' /\ (<<meth[Thread], off[Thread]>> \in right[Thread])'
    BY <1>s, <1>u, <2>1, <2>4, <2>7 DEF SiteSound, Native
  <2> QED
    BY <1>0, <1>5, <1>u, <2>1, <2>2, <2>8 DEF SitesInv, RunsRight
<1>6. PICK same \in Same(site.op, global) :
        \/ (~ site.live \/ ~ same) /\ CallOn(ty, SiteFill(global, t))
        \/ /\ site.live /\ same /\ site.type = Unknown
           /\ IF site.fn # NoFn THEN Jump(ty, site.meth, NoFrame) /\ UNCHANGED cache
              ELSE CallOn(ty, site)
        \/ /\ site.live /\ same /\ site.type # Unknown
           /\ \E sameMeth \in Same(site.meth, cache.meth) :
                IF global # "f" \/ cache.type # t THEN CallOn(ty, site)
                ELSE IF t # site.type \/ ~ sameMeth THEN CallOn(ty, SiteFill(global, t))
                ELSE IF site.fn # NoFn THEN Jump(ty, site.meth, site.off) /\ UNCHANGED cache
                ELSE CallOn(ty, site)
  BY DEF SiteCall
<1>7. \/ \E new \in {site, SiteFill(global, t)} : CallOn(ty, new)
      \/ /\ site.live /\ site.fn # NoFn /\ site.type = Unknown /\ site.op = global
         /\ Jump(ty, site.meth, NoFrame) /\ UNCHANGED cache
      \/ /\ site.live /\ site.fn # NoFn /\ site.type # Unknown /\ t = site.type /\ cache.type = t /\ global = "f"
         /\ site.meth = cache.meth /\ Jump(ty, site.meth, site.off) /\ UNCHANGED cache
  <2>1. /\ \A sameMeth \in Same(site.meth, cache.meth) : sameMeth => site.meth = cache.meth
        /\ same => site.op = global
    BY <1>s, <1>6 DEF Same
  <2> QED
    BY <1>6, <2>1
<1> QED
  BY <1>3, <1>4, <1>5, <1>7

LEMMA SitesInvHolds ==
  ASSUME CacheAssumption, SitesAssumption, Alone
  PROVE  SitesSpec => []SitesInv
<1>0. Thread \in Threads
  BY DEF Alone
<1>1. SitesInit => SitesInv
  <2> SUFFICES ASSUME SitesInit PROVE SitesInv
    OBVIOUS
  <2> HIDE DEF Thread, Types
  <2>d. /\ NoFrame \in Offsets /\ "object" \in Types /\ Parked \notin Types /\ Unknown = Parked
        /\ Generic \notin Methods /\ Nil \notin Methods
    BY TypesDistinct DEF Offsets, Unknown, Parked
  <2>1. MethodTypes
    <3>1. cache \in [type : Types \cup {Parked}, meth : Methods \cup {Nil}, off : Offsets] /\ installs \in Nat
      BY <2>d DEF SitesInit, CacheInit
    <3>2. CASE lambda = Generic
      <4>1. alist = [ty \in Types |-> IF ty = "object" THEN Nil ELSE [at |-> ty, no |-> 0]]
        BY <3>2 DEF SitesInit, CacheInit, Generic
      <4> QED
        BY <3>1, <3>2, <4>1 DEF MethodTypes, Methods
    <3>3. CASE lambda = [at |-> "object", no |-> 0] /\ alist = [ty \in Types |-> Nil]
      BY <3>1, <3>3 DEF MethodTypes
    <3> QED
      BY <3>2, <3>3 DEF SitesInit, CacheInit
  <2>2. CallTypes
    BY <1>0, <2>d DEF SitesInit, CacheInit, CallTypes
  <2>3. pc[Thread] = "idle" /\ cache.type = Parked
    BY <1>0 DEF SitesInit, CacheInit
  <2>4. CacheFresh /\ CallUnderWay /\ InstallUnderWay /\ RunsRight
    BY <2>3 DEF CacheFresh, CallUnderWay, InstallUnderWay, At, Looking, RunsRight
  <2>5. SiteOk(site)
    <3>2. ASSUME NEW T, NEW O, NEW M, NEW F, Unknown \in T, NoFrame \in O, Nil \in M, NoFn \in F
          PROVE  Empty \in [live : BOOLEAN, moved : {FALSE}, op : {"f", "g"}, type : T, off : O, meth : M, fn : F]
      BY <3>2 DEF Empty
    <3>3. site \in Sites
      <4>1. Unknown \in Types \cup {Unknown} /\ Nil \in Methods \cup {Nil, Other} /\ NoFn \in {NoFn} \cup Nat
        OBVIOUS
      <4>2. Empty \in Sites
        BY <2>d, <3>2, <4>1, Zenon DEF Sites
      <4>3. site = Empty
        BY DEF SitesInit
      <4> QED
        BY <4>2, <4>3
    <3>4. ~ site.live
      BY DEF SitesInit, Empty
    <3> QED
      BY <3>3, <3>4 DEF SiteOk
  <2> QED
    BY <2>1, <2>2, <2>4, <2>5 DEF SitesInv, CacheInv, SitesInit
<1>2. SitesInv /\ [SitesNext]_sitesVars => SitesInv'
  <2> SUFFICES ASSUME SitesInv, [SitesNext]_sitesVars PROVE SitesInv'
    OBVIOUS
  <2> HIDE DEF Thread, Types
  <2>0. CacheInv /\ SiteOk(site) /\ RunsRight /\ global \in {"f", "g"} /\ loads \in Nat
    BY DEF SitesInv
  <2>f. \A s : s = [site EXCEPT !.live = FALSE] => s \in Sites /\ ~ s.live
    <3>1. site \in Sites /\ Unknown \in Types \cup {Unknown} /\ NoFrame \in Offsets /\ Nil \in Methods \cup {Nil, Other} /\ NoFn \in {NoFn} \cup Nat
      BY <2>0 DEF SiteOk, Offsets
    <3>2. [site EXCEPT !.live = FALSE] \in Sites
      BY <3>1, SiteChanged
    <3>3. ~ [site EXCEPT !.live = FALSE].live
      BY <3>1 DEF Sites
    <3> QED
      BY <3>2, <3>3
  <2>1. ASSUME NEW ty \in Types, SiteCall(ty, ty) \/ SiteCall(ty, Unknown) PROVE SitesInv'
    BY <2>1, SiteCallStep
  <2>u. ASSUME UNCHANGED cacheVars PROVE CacheInv' /\ UNCHANGED <<lambda, alist, cache, pc, arg, meth, off, right, installs>>
    <3>1. UNCHANGED <<lambda, alist, cache, pc, arg, meth, off, right, installs>>
      BY <2>u DEF cacheVars
    <3>2. MethodTypes' /\ CallTypes' /\ CallUnderWay' /\ InstallUnderWay'
      BY <2>0, <3>1, SearchUnchanged, ZenonT(30) DEF CacheInv, MethodTypes, CallTypes, CallUnderWay, InstallUnderWay, At, Search
    <3>3. CacheFresh'
      BY <2>0, <3>1 DEF CacheInv, CacheFresh, At, Search
    <3> QED
      BY <3>1, <3>2, <3>3 DEF CacheInv
  <2>2. CASE SetGlobal
    <3>1. global' \in {"f", "g"} /\ UNCHANGED <<cacheVars, site, loads, jumped>>
      BY <2>2 DEF SetGlobal
    <3>2. pc[Thread] = "idle"
      BY <1>0, <2>2 DEF SetGlobal, Idle
    <3> QED
      BY <2>0, <2>u, <3>1, <3>2 DEF SitesInv, SiteOk, Sites, RunsRight
  <2>3. CASE Collect \/ Register
    <3>1. /\ site' = [site EXCEPT !.live = FALSE] /\ loads' \in Nat
          /\ UNCHANGED <<cacheVars, global, jumped>> /\ pc[Thread] = "idle"
      BY <1>0, <2>0, <2>3 DEF Collect, Register, Idle
    <3>2. site' \in Sites /\ ~ site'.live
      BY <2>f, <3>1
    <3> QED
      BY <2>0, <2>u, <3>1, <3>2 DEF SitesInv, SiteOk, Sites, RunsRight
  <2>4. CASE Interpret
    <3>1. CacheNext /\ UNCHANGED <<global, site, loads>> /\ jumped' = NoFn
      BY <2>4 DEF Interpret
    <3>2. CacheInv' /\ (pc'[Thread] = "ran" => (<<meth[Thread], off[Thread]>> \in right[Thread])')
      BY <2>0, <3>1, CacheStep
    <3> QED
      BY <2>0, <3>1, <3>2 DEF SitesInv, SiteOk, Sites, RunsRight
  <2>5. CASE UNCHANGED sitesVars
    <3>1. UNCHANGED <<cacheVars, global, site, loads, jumped>>
      BY <2>5 DEF sitesVars
    <3> QED
      BY <2>0, <2>u, <3>1 DEF SitesInv, SiteOk, Sites, RunsRight, SiteSound, Outdated, Lambda
  <2> QED
    BY <2>1, <2>2, <2>3, <2>4, <2>5 DEF SitesNext
<1> QED
  BY <1>1, <1>2, PTL DEF SitesSpec

\* With one thread, a call runs the method that a search of the hierarchy finds, on the
\* frame of that method's type, whether it goes through the cache of the operation or
\* through a call site of native code, unless the site is of a lambda that ADD-METHOD
\* has replaced: for every hierarchy and any number of installations, collections and
\* loaded modules in between.
THEOREM CachesAreTransparent ==
  ASSUME CacheAssumption, SitesAssumption, Alone
  PROVE  SitesSpec => [](CallRight /\ SiteHitRight)
<1>1. SitesInv => CallRight
  BY DEF SitesInv, RunsRight, CallRight, RunsWhatSearchFinds, Alone
<1>2. SitesInv => SiteHitRight
  BY DEF SitesInv, RunsRight, SiteHitRight, Hit
<1> QED
  BY <1>1, <1>2, SitesInvHolds, PTL
=============================================================================
