---------------------------- MODULE MethodCache ----------------------------
(***************************************************************************)
(* Calling an operation: FUNCALL's search of the type hierarchy, the       *)
(* one-entry cache an operation carries, which threads read and fill       *)
(* without a lock, and %INSTALL-METHOD-WITH-ENV, which parks it.  One      *)
(* operation is modelled; its methods are named by their type and number.  *)
(***************************************************************************)
EXTENDS Integers, Sequences, SequencesExt, FiniteSetsExt

CONSTANTS
    Threads,
    SuperList,      \* the supertypes of each type
    SearchOrder,    \* what Hierarchy makes of them
    MaxInstalls     \* bound on the methods installed during a run

VARIABLES
    lambda,         \* OPERATION_LAMBDA_OFF: a method, or Generic
    alist,          \* what each type's operation-method-alist has for the operation
    cache,          \* the three cache slots
    pc, arg,        \* where each thread is, and the type of its first argument
    meth, off,      \* e_current_method and the offset of e_bp
    right,          \* what a search has found at some moment of the call
    installs        \* methods made so far

cacheVars == <<lambda, alist, cache, pc, arg, meth, off, right, installs>>

Types   == DOMAIN SuperList
Generic == [at |-> "generic", no |-> 0]
Nil     == [at |-> "nil", no |-> 0]
Parked  == "0"
NoFrame == 0

\* The order in which find_method_type_pair meets the types: depth first.
Hierarchy == LET walk[t \in Types] ==
                    <<t>> \o FlattenSeq([i \in DOMAIN SuperList[t] |-> walk[SuperList[t][i]]])
             IN  walk

CacheAssumption ==
    /\ MaxInstalls \in Nat
    /\ "object" \in Types /\ {Parked, "nil", "generic", "other"} \cap Types = {}
    /\ SearchOrder \in [Types -> Seq(Types)]
    /\ \A t \in Types : SearchOrder[t] = Hierarchy[t]

\* lookup_bp_offset: where the frame of the method's type lies in an instance.
BpOffset(t, home) ==
    IF home = "object" THEN NoFrame ELSE SelectInSeq(SearchOrder[t], LAMBDA u : u = home)

\* The first type that has a method of its own for the operation.
Search(t) ==
    LET homes == {i \in DOMAIN SearchOrder[t] : alist[SearchOrder[t][i]] # Nil}
        home  == SearchOrder[t][Min(homes)]
    IN  IF homes = {} THEN <<Nil, NoFrame>> ELSE <<alist[home], BpOffset(t, home)>>

Found(t) == IF lambda = Generic THEN Search(t) ELSE <<lambda, NoFrame>>

CacheInit ==
    /\ \/ lambda = [at |-> "object", no |-> 0] /\ alist = [t \in Types |-> Nil]
       \/ lambda = Generic /\ alist = [t \in Types |-> IF t = "object" THEN Nil ELSE [at |-> t, no |-> 0]]
    /\ cache = [type |-> Parked, meth |-> Nil, off |-> NoFrame]
    /\ pc = [t \in Threads |-> "idle"] /\ arg = [t \in Threads |-> Parked]
    /\ meth = [t \in Threads |-> Nil] /\ off = [t \in Threads |-> NoFrame]
    /\ right = [t \in Threads |-> {}] /\ installs = 0

Calling(t) == pc[t] \in {"type", "meth", "off", "again", "search", "store meth", "store off", "store type"}

Goto(t, from, to) == pc[t] = from /\ pc' = [pc EXCEPT ![t] = to]

----------------------------------------------------------------------------
(* FUNCALL.                                                                *)

Funcall(t, ty) ==
    /\ Goto(t, "idle", IF lambda = Generic THEN "type" ELSE "ran")
    /\ arg' = [arg EXCEPT ![t] = ty]
    /\ right' = [right EXCEPT ![t] = {Found(ty)}]
    /\ meth' = [meth EXCEPT ![t] = lambda] /\ off' = [off EXCEPT ![t] = NoFrame]
    /\ UNCHANGED <<lambda, alist, cache, installs>>

ReadType(t) ==
    /\ Goto(t, "type", IF cache.type = arg[t] THEN "meth" ELSE "search")
    /\ UNCHANGED <<lambda, alist, cache, arg, meth, off, right, installs>>

ReadMeth(t) ==
    /\ Goto(t, "meth", "off")
    /\ meth' = [meth EXCEPT ![t] = cache.meth]
    /\ UNCHANGED <<lambda, alist, cache, arg, off, right, installs>>

ReadOff(t) ==
    /\ Goto(t, "off", "again")
    /\ off' = [off EXCEPT ![t] = cache.off]
    /\ UNCHANGED <<lambda, alist, cache, arg, meth, right, installs>>

ReadTypeAgain(t) ==
    /\ Goto(t, "again", IF cache.type = arg[t] THEN "ran" ELSE "search")
    /\ UNCHANGED <<lambda, alist, cache, arg, meth, off, right, installs>>

\* No method: a trap to FAILED-FUNCALL.
FindMethodTypePair(t) ==
    LET hit == Search(arg[t])
    IN  /\ Goto(t, "search", IF hit[1] = Nil THEN "idle" ELSE "store meth")
        /\ meth' = [meth EXCEPT ![t] = hit[1]] /\ off' = [off EXCEPT ![t] = hit[2]]
        /\ UNCHANGED <<lambda, alist, cache, arg, right, installs>>

StoreMeth(t) ==
    /\ Goto(t, "store meth", "store off") /\ cache' = [cache EXCEPT !.meth = meth[t]]
    /\ UNCHANGED <<lambda, alist, arg, meth, off, right, installs>>

StoreOff(t) ==
    /\ Goto(t, "store off", "store type") /\ cache' = [cache EXCEPT !.off = off[t]]
    /\ UNCHANGED <<lambda, alist, arg, meth, off, right, installs>>

StoreType(t) ==
    /\ Goto(t, "store type", "ran") /\ cache' = [cache EXCEPT !.type = arg[t]]
    /\ UNCHANGED <<lambda, alist, arg, meth, off, right, installs>>

Return(t) ==
    /\ Goto(t, "ran", "idle")
    /\ UNCHANGED <<lambda, alist, cache, arg, meth, off, right, installs>>

----------------------------------------------------------------------------
(* %INSTALL-METHOD-WITH-ENV as code-vector.oak redefines it.               *)

\* Calls under way may see what the step changed.
Witnessed == right' = [u \in Threads |-> IF Calling(u) THEN right[u] \cup {Found(arg[u])'} ELSE right[u]]

NewMethod(t) == [at |-> arg[t], no |-> meth[t].no]

AddMethod(t, ty) ==
    /\ installs < MaxInstalls /\ installs' = installs + 1
    /\ Goto(t, "idle", IF lambda # Generic THEN IF ty = "object" THEN "replace" ELSE "toss" ELSE "flush")
    /\ arg' = [arg EXCEPT ![t] = ty]
    /\ meth' = [meth EXCEPT ![t] = [at |-> ty, no |-> installs + 1]]
    /\ UNCHANGED <<lambda, alist, cache, off, right>>

ReplaceLambda(t) ==
    /\ Goto(t, "replace", "idle") /\ lambda' = NewMethod(t)
    /\ Witnessed
    /\ UNCHANGED <<alist, cache, arg, meth, off, installs>>

TossOntoObject(t) ==
    /\ Goto(t, "toss", "flush")
    /\ alist' = [alist EXCEPT !["object"] = IF lambda = Generic THEN @ ELSE lambda]
    /\ Witnessed
    /\ UNCHANGED <<lambda, cache, arg, meth, off, installs>>

FlushCache(t) ==
    /\ Goto(t, "flush", "generic") /\ cache' = [cache EXCEPT !.type = Parked]
    /\ UNCHANGED <<lambda, alist, arg, meth, off, right, installs>>

MakeGeneric(t) ==
    /\ Goto(t, "generic", "put") /\ lambda' = Generic
    /\ Witnessed
    /\ UNCHANGED <<alist, cache, arg, meth, off, installs>>

PutMethod(t) ==
    /\ Goto(t, "put", "idle") /\ alist' = [alist EXCEPT ![arg[t]] = NewMethod(t)]
    /\ Witnessed
    /\ UNCHANGED <<lambda, cache, arg, meth, off, installs>>

CacheNext ==
    \E t \in Threads :
        \/ \E ty \in Types : Funcall(t, ty) \/ AddMethod(t, ty)
        \/ ReadType(t) \/ ReadMeth(t) \/ ReadOff(t) \/ ReadTypeAgain(t)
        \/ FindMethodTypePair(t) \/ StoreMeth(t) \/ StoreOff(t) \/ StoreType(t)
        \/ Return(t)
        \/ ReplaceLambda(t) \/ TossOntoObject(t) \/ FlushCache(t) \/ MakeGeneric(t) \/ PutMethod(t)

CacheSpec == CacheInit /\ [][CacheNext]_cacheVars

----------------------------------------------------------------------------
\* The method a call runs, and the frame it runs it on, are what a search of the
\* hierarchy would have found at some moment of the call (the comment before the
\* three loads in FUNCALL says the method and offset go together with the type).
RunsWhatSearchFinds ==
    \A t \in Threads : pc[t] = "ran" => <<meth[t], off[t]>> \in right[t]
=============================================================================
