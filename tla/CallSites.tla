----------------------------- MODULE CallSites -----------------------------
(***************************************************************************)
(* Call sites of natively compiled code: ON_SITE_CALL caches, per site,    *)
(* the operation a global held, its method and the C function to jump to,  *)
(* in untraced words, beside the one-entry cache of the operation.         *)
(***************************************************************************)
EXTENDS MethodCache

CONSTANT MaxLoads       \* bound on the registrations of the module

SitesAssumption == MaxLoads \in Nat

VARIABLES
    global,         \* the operation the global holds: the one of MethodCache, or another
    site,           \* the call site; "moved" tells that its words are old addresses
    loads,          \* registrations so far: which C function a native method has
    jumped          \* the function a site hit has jumped to, or NoFn

sitesVars == <<cacheVars, global, site, loads, jumped>>

NoFn    == -1
Thread  == CHOOSE t \in Threads : TRUE
Other   == [at |-> "other", no |-> 0]       \* the lambda of the other operation
Unknown == "0"                              \* the argument's type when the stack hides it

Empty == [live |-> FALSE, moved |-> FALSE, op |-> "f", type |-> Unknown,
          off |-> NoFrame, meth |-> Nil, fn |-> NoFn]

\* Method number 2 is bytecode.
Native(m)  == m # Nil /\ m.no # 2
Lambda(op) == IF op = "f" THEN lambda ELSE Other
Known(m)   == IF Native(m) THEN loads ELSE NoFn

SitesInit ==
    /\ CacheInit /\ global \in {"f", "g"} /\ site = Empty
    /\ loads = 0 /\ jumped = NoFn

Idle == \A t \in Threads : pc[t] = "idle"

\* oak_native_site_fill: only what the operation's own cache witnesses.
SiteFill(v, t) ==
    LET filled == [Empty EXCEPT !.live = TRUE, !.op = v]
    IN  IF Lambda(v) # Generic THEN [filled EXCEPT !.meth = Lambda(v), !.fn = Known(Lambda(v))]
        ELSE IF t = Unknown THEN [filled EXCEPT !.live = FALSE]
        ELSE IF cache.type # t THEN [filled EXCEPT !.type = t]
        ELSE [filled EXCEPT !.type = t, !.meth = cache.meth, !.off = cache.off, !.fn = Known(cache.meth)]

\* A comparison with an old address may come out either way.
Same(a, b) == IF site.moved THEN BOOLEAN ELSE {a = b}

Jump(ty, m, o) ==
    /\ jumped' = site.fn /\ site' = site
    /\ meth' = [meth EXCEPT ![Thread] = m] /\ off' = [off EXCEPT ![Thread] = o]
    /\ pc' = [pc EXCEPT ![Thread] = "ran"] /\ arg' = [arg EXCEPT ![Thread] = ty]
    /\ right' = [right EXCEPT ![Thread] = {IF global = "f" THEN Found(ty) ELSE <<Other, NoFrame>>}]

\* What follows a site that does not hit: ON_FUNCALL, with what oak_native_call_1 and
\* oak_native_find_method do; no method leaves the call to the emulator.
CallOn(ty, newSite) ==
    LET hit == IF cache.type = ty THEN <<cache.meth, cache.off>> ELSE Search(ty)
    IN  /\ site' = newSite /\ jumped' = NoFn
        /\ IF Lambda(global) # Generic \/ hit[1] = Nil
           THEN UNCHANGED <<pc, meth, off, arg, right, cache>>
           ELSE /\ cache' = [type |-> ty, meth |-> hit[1], off |-> hit[2]]
                /\ meth' = [meth EXCEPT ![Thread] = hit[1]] /\ off' = [off EXCEPT ![Thread] = hit[2]]
                /\ pc' = [pc EXCEPT ![Thread] = "ran"] /\ arg' = [arg EXCEPT ![Thread] = ty]
                /\ right' = [right EXCEPT ![Thread] = {Found(ty)}]

\* ON_SITE_CALL on an argument of type ty, of which the stack shows t.
SiteCall(ty, t) ==
    /\ Idle /\ UNCHANGED <<lambda, alist, installs, global, loads>>
    /\ \E same \in Same(site.op, global) :
        \/ (~ site.live \/ ~ same) /\ CallOn(ty, SiteFill(global, t))
        \/ /\ site.live /\ same /\ site.type = Unknown
           /\ IF site.fn # NoFn THEN Jump(ty, site.meth, NoFrame) /\ UNCHANGED cache
              ELSE CallOn(ty, site)
        \/ /\ site.live /\ same /\ site.type # Unknown
           /\ \E sameMeth \in Same(site.meth, cache.meth) :
                IF global # "f" \/ cache.type # t THEN CallOn(ty, site)
                ELSE IF t # site.type \/ ~ sameMeth THEN CallOn(ty, SiteFill(global, t))
                ELSE IF site.fn # NoFn THEN Jump(ty, site.meth, site.off) /\ UNCHANGED cache
                ELSE CallOn(ty, site)

SetGlobal ==
    /\ Idle /\ global' \in {"f", "g"} \ {global}
    /\ UNCHANGED <<cacheVars, site, loads, jumped>>

\* Mutant: the sites outlive a collection.
CollectKeeping == Idle /\ site' = [site EXCEPT !.moved = site.live] /\ UNCHANGED <<cacheVars, global, loads, jumped>>

\* gc() moves everything, updates the operation's cache, and flushes the sites.
Collect == Idle /\ site' = [site EXCEPT !.live = FALSE] /\ UNCHANGED <<cacheVars, global, loads, jumped>>

\* oak_native_register: new functions for the old names, then a flush.
Register ==
    /\ Idle /\ loads < MaxLoads /\ loads' = loads + 1
    /\ site' = [site EXCEPT !.live = FALSE]
    /\ UNCHANGED <<cacheVars, global, jumped>>

\* Calls by the interpreter and method installation, as in MethodCache.
Interpret ==
    /\ CacheNext /\ UNCHANGED <<global, site, loads>>
    /\ jumped' = NoFn

SitesNext ==
    \/ \E ty \in Types : SiteCall(ty, ty) \/ SiteCall(ty, Unknown)
    \/ SetGlobal \/ Collect \/ Register \/ Interpret

SitesSpec == SitesInit /\ [][SitesNext]_sitesVars

----------------------------------------------------------------------------
Hit == jumped # NoFn /\ pc[Thread] = "ran"

\* Through the function the newest module has for the method, and never through words
\* that a collection has left behind.
SiteSound == ~ site.moved /\ jumped = loads /\ Native(meth[Thread])

\* The exception: a site of a lambda, and the operation has another method since
\* ADD-METHOD.
Outdated == site.type = Unknown /\ Lambda(site.op) # site.meth

\* A hit runs the method and frame the search would have found, but for the exception.
SiteHitRight == Hit => SiteSound /\ (Outdated \/ <<meth[Thread], off[Thread]>> \in right[Thread])

\* So does every call that goes the long way.
CallRight == jumped = NoFn => RunsWhatSearchFinds

\* Without the exception, as oak-native.h has it ("the operation carries its method,
\* whose slot is never written after MAKE-LAMBDA"): TLC refutes it.
LambdaSiteRight == Hit /\ site.type = Unknown => <<meth[Thread], off[Thread]>> \in right[Thread]
=============================================================================
