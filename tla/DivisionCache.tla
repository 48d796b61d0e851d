---------------------------- MODULE DivisionCache ----------------------------
(***************************************************************************)
(* What the division of bignums remembers from one call to the next, in    *)
(* variables that every process shares: the last dividend, divisor and     *)
(* answer of quorem-digitlists, and the last divisor of                    *)
(* quorem-digitlists-to-get-digit with what was computed from it.  Lists   *)
(* are named by their numbers, so that eq? is equality.                    *)
(***************************************************************************)
EXTENDS Integers

CONSTANTS
    Processes,
    Dividends, Divisors     \* bounds

DivisionAssumption == Dividends \subseteq Nat /\ Divisors \subseteq Nat \ {0}

VARIABLES
    last_inlist, last_divisor, last_quorem,
    last_short_divisor, fix_divisor,
    pc, inlist, divisor,    \* of each process
    digit, answer

caches == <<last_inlist, last_divisor, last_quorem, last_short_divisor, fix_divisor>>
vars   == <<caches, pc, inlist, divisor, digit, answer>>

Anything == 0               \* #t, which is no list
NoAnswer == <<0, 0>>

Init ==
    /\ last_inlist = Anything /\ last_divisor = Anything /\ last_quorem = NoAnswer
    /\ last_short_divisor = Anything /\ fix_divisor = Anything
    /\ pc = [p \in Processes |-> "idle"] /\ digit = [p \in Processes |-> 0]
    /\ inlist = [p \in Processes |-> Anything] /\ divisor = [p \in Processes |-> Anything]
    /\ answer = [p \in Processes |-> NoAnswer]

Goto(p, from, to) == pc[p] = from /\ pc' = [pc EXCEPT ![p] = to]

QuoremDigitlists(p) ==
    /\ Goto(p, "idle", "inlist?")
    /\ \E n \in Dividends, d \in Divisors :
          n >= d /\ inlist' = [inlist EXCEPT ![p] = n] /\ divisor' = [divisor EXCEPT ![p] = d]
    /\ UNCHANGED <<caches, digit, answer>>

SameInlist(p) ==
    /\ Goto(p, "inlist?", IF inlist[p] = last_inlist THEN "divisor?" ELSE "short?")
    /\ UNCHANGED <<caches, inlist, divisor, digit, answer>>

SameDivisor(p) ==
    /\ Goto(p, "divisor?", IF divisor[p] = last_divisor THEN "last quorem" ELSE "short?")
    /\ UNCHANGED <<caches, inlist, divisor, digit, answer>>

LastQuorem(p) ==
    /\ Goto(p, "last quorem", "done") /\ answer' = [answer EXCEPT ![p] = last_quorem]
    /\ UNCHANGED <<caches, inlist, divisor, digit>>

\* quorem-digitlists-to-get-digit.  Before it is set, fix-divisor is no number (an error).
DividedBy(n) == IF fix_divisor = Anything THEN NoAnswer ELSE <<n \div fix_divisor, n % fix_divisor>>

SameShortDivisor(p) ==
    /\ Goto(p, "short?", IF last_short_divisor = divisor[p] THEN "quotient" ELSE "set short")
    /\ UNCHANGED <<caches, inlist, divisor, digit, answer>>

SetShortDivisor(p) ==
    /\ Goto(p, "set short", "set fix") /\ last_short_divisor' = divisor[p]
    /\ UNCHANGED <<last_inlist, last_divisor, last_quorem, fix_divisor, inlist, divisor, digit, answer>>

SetFixDivisor(p) ==
    /\ Goto(p, "set fix", "quotient") /\ fix_divisor' = divisor[p]
    /\ UNCHANGED <<last_inlist, last_divisor, last_quorem, last_short_divisor, inlist, divisor, digit, answer>>

Quotient(p) ==
    /\ Goto(p, "quotient", "remainder") /\ digit' = [digit EXCEPT ![p] = DividedBy(inlist[p])[1]]
    /\ UNCHANGED <<caches, inlist, divisor, answer>>

Remainder(p) ==
    /\ Goto(p, "remainder", "set inlist")
    /\ answer' = [answer EXCEPT ![p] = <<digit[p], DividedBy(inlist[p])[2]>>]
    /\ UNCHANGED <<caches, inlist, divisor, digit>>

SetInlist(p) ==
    /\ Goto(p, "set inlist", "set divisor") /\ last_inlist' = inlist[p]
    /\ UNCHANGED <<last_divisor, last_quorem, last_short_divisor, fix_divisor, inlist, divisor, digit, answer>>

SetDivisor(p) ==
    /\ Goto(p, "set divisor", "set quorem") /\ last_divisor' = divisor[p]
    /\ UNCHANGED <<last_inlist, last_quorem, last_short_divisor, fix_divisor, inlist, divisor, digit, answer>>

SetQuorem(p) ==
    /\ Goto(p, "set quorem", "done") /\ last_quorem' = answer[p]
    /\ UNCHANGED <<last_inlist, last_divisor, last_short_divisor, fix_divisor, inlist, divisor, digit, answer>>

Return(p) ==
    /\ Goto(p, "done", "idle")
    /\ digit' = [digit EXCEPT ![p] = 0] /\ answer' = [answer EXCEPT ![p] = NoAnswer]
    /\ UNCHANGED <<caches, inlist, divisor>>

Next ==
    \E p \in Processes :
        \/ QuoremDigitlists(p) \/ SameInlist(p) \/ SameDivisor(p) \/ LastQuorem(p)
        \/ SameShortDivisor(p) \/ SetShortDivisor(p) \/ SetFixDivisor(p) \/ Quotient(p) \/ Remainder(p)
        \/ SetInlist(p) \/ SetDivisor(p) \/ SetQuorem(p) \/ Return(p)

Spec == Init /\ [][Next]_vars

----------------------------------------------------------------------------
\* A division answers with the quotient and the remainder of its own arguments, whatever
\* was divided before.  With two processes it does not: one sets the divisor that both
\* compare, the other reads what is computed from it before that is set.
QuotientRight ==
    \A p \in Processes :
        pc[p] = "done" => answer[p] = <<inlist[p] \div divisor[p], inlist[p] % divisor[p]>>
=============================================================================
