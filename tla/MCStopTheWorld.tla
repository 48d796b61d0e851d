--------------------------- MODULE MCStopTheWorld ---------------------------
(***************************************************************************)
(* Instances of StopTheWorld for TLC.                                      *)
(***************************************************************************)
EXTENDS StopTheWorld, TLC

CONSTANTS main, t1, t2

MCThreads == {main, t1, t2}
JustMain  == {main}
MainAndT1 == {main, t1}
NoThreads == {}

\* Threads that are not the main one are interchangeable.
Others == Permutations({t1, t2})

\* What threads do when none creates others, loads worlds or writes heap registers: with
\* Spawners, Loaders and RegWriters empty, this is Next.  MCThreads has all of Next.
MutatorNext ==
    \E t \in Threads : \/ Interpret(t) \/ Allocate(t) \/ Wait(t) \/ Gc(t)
                       \/ LockDump(t) \/ DumpWorld(t) \/ Exit(t)

MutatorSpec == Init /\ [][MutatorNext]_vars /\ Fairness

=============================================================================
