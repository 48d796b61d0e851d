------------------------------ MODULE MCScheduler ------------------------------
(***************************************************************************)
(* Programs and machines for the runs of Scheduler.                        *)
(***************************************************************************)
EXTENDS Scheduler

CONSTANTS v1, v2, main, busy, A, B, F

Machines == {v1, v2}
Everyone == {main, busy, A, B, F}
BusyWork == [v \in {v2} |-> busy]
MainTwice == [p \in Everyone |-> IF p = main THEN 2 ELSE 1]

\* The processes that c does not mention call nothing and just end.
World(machines, timer, made, c) ==
  [machines |-> machines, timer |-> timer,
   calls |-> [p \in Everyone |-> IF p \in DOMAIN c THEN c[p] ELSE {}],
   makes |-> [p \in Everyone |-> IF p = main THEN made ELSE {}]]

WaitAndSignal ==
  World({v1, v2}, FALSE, {A, B}, [p \in {main, A, B} |->
     CASE p = main -> {"run"} [] p = A -> {"wait"} [] p = B -> {"signal"}])
ForceBoth(machines, timer) ==
  World(machines, timer, {A}, [p \in {main, A} |->
     IF p = main THEN {"run", "force"} ELSE {"force"}])
BlockedBody ==
  World({v1}, FALSE, {A}, [p \in {main, A, F} |->
     CASE p = main -> {"run", "force"} [] p = A -> {"force"} [] p = F -> {"wait"}])
WaitAlone == World({v1}, FALSE, {}, [p \in {main} |-> {"wait"}])
WaitInWorker ==
  World({v1}, TRUE, {A}, [p \in {main, A} |-> IF p = main THEN {"run", "signal"} ELSE {"wait"}])

SafePrograms == {WaitAndSignal, ForceBoth({v1, v2}, FALSE), ForceBoth({v1}, TRUE)}
LivePrograms == {ForceBoth({v1}, TRUE), BlockedBody}
OneWaiter == {WaitAlone}
Preempted == {WaitInWorker}
================================================================================
