------------------------------- MODULE Scheduler -------------------------------
(***************************************************************************)
(* The green-thread scheduler of src/src/world/multiproc.oak with its      *)
(* semaphores and futures, on top of the alarm traps of alarm.oak and of   *)
(* the interpreter's timer (src/src/emulator/loop.c).                      *)
(*                                                                         *)
(* A virtual machine (a native thread running the interpreter) executes a  *)
(* stack of frames, one per active call of the functions modelled here;    *)
(* the head is the innermost.  A continuation captured by CALL/CC is such  *)
(* a stack.  The rest of the user's program is the frame "body".           *)
(* A definition marked Mutant is a plausible slip, kept to show that the   *)
(* property it breaks depends on the code; nothing here uses it.           *)
(***************************************************************************)
EXTENDS Integers, Sequences, FiniteSets, Functions, SequencesExt

CONSTANTS
  VMs,          \* the native threads
  Procs,        \* the process descriptors, made in advance
  Nothing,      \* the absence of a process or of a queue entry
  Main, Boot,   \* the machine the world boots on, the process it boots in
  Busy,         \* Busy[v]: the busy-work process that v makes when it starts
  Filler,       \* the process that computes the future
  Worlds,       \* the programs and builds to consider; see Init
  Idlers,       \* the processes that pause for ever once they have no more to do
  MaxCalls,     \* bound: MaxCalls[p] operations performed by process p
  DrainMax      \* how often FORCE pauses to drain the queue (100 in the code)

Operations == {"wait", "signal", "force", "run"}

\* A world w: the machines that are started (w.machines), whether the interpreter was
\* built with ENABLE_TIMER (w.timer), the operations each process p calls (w.calls[p])
\* and the processes it makes with process-run-fn (w.makes[p]).
ASSUME SchedulerAssumption ==
  /\ Main \in VMs /\ {Boot, Filler} \subseteq Procs /\ Nothing \notin Procs
  /\ Busy \in [VMs \ {Main} -> Procs]
  /\ \A w \in Worlds : /\ Main \in w.machines /\ w.machines \subseteq VMs /\ w.timer \in BOOLEAN
                       /\ w.calls \in [Procs -> SUBSET Operations]
                       /\ w.makes \in [Procs -> SUBSET Procs]
  /\ Idlers \subseteq Procs /\ Boot \in Idlers
  /\ MaxCalls \in [Procs -> Nat] /\ DrainMax \in Nat

\* Every process is made in one place: the boot process by the warm boot action, busy-work
\* by the machine that it is for, the filler by the future, any other by the programs.
ASSUME MakersAssumption ==
  /\ IsFiniteSet(VMs) /\ Boot # Filler
  /\ \A u, v \in VMs \ {Main} : Busy[u] = Busy[v] => u = v
  /\ \A v \in VMs \ {Main} : Busy[v] \notin {Boot, Filler}
  /\ \A w \in Worlds : \A p \in Procs :
        w.makes[p] \cap ({Filler} \cup {Busy[v] : v \in VMs \ {Main}}) = {}

VARIABLES
  world,     \* the program and the build, one of Worlds
  stack,     \* stack[v]: the calls v is executing, innermost first
  reg,       \* reg[v]: the process register
  queue,     \* *scheduleQ*
  locked,    \* the mutexes that are taken
  alarms,    \* timer_increment: one for all the machines
  expired,   \* timer_counter > TIMEOUT: one for all the machines
  value,     \* s-value of the semaphore
  semQ,      \* s-Q of the semaphore
  flag,      \* flag of the future
  scheduled, \* scheduled? of the future
  dependantsQ, \* dependantsQ of the future
  unborn,    \* processes not made yet
  calls,     \* calls[p]: operations p has performed
  log        \* what has happened: signals, waits that returned, ...

clock == <<alarms, expired>>
semaphore == <<value, semQ>>
future == <<flag, scheduled, dependantsQ>>
program == <<world, unborn, calls>>
vars == <<stack, reg, queue, locked, clock, semaphore, future, program, log>>

--------------------------------------------------------------------------------
(* Frames and entries.  An entry of a queue is a process and a thunk.  The     *)
(* thunk either throws to a captured continuation, which replaces the stack,   *)
(* or is an ordinary call, which runs on top of whatever calls it.             *)

Frame(fn, at) == [fn |-> fn, at |-> at, who |-> Nothing, n |-> 0, next |-> Nothing]
Body(p) == [Frame("body", "call") EXCEPT !.who = p]
RunFn(p) == [Frame("run", "disable") EXCEPT !.who = p]
Call(p, s) == [proc |-> p, throw |-> FALSE, stack |-> s]
Throw(p, s) == [proc |-> p, throw |-> TRUE, stack |-> s]

\* The thunk that PROCESS-RUN-FN queues: apply the function, then (start).
Thunk(p) == IF p = Filler THEN <<[Frame("fill", "call") EXCEPT !.who = p], Frame("start", "disable")>>
                          ELSE <<Body(p), Frame("start", "disable")>>

At(v, fn, at) == stack[v] # <<>> /\ Head(stack[v]).fn \in fn /\ Head(stack[v]).at = at
Top(v) == Head(stack[v])
Rest(v) == Tail(stack[v])
Become(v, s) == stack' = [stack EXCEPT ![v] = s]
GoTo(v, at) == Become(v, <<[Top(v) EXCEPT !.at = at]>> \o Rest(v))
Switchers == {"pause", "alarm", "start"}
Users == Switchers \cup {"run", "signal", "append"}   \* functions that take the scheduler

StartBusyWork(v) == <<RunFn(Busy[v]), Frame("start", "disable")>>

\* Mutant: no warm boot action has made a process, and the register is the fixnum 0.
InitNoProcess ==
  /\ world \in Worlds
  /\ stack = [v \in VMs |-> IF v \notin world.machines THEN <<>>
                            ELSE IF v = Main THEN <<Body(Boot)>> ELSE StartBusyWork(v)]
  /\ reg = [v \in VMs |-> Nothing]
  /\ queue = <<>> /\ semQ = <<>> /\ dependantsQ = <<>>
  /\ locked = {} /\ alarms = FALSE /\ expired = FALSE
  /\ value = 0 /\ flag = FALSE /\ scheduled = FALSE
  /\ unborn = Procs \ {Boot}
  /\ calls = [p \in Procs |-> 0]
  /\ log = [signals |-> 0, passed |-> 0, filled |-> 0, forced |-> {}, delivered |-> FALSE]

Init ==
  /\ world \in Worlds
  /\ stack = [v \in VMs |-> IF v \notin world.machines THEN <<>>
                            ELSE IF v = Main THEN <<Body(Boot)>> ELSE StartBusyWork(v)]
  /\ reg = [v \in VMs |-> Boot]
  /\ queue = <<>> /\ semQ = <<>> /\ dependantsQ = <<>>
  /\ locked = {} /\ alarms = FALSE /\ expired = FALSE
  /\ value = 0 /\ flag = FALSE /\ scheduled = FALSE
  /\ unborn = Procs \ {Boot}
  /\ calls = [p \in Procs |-> 0]
  /\ log = [signals |-> 0, passed |-> 0, filled |-> 0, forced |-> {}, delivered |-> FALSE]

--------------------------------------------------------------------------------
(* acquire-scheduler and release-scheduler, expanded into their steps.         *)

\* Mutant: alarms go on while the scheduler is held.
DisableNothing(v) ==
  /\ At(v, Users, "disable")
  /\ GoTo(v, "acquire")
  /\ UNCHANGED clock
  /\ UNCHANGED <<reg, queue, locked, semaphore, future, program, log>>

DisableAlarms(v) ==
  /\ At(v, Users, "disable")
  /\ alarms' = FALSE /\ expired' = FALSE
  /\ GoTo(v, "acquire")
  /\ UNCHANGED <<reg, queue, locked, semaphore, future, program, log>>

AcquireScheduler(v) ==
  /\ At(v, Users, "acquire") /\ "scheduler" \notin locked
  /\ locked' = locked \cup {"scheduler"}
  /\ GoTo(v, "inside")
  /\ UNCHANGED <<reg, queue, clock, semaphore, future, program, log>>

ReleaseScheduler(v) ==
  /\ At(v, Users, "release")
  /\ locked' = locked \ {"scheduler"}
  /\ GoTo(v, "enable")
  /\ UNCHANGED <<reg, queue, clock, semaphore, future, program, log>>

EnableAlarms(v) ==
  /\ At(v, Users, "enable")
  /\ alarms' = world.timer
  /\ IF Top(v).fn \in Switchers THEN GoTo(v, "go") ELSE Become(v, Rest(v))
  /\ UNCHANGED <<reg, queue, locked, expired, semaphore, future, program, log>>

--------------------------------------------------------------------------------
(* Context switches.                                                           *)

\* Mutant: the entry that is resumed stays in the queue.
SwitchAndKeep(v, q) ==
  /\ queue' = q
  /\ reg' = IF q = <<>> THEN reg ELSE [reg EXCEPT ![v] = Head(q).proc]
  /\ Become(v, <<[Top(v) EXCEPT !.at = "release",
                                !.next = IF q = <<>> THEN Nothing ELSE Head(q)]>> \o Rest(v))
  /\ expired' = FALSE
  /\ UNCHANGED <<locked, alarms, semaphore, future, program, log>>

\* Mutant: the process register is not fixed.
SwitchWithoutStore(v, q) ==
  /\ queue' = IF q = <<>> THEN q ELSE Tail(q)
  /\ Become(v, <<[Top(v) EXCEPT !.at = "release",
                                !.next = IF q = <<>> THEN Nothing ELSE Head(q)]>> \o Rest(v))
  /\ expired' = FALSE
  /\ UNCHANGED <<reg, locked, alarms, semaphore, future, program, log>>

\* The dequeue, %store-process and %reset-alarm-counter that pause and start share.
SwitchTo(v, q) ==
  /\ queue' = IF q = <<>> THEN q ELSE Tail(q)
  /\ reg' = IF q = <<>> THEN reg ELSE [reg EXCEPT ![v] = Head(q).proc]
  /\ Become(v, <<[Top(v) EXCEPT !.at = "release",
                                !.next = IF q = <<>> THEN Nothing ELSE Head(q)]>> \o Rest(v))
  /\ expired' = FALSE
  /\ UNCHANGED <<locked, alarms, semaphore, future, program, log>>

\* Mutant: the paused process goes to the front of the queue.
PauseAhead(v) ==
  /\ At(v, {"pause", "alarm"}, "inside")
  /\ SwitchTo(v, <<Throw(reg[v], Rest(v))>> \o queue)

\* Mutant: the paused process is not queued.
PauseForever(v) ==
  /\ At(v, {"pause", "alarm"}, "inside")
  /\ SwitchTo(v, queue)

Pause(v) ==
  /\ At(v, {"pause", "alarm"}, "inside")
  /\ SwitchTo(v, Append(queue, Throw(reg[v], Rest(v))))

Start(v) == At(v, {"start"}, "inside") /\ SwitchTo(v, queue)

\* (when next ((cdr next))): without one, pause and start just return.
Go(v) ==
  /\ At(v, Switchers, "go")
  /\ LET next == Top(v).next IN
     Become(v, IF next = Nothing THEN Rest(v)
               ELSE IF next.throw THEN next.stack ELSE next.stack \o Rest(v))
  /\ UNCHANGED <<reg, queue, locked, clock, semaphore, future, program, log>>

ProcessRunFn(v) ==
  /\ At(v, {"run"}, "inside")
  /\ queue' = Append(queue, Call(Top(v).who, Thunk(Top(v).who)))
  /\ GoTo(v, "release")
  /\ UNCHANGED <<reg, locked, clock, semaphore, future, program, log>>

--------------------------------------------------------------------------------
(* The alarm clock.  TIMEOUT is a thousand instructions, so the counter passes *)
(* it in user code or in a spin and not in the few instructions between two    *)
(* steps of the scheduler; the machine that takes the trap may be any one.     *)

Tick(v) ==
  /\ world.timer /\ alarms /\ ~expired
  /\ \/ At(v, {"body", "fill"}, "call")
     \/ At(v, {"wait"}, "acquire") /\ "semaphore" \in locked
     \/ At(v, {"force", "fill"}, "acquire") /\ "future" \in locked
  /\ expired' = TRUE
  /\ UNCHANGED <<stack, reg, queue, locked, alarms, semaphore, future, program, log>>

\* Bound: an alarm does not interrupt the handler of another before its first step.
Alarm(v) ==
  /\ alarms /\ expired /\ stack[v] # <<>> /\ Top(v).fn # "alarm"
  /\ expired' = FALSE
  /\ Become(v, <<Frame("alarm", "disable")>> \o stack[v])
  /\ UNCHANGED <<reg, queue, locked, alarms, semaphore, future, program, log>>

--------------------------------------------------------------------------------
(* Mutexes other than the scheduler's: acquire-mutex spins until it succeeds.  *)

Mutex(fn) == IF fn \in {"wait", "signal"} THEN "semaphore" ELSE "future"

AcquireMutex(v) ==
  /\ \/ At(v, {"wait", "force", "fill"}, "acquire") \/ At(v, {"signal"}, "inside")
  /\ Mutex(Top(v).fn) \notin locked
  /\ locked' = locked \cup {Mutex(Top(v).fn)}
  /\ GoTo(v, "locked")
  /\ UNCHANGED <<reg, queue, clock, semaphore, future, program, log>>

\* The top frame gives up its mutex, and s is the stack from then on.
ReleaseMutex(v, s) ==
  /\ locked' = locked \ {Mutex(Top(v).fn)}
  /\ Become(v, s)
  /\ UNCHANGED <<reg, queue, clock, semaphore, future, program>>

--------------------------------------------------------------------------------
(* Semaphores.                                                                 *)

Returned(v) == <<[Top(v) EXCEPT !.at = "return"]>> \o Rest(v)

\* Mutant: the value is tested before it is decremented.
WaitBelowZero(v) ==
  /\ At(v, {"wait"}, "locked")
  /\ value' = value - 1
  /\ IF value < 0
     THEN /\ semQ' = Append(semQ, Throw(reg[v], Returned(v)))
          /\ GoTo(v, "block")
     ELSE GoTo(v, "unlock") /\ UNCHANGED semQ
  /\ UNCHANGED <<reg, queue, locked, clock, future, program, log>>

Wait(v) ==
  /\ At(v, {"wait"}, "locked")
  /\ value' = value - 1
  /\ IF value' < 0
     THEN /\ semQ' = Append(semQ, Throw(reg[v], Returned(v)))
          /\ GoTo(v, "block")
     ELSE GoTo(v, "unlock") /\ UNCHANGED semQ
  /\ UNCHANGED <<reg, queue, locked, clock, future, program, log>>

ReleaseWait(v) ==
  /\ At(v, {"wait"}, "unlock")
  /\ ReleaseMutex(v, Returned(v)) /\ UNCHANGED log

Block(v) ==
  /\ At(v, {"wait"}, "block")
  /\ ReleaseMutex(v, <<Frame("start", "disable")>> \o Returned(v)) /\ UNCHANGED log

WaitReturns(v) ==
  /\ At(v, {"wait"}, "return")
  /\ log' = [log EXCEPT !.passed = @ + 1]
  /\ Become(v, Rest(v))
  /\ UNCHANGED <<reg, queue, locked, clock, semaphore, future, program>>

\* Mutant: the waiter that brings the value to zero is not woken.
SignalNegative(v) ==
  /\ At(v, {"signal"}, "locked")
  /\ value' = value + 1
  /\ log' = [log EXCEPT !.signals = @ + 1]
  /\ IF value' < 0
     THEN queue' = Append(queue, Head(semQ)) /\ semQ' = Tail(semQ)
     ELSE UNCHANGED <<queue, semQ>>
  /\ GoTo(v, "unlock")
  /\ UNCHANGED <<reg, locked, clock, future, program>>

Signal(v) ==
  /\ At(v, {"signal"}, "locked")
  /\ value' = value + 1
  /\ log' = [log EXCEPT !.signals = @ + 1]
  /\ IF value' <= 0
     THEN queue' = Append(queue, Head(semQ)) /\ semQ' = Tail(semQ)
     ELSE UNCHANGED <<queue, semQ>>
  /\ GoTo(v, "unlock")
  /\ UNCHANGED <<reg, locked, clock, future, program>>

ReleaseSignal(v) ==
  /\ At(v, {"signal"}, "unlock")
  /\ ReleaseMutex(v, <<[Top(v) EXCEPT !.at = "release"]>> \o Rest(v)) /\ UNCHANGED log

--------------------------------------------------------------------------------
(* Futures.                                                                    *)

\* The loop that runs whatever the scheduler still holds before suspending.
Drain(v) ==
  /\ At(v, {"force"}, "drain")
  /\ IF queue = <<>> \/ Top(v).n = DrainMax
     THEN GoTo(v, "acquire")
     ELSE Become(v, <<Frame("pause", "disable"), [Top(v) EXCEPT !.n = @ + 1]>> \o Rest(v))
  /\ UNCHANGED <<reg, queue, locked, clock, semaphore, future, program, log>>

\* The suspended forcer forces again when it is resumed, and throws the result
\* to its continuation: a "start" frame that has already dequeued it.
Suspended(v) ==
  Call(reg[v], <<[Frame("force", "drain") EXCEPT !.who = Top(v).who],
                 [Frame("start", "go") EXCEPT !.next = Throw(reg[v], Rest(v))]>>)

TestFlag(v) ==
  /\ At(v, {"force"}, "locked")
  /\ IF flag THEN GoTo(v, "val") /\ UNCHANGED dependantsQ
             ELSE /\ dependantsQ' = Append(dependantsQ, Suspended(v))
                  /\ GoTo(v, "unlock")
  /\ UNCHANGED <<reg, queue, locked, clock, semaphore, flag, scheduled, program, log>>

ForceReturns(v) ==
  /\ At(v, {"force"}, "val")
  /\ log' = [log EXCEPT !.forced = @ \cup {"value"}]
  /\ ReleaseMutex(v, Rest(v))

ReleaseForce(v) ==
  /\ At(v, {"force"}, "unlock")
  /\ ReleaseMutex(v, <<[Top(v) EXCEPT !.at = "claim"]>> \o Rest(v)) /\ UNCHANGED log

\* Mutant: whoever forces starts the computation.
ClaimAlways(v) ==
  /\ At(v, {"force"}, "claim")
  /\ scheduled' = TRUE
  /\ Become(v, <<RunFn(Filler)>>
               \o <<Frame("start", "disable")>> \o Returned(v))
  /\ UNCHANGED <<reg, queue, locked, clock, semaphore, flag, dependantsQ, program, log>>

\* TEST-AND-SET on scheduled?: its own mutex makes it one step.
Claim(v) ==
  /\ At(v, {"force"}, "claim")
  /\ scheduled' = TRUE
  /\ Become(v, (IF scheduled THEN <<>> ELSE <<RunFn(Filler)>>)
               \o <<Frame("start", "disable")>> \o Returned(v))
  /\ UNCHANGED <<reg, queue, locked, clock, semaphore, flag, dependantsQ, program, log>>

\* (start) came back: force returns what it returned, which is no value of the body.
ForceFallsThrough(v) ==
  /\ At(v, {"force"}, "return")
  /\ log' = [log EXCEPT !.forced = @ \cup {"nothing"}]
  /\ Become(v, Rest(v))
  /\ UNCHANGED <<reg, queue, locked, clock, semaphore, future, program>>

ComputeValue(v) ==
  /\ At(v, {"fill"}, "call")
  /\ log' = [log EXCEPT !.filled = @ + 1]
  /\ GoTo(v, "acquire")
  /\ UNCHANGED <<reg, queue, locked, clock, semaphore, future, program>>

\* Mutant: the value is stored and the flag is not set.
SetValueOnly(v) ==
  /\ At(v, {"fill"}, "locked")
  /\ GoTo(v, "unlock")
  /\ UNCHANGED <<reg, queue, locked, clock, semaphore, flag, scheduled, dependantsQ, program, log>>

SetValue(v) ==
  /\ At(v, {"fill"}, "locked")
  /\ flag' = TRUE
  /\ GoTo(v, "unlock")
  /\ UNCHANGED <<reg, queue, locked, clock, semaphore, scheduled, dependantsQ, program, log>>

ReleaseValue(v) ==
  /\ At(v, {"fill"}, "unlock")
  /\ ReleaseMutex(v, <<Frame("append", "disable")>> \o Rest(v)) /\ UNCHANGED log

\* Mutant: one dependant is woken, the others sleep on.
AppendFirst(v) ==
  /\ At(v, {"append"}, "inside")
  /\ queue' = queue \o SubSeq(dependantsQ, 1, 1)
  /\ log' = [log EXCEPT !.delivered = TRUE]
  /\ GoTo(v, "release")
  /\ UNCHANGED <<reg, locked, clock, semaphore, future, program>>

\* qappend leaves its second queue as it was (see ListQueue).
AppendDependants(v) ==
  /\ At(v, {"append"}, "inside")
  /\ queue' = queue \o dependantsQ
  /\ log' = [log EXCEPT !.delivered = TRUE]
  /\ GoTo(v, "release")
  /\ UNCHANGED <<reg, locked, clock, semaphore, future, program>>

--------------------------------------------------------------------------------
(* The user's program, the body of the future included: operations in any     *)
(* order, then pause for ever or end.                                          *)

CallFrame(op) == Frame(op, CASE op = "wait" -> "acquire" [] op = "signal" -> "disable"
                             [] op = "force" -> "drain")

Perform(v) ==
  /\ At(v, {"body", "fill"}, "call")
  /\ LET p == Top(v).who IN
     /\ calls[p] < MaxCalls[p]
     /\ calls' = [calls EXCEPT ![p] = @ + 1]
     /\ \/ \E op \in world.calls[p] \ {"run"} :
             Become(v, <<CallFrame(op)>> \o stack[v]) /\ UNCHANGED unborn
        \/ \E q \in world.makes[p] \cap unborn :
             /\ "run" \in world.calls[p]
             /\ unborn' = unborn \ {q}
             /\ Become(v, <<RunFn(q)>> \o stack[v])
  /\ UNCHANGED <<world, reg, queue, locked, clock, semaphore, future, log>>

\* An idle program pauses (busy-work does nothing else); any other returns.
Finish(v) ==
  /\ At(v, {"body"}, "call")
  /\ LET p == Top(v).who IN
     /\ world.calls[p] = {} \/ calls[p] = MaxCalls[p] \/ p \in Idlers
     /\ Become(v, IF p \in Idlers THEN <<Frame("pause", "disable")>> \o stack[v] ELSE Rest(v))
  /\ UNCHANGED <<reg, queue, locked, clock, semaphore, future, program, log>>

Step(v) ==
  \/ DisableAlarms(v) \/ AcquireScheduler(v) \/ ReleaseScheduler(v) \/ EnableAlarms(v)
  \/ Pause(v) \/ Start(v) \/ Go(v) \/ ProcessRunFn(v)
  \/ Alarm(v) \/ AcquireMutex(v)
  \/ Wait(v) \/ ReleaseWait(v) \/ Block(v) \/ WaitReturns(v)
  \/ Signal(v) \/ ReleaseSignal(v)
  \/ Drain(v) \/ TestFlag(v) \/ ForceReturns(v) \/ ReleaseForce(v) \/ Claim(v)
  \/ ForceFallsThrough(v) \/ ComputeValue(v) \/ SetValue(v) \/ ReleaseValue(v)
  \/ AppendDependants(v) \/ Perform(v) \/ Finish(v)

Next == \E v \in VMs : Step(v) \/ Tick(v)

Spec == Init /\ [][Next]_vars

\* Every native thread keeps running (weak fairness of its steps and of its clock), and
\* a computation that is interrupted executes a thousand instructions each time it is
\* resumed, so it ends, on one machine or another, however often that happens (strong
\* fairness of its last step).
Ends(v, p) ==
  \/ ComputeValue(v) /\ p = Filler
  \/ Finish(v) /\ p = Top(v).who

FairSpec ==
  /\ Spec
  /\ \A v \in VMs : WF_vars(Step(v)) /\ WF_vars(Tick(v))
  /\ \A p \in Procs : SF_vars(\E v \in VMs : Ends(v, p))
--------------------------------------------------------------------------------
(* Properties.                                                                 *)

TypeOK ==
  /\ world \in Worlds /\ reg \in [VMs -> Procs] /\ unborn \subseteq Procs
  /\ \A p \in Procs : calls[p] \in 0 .. MaxCalls[p]
  /\ locked \subseteq {"scheduler", "semaphore", "future"}
  /\ alarms \in BOOLEAN /\ expired \in BOOLEAN
  /\ value \in Int /\ flag \in BOOLEAN /\ scheduled \in BOOLEAN
  /\ \A e \in Range(queue \o semQ \o dependantsQ) : e.proc \in Procs
  /\ \A v \in VMs : \A f \in Range(stack[v]) : f.fn \in Users \cup {"body", "wait", "force", "fill"}

\* A stack belongs to a process, unless it is about to look for another one.
Suspending(f) ==
  \/ f.fn = "start" /\ f.next = Nothing
  \/ f.at \in {"block", "claim"}
  \/ f.fn = "force" /\ f.at = "unlock"
\* Frames that belong to the scheduler: they say nothing of what the process does.
Skips(f) == f.fn \in {"pause", "alarm", "run"} /\ f.next = Nothing
\* The frame that says what the process does: the first of the others.
IsLead(s, i) == ~ Skips(s[i]) /\ \A j \in 1 .. i - 1 : Skips(s[j])
HasLead(s)   == \E i \in 1 .. Len(s) : IsLead(s, i)
Lead(s)      == IF HasLead(s) THEN s[CHOOSE i \in 1 .. Len(s) : IsLead(s, i)] ELSE Frame("start", "disable")
Occupied(s) ==
  LET f == Lead(s)
  IN  ~ Suspending(IF f.next = Nothing THEN f ELSE Lead(f.next.stack))   \* resumed, not run yet
Holding(q, p) == {i \in DOMAIN q : q[i].proc = p /\ Occupied(q[i].stack)}
RunningOn(p) == {v \in VMs : reg[v] = p /\ Occupied(stack[v])}

\* A process has one continuation: it is running on one machine, or it is one entry
\* of one queue.  Were it in two places, its computation would go on twice.
RunsOnce ==
  \A p \in Procs :
     Cardinality(RunningOn(p)) + Cardinality(Holding(queue, p)) + Cardinality(Holding(semQ, p))
       + (IF log.delivered THEN 0 ELSE Cardinality(Holding(dependantsQ, p))) <= 1

\* A program runs with its own process in the register, hence with its own fluid
\* bindings, whichever machine resumes it and whatever ran there before.
RegisterFits == \A v \in VMs : At(v, {"body", "fill"}, "call") => reg[v] = Top(v).who

\* While nobody holds a semaphore, its queue has as many waiters as its value is
\* below zero: signal never finds an empty queue to wake, nor leaves one asleep.
SemaphoreBalanced ==
  "semaphore" \notin locked => Len(semQ) = (IF value < 0 THEN -value ELSE 0)

\* A wait returns only after a signal of its own (misc.tex: it blocks until a signal).
WaitersSignalled == log.passed <= log.signals

\* The body of a future is run once, however many processes force it.
FilledOnce == log.filled <= 1

\* Forcing a future returns the value of its body.
ForceGivesValue == log.forced \subseteq {"value"}
FutureAnswersOnce == FilledOnce /\ ForceGivesValue

\* While a machine is between processes there is another one to run: start never comes
\* back to the process that has suspended itself.
NeverIdle == \A v \in VMs : At(v, {"start"}, "inside") => queue # <<>>

\* Once the dependants of a future have been given to the scheduler, no other
\* process suspends itself on it, where nobody would ever resume it.
NobodySuspendsLate == [][log.delivered => dependantsQ' = dependantsQ]_vars

\* The code that holds the scheduler is never interrupted: such a frame is on top.
CriticalSections == {"inside", "locked", "unlock", "release"}
NeverInterrupted ==
  \A v \in VMs : \A i \in 2 .. Len(stack[v]) :
     ~(stack[v][i].fn \in Users /\ stack[v][i].at \in CriticalSections)

\* Every process in the scheduler's queue gets a machine.
EveryEntryRuns ==
  \A p \in Procs : Holding(queue, p) # {} ~> RunningOn(p) # {}

\* Every process that forces the future goes on with its program, whether it found the
\* answer or was queued for it and whoever was answered first, unless the body of the
\* future itself waits for a signal.
Forces(p) == \E v \in VMs : At(v, {"force"}, "drain") /\ reg[v] = p
Proceeds(p) == \E v \in VMs : At(v, {"body"}, "call") /\ Top(v).who = p
BodyBlocked == Holding(semQ, Filler) # {}
ForceEnds == \A p \in Procs : Forces(p) ~> Proceeds(p) \/ BodyBlocked

\* The scheduler does not stay locked.
SchedulerReleased == "scheduler" \in locked ~> "scheduler" \notin locked
================================================================================
