--------------------------- MODULE SchedulerProofs ---------------------------
(***************************************************************************)
(* Proofs about module Scheduler, for any programs on any number of        *)
(* machines: types, the balance of a semaphore, that nobody suspends late  *)
(* on a future; where alarms are not combined with several machines, that  *)
(* the code that holds the scheduler is alone and not interrupted; while   *)
(* start finds a process to run, that every process is in one place and    *)
(* runs as itself, that a future is computed once, and that waits return   *)
(* only by signals; and that start does find one, if each machine has a    *)
(* process that keeps it busy.                                             *)
(*                                                                         *)
(* A frame may hold a continuation, whose frames may hold others: the      *)
(* invariant says that there is a set C of stacks with all that are held   *)
(* anywhere, whose own frames hold only members of C.                      *)
(***************************************************************************)
EXTENDS Scheduler, SequenceTheorems, FiniteSetTheorems, TLAPS

Functions_ == Users \cup {"body", "wait", "force", "fill"}
Points     == {"call", "disable", "acquire", "inside", "locked", "unlock", "release", "enable",
               "go", "return", "block", "claim", "val", "drain"}

\* The build has no timer, or the world starts one machine.
AlarmsAlone == \A w \in Worlds : w.timer => w.machines = {Main}

\* From the first step of acquire-scheduler that matters to the last of release-scheduler.
Masked(f)   == f.fn \in Users /\ f.at \in CriticalSections \cup {"acquire", "enable"}
Critical(f) == f.fn \in Users /\ f.at \in CriticalSections

\* Frames whose continuations are in C, when the flag of the future is fl: with it down
\* nobody has set the value, nor goes on to give the dependants to the scheduler.
Entries(C) == [proc : Procs, throw : BOOLEAN, stack : C]
Frames(C, fl) ==
    {f \in [fn : Functions_, at : Points, who : Procs \cup {Nothing}, n : Nat, next : {Nothing} \cup Entries(C)] :
        /\ f.fn \in {"run", "body", "fill"} => f.who \in Procs
        /\ f.fn = "append" \/ (f.fn = "fill" /\ f.at = "unlock") => fl}

\* Those that may lie below the innermost one.
Resting(C, fl) == {f \in Frames(C, fl) : AlarmsAlone => ~ Masked(f)}

Sound(C, fl)    == C \subseteq Seq(Resting(C, fl))
Runs(s, C, fl)  == s \in Seq(Frames(C, fl)) /\ (s # <<>> => Tail(s) \in Seq(Resting(C, fl)))

Fits(C) ==
    /\ Sound(C, flag)
    /\ stack \in [VMs -> Seq(Frames(C, flag))] /\ \A v \in VMs : Runs(stack[v], C, flag)
    /\ queue \in Seq(Entries(C)) /\ semQ \in Seq(Entries(C)) /\ dependantsQ \in Seq(Entries(C))

----------------------------------------------------------------------------
(* Sequences.                                                              *)

\* A frame on top of others.
LEMMA Pushed ==
    ASSUME NEW X, NEW f \in X, NEW s \in Seq(X)
    PROVE  /\ <<f>> \o s \in Seq(X) /\ <<f>> \o s # <<>>
           /\ Head(<<f>> \o s) = f /\ Tail(<<f>> \o s) = s
<1>1. <<f>> \in Seq(X) /\ Len(<<f>>) = 1 /\ <<f>>[1] = f
  OBVIOUS
<1>2. /\ <<f>> \o s \in Seq(X) /\ Len(<<f>> \o s) = 1 + Len(s) /\ Len(s) \in Nat
      /\ \A i \in 1 .. 1 + Len(s) : (<<f>> \o s)[i] = IF i <= 1 THEN <<f>>[i] ELSE s[i - 1]
  BY <1>1, ConcatProperties, LenProperties
<1>3. <<f>> \o s # <<>>
  BY <1>2, EmptySeq
<1>4. Head(<<f>> \o s) = f
  BY <1>1, <1>2 DEF Head
<1>5. Tail(<<f>> \o s) = s
  <2>1. /\ Tail(<<f>> \o s) \in Seq(X) /\ Len(Tail(<<f>> \o s)) = Len(s)
        /\ \A i \in 1 .. Len(s) : Tail(<<f>> \o s)[i] = (<<f>> \o s)[i + 1]
    BY <1>2, <1>3, HeadTailProperties
  <2>2. \A i \in 1 .. Len(s) : Tail(<<f>> \o s)[i] = s[i]
    BY <1>2, <2>1
  <2> QED BY <2>1, <2>2, SeqEqual
<1> QED BY <1>2, <1>3, <1>4, <1>5

\* What is below the top of a concatenation.
LEMMA Joined ==
    ASSUME NEW X, NEW s \in Seq(X), NEW r \in Seq(X)
    PROVE  s \o r \in Seq(X)
BY ConcatProperties

----------------------------------------------------------------------------
(* Frames.                                                                 *)

\* More continuations, and a raised flag, only allow more.
LEMMA Monotone ==
    ASSUME NEW C, NEW D, C \subseteq D, NEW fl, NEW fm, fl => fm
    PROVE  /\ Entries(C) \subseteq Entries(D)
           /\ Frames(C, fl) \subseteq Frames(D, fm)
           /\ Resting(C, fl) \subseteq Resting(D, fm)
           /\ Seq(Entries(C)) \subseteq Seq(Entries(D))
           /\ Seq(Frames(C, fl)) \subseteq Seq(Frames(D, fm))
           /\ Seq(Resting(C, fl)) \subseteq Seq(Resting(D, fm))
<1>1. Entries(C) \subseteq Entries(D)
  BY DEF Entries
<1>2. Frames(C, fl) \subseteq Frames(D, fm)
  <2>1. ASSUME NEW f \in Frames(C, fl) PROVE f \in Frames(D, fm)
    <3>1. f \in [fn : Functions_, at : Points, who : Procs \cup {Nothing}, n : Nat, next : {Nothing} \cup Entries(D)]
      BY <1>1, <2>1 DEF Frames
    <3>2. /\ f.fn \in {"run", "body", "fill"} => f.who \in Procs
          /\ f.fn = "append" \/ (f.fn = "fill" /\ f.at = "unlock") => fm
      BY <2>1 DEF Frames
    <3> QED BY <3>1, <3>2 DEF Frames
  <2> QED BY <2>1
<1>3. Resting(C, fl) \subseteq Resting(D, fm)
  BY <1>2 DEF Resting
<1> QED BY <1>1, <1>2, <1>3, SeqMonotonic

\* What rests may run, alone or below a frame.
LEMMA RestRuns ==
    ASSUME NEW C, NEW fl, NEW s \in Seq(Resting(C, fl))
    PROVE  /\ Runs(s, C, fl)
           /\ \A f \in Frames(C, fl) : Runs(<<f>> \o s, C, fl)
           /\ \A f \in Resting(C, fl) : <<f>> \o s \in Seq(Resting(C, fl))
<1>1. s \in Seq(Frames(C, fl))
  BY SeqMonotonic DEF Resting
<1>2. Runs(s, C, fl)
  BY <1>1, HeadTailProperties DEF Runs
<1>3. \A f \in Frames(C, fl) : Runs(<<f>> \o s, C, fl)
  BY <1>1, Pushed DEF Runs
<1>4. \A f \in Resting(C, fl) : <<f>> \o s \in Seq(Resting(C, fl))
  BY Pushed
<1> QED BY <1>2, <1>3, <1>4

\* The innermost frame of a machine, and the others.
LEMMA TopAndRest ==
    ASSUME NEW C, Fits(C), NEW v \in VMs, stack[v] # <<>>
    PROVE  /\ Top(v) \in Frames(C, flag) /\ Rest(v) \in Seq(Resting(C, flag))
           /\ AlarmsAlone /\ ~ Masked(Top(v)) => stack[v] \in Seq(Resting(C, flag))
           /\ ~ AlarmsAlone => stack[v] \in Seq(Resting(C, flag))
<1>1. stack[v] \in Seq(Frames(C, flag)) /\ Rest(v) \in Seq(Resting(C, flag))
  BY DEF Fits, Runs, Rest
<1>2. Top(v) \in Frames(C, flag)
  BY <1>1, HeadTailProperties DEF Top
<1>3. ASSUME AlarmsAlone => ~ Masked(Top(v)) PROVE stack[v] \in Seq(Resting(C, flag))
  <2>1. Top(v) \in Resting(C, flag)
    BY <1>2, <1>3 DEF Resting
  <2>2. stack[v] = <<Top(v)>> \o Rest(v)
    <3>1. /\ Len(stack[v]) \in Nat \ {0} /\ Len(Rest(v)) = Len(stack[v]) - 1
          /\ \A i \in 1 .. Len(Rest(v)) : Rest(v)[i] = stack[v][i + 1]
      BY <1>1, EmptySeq, HeadTailProperties DEF Rest
    <3>2. /\ <<Top(v)>> \in Seq(Frames(C, flag)) /\ Len(<<Top(v)>>) = 1 /\ <<Top(v)>>[1] = stack[v][1]
          /\ Rest(v) \in Seq(Frames(C, flag))
      BY <1>1, <1>2, RestRuns DEF Top, Runs
    <3>3. /\ <<Top(v)>> \o Rest(v) \in Seq(Frames(C, flag)) /\ Len(<<Top(v)>> \o Rest(v)) = Len(stack[v])
          /\ \A i \in 1 .. Len(stack[v]) : (<<Top(v)>> \o Rest(v))[i] = stack[v][i]
      BY <3>1, <3>2, ConcatProperties
    <3> QED BY <1>1, <3>3, SeqEqual
  <2> QED BY <1>1, <2>1, <2>2, RestRuns
<1> QED BY <1>1, <1>2, <1>3

\* The continuations of a set with one more.
LEMMA OneMore ==
    ASSUME NEW C, NEW fl, Sound(C, fl), NEW s \in Seq(Resting(C, fl))
    PROVE  Sound(C \cup {s}, fl) /\ C \subseteq C \cup {s} /\ s \in C \cup {s}
BY Monotone DEF Sound

\* The frame goes on to another point.
LEMMA Advance ==
    ASSUME NEW C, NEW fl, NEW f \in Frames(C, fl), NEW a \in Points, f.fn = "fill" /\ a = "unlock" => fl
    PROVE  /\ [f EXCEPT !.at = a] \in Frames(C, fl)
           /\ [f EXCEPT !.at = a].fn = f.fn /\ [f EXCEPT !.at = a].at = a
BY DEF Frames

\* The frame counts one more turn of its loop.
LEMMA Counted ==
    ASSUME NEW C, NEW fl, NEW f \in Frames(C, fl)
    PROVE  [f EXCEPT !.n = @ + 1] \in Frames(C, fl) /\ [f EXCEPT !.n = @ + 1].fn = f.fn
BY DEF Frames

\* A new frame, of a function that takes no process.
LEMMA NewFrame ==
    ASSUME NEW C, NEW fl, NEW fn \in {"pause", "alarm", "start", "signal", "wait", "force", "append"},
           NEW a \in Points, fn = "append" => fl
    PROVE  /\ Frame(fn, a) \in Frames(C, fl)
           /\ a \notin CriticalSections \cup {"acquire", "enable"} => Frame(fn, a) \in Resting(C, fl)
           /\ Frame(fn, a).fn = fn /\ Frame(fn, a).at = a
BY DEF Frame, Frames, Resting, Masked, Functions_, Users, Switchers

\* The frames that a process starts with.
LEMMA ProcessFrames ==
    ASSUME NEW C, NEW fl, NEW p \in Procs
    PROVE  /\ Body(p) \in Resting(C, fl) /\ RunFn(p) \in Resting(C, fl)
           /\ [Frame("fill", "call") EXCEPT !.who = p] \in Resting(C, fl)
           /\ Thunk(p) \in Seq(Resting(C, fl))
<1>1. /\ Body(p) \in Resting(C, fl) /\ RunFn(p) \in Resting(C, fl)
      /\ [Frame("fill", "call") EXCEPT !.who = p] \in Resting(C, fl)
  BY DEF Body, RunFn, Frame, Frames, Resting, Masked, Functions_, Users, Switchers, Points, CriticalSections
<1>2. Frame("start", "disable") \in Resting(C, fl)
  BY NewFrame DEF Points, CriticalSections
<1>3. Thunk(p) \in Seq(Resting(C, fl))
  BY <1>1, <1>2 DEF Thunk
<1> QED BY <1>1, <1>3

----------------------------------------------------------------------------
(* The stacks.                                                             *)

\* A machine goes on with stack s, and new continuations are in D.
LEMMA FitsNext ==
    ASSUME NEW C, Fits(C), NEW v \in VMs, NEW D, C \subseteq D, Sound(D, flag'), flag => flag',
           stack' = [stack EXCEPT ![v] = stack'[v]], Runs(stack'[v], D, flag'),
           queue' \in Seq(Entries(D)), semQ' \in Seq(Entries(D)), dependantsQ' \in Seq(Entries(D))
    PROVE  Fits(D)'
<1>1. \A u \in VMs : Runs(stack[u], D, flag')
  BY Monotone DEF Fits, Runs
<1>2. \A u \in VMs : Runs(stack'[u], D, flag')
  BY <1>1 DEF Fits
<1>3. stack' \in [VMs -> Seq(Frames(D, flag'))]
  BY <1>2 DEF Fits, Runs
<1> QED BY <1>2, <1>3 DEF Fits

\* No continuation is captured, and no queue changes.
LEMMA FitsStill ==
    ASSUME NEW C, Fits(C), NEW v \in VMs, NEW s, Become(v, s), Runs(s, C, flag),
           flag' = flag, queue' = queue, semQ' = semQ, dependantsQ' = dependantsQ
    PROVE  Fits(C)'
<1>1. stack' = [stack EXCEPT ![v] = s] /\ stack'[v] = s
  BY DEF Become, Fits
<1> QED BY <1>1, FitsNext DEF Fits

\* The innermost frame goes on to point a.
LEMMA FitsGoTo ==
    ASSUME NEW C, Fits(C), NEW v \in VMs, stack[v] # <<>>, NEW a \in Points, GoTo(v, a),
           Top(v).fn = "fill" /\ a = "unlock" => flag,
           flag' = flag, queue' = queue, semQ' = semQ, dependantsQ' = dependantsQ
    PROVE  Fits(C)'
<1>1. Top(v) \in Frames(C, flag) /\ Rest(v) \in Seq(Resting(C, flag))
  BY TopAndRest
<1>2. Runs(<<[Top(v) EXCEPT !.at = a]>> \o Rest(v), C, flag)
  BY <1>1, Advance, RestRuns
<1> QED BY <1>2, FitsStill DEF GoTo

Continued == \E C : Fits(C)

\* Each step of acquire-scheduler and release-scheduler.
LEMMA SchedulerSteps ==
    ASSUME NEW C, Fits(C), NEW v \in VMs,
           DisableAlarms(v) \/ AcquireScheduler(v) \/ ReleaseScheduler(v) \/ EnableAlarms(v)
    PROVE  Fits(C)'
<1> USE DEF At, Points, semaphore, future
<1>1. CASE DisableAlarms(v)
  BY <1>1, FitsGoTo DEF DisableAlarms
<1>2. CASE AcquireScheduler(v)
  BY <1>2, FitsGoTo DEF AcquireScheduler
<1>3. CASE ReleaseScheduler(v)
  BY <1>3, FitsGoTo DEF ReleaseScheduler
<1>4. CASE EnableAlarms(v)
  <2>1. CASE Top(v).fn \in Switchers
    BY <1>4, <2>1, FitsGoTo DEF EnableAlarms
  <2>2. CASE Top(v).fn \notin Switchers
    BY <1>4, <2>2, FitsStill, TopAndRest, RestRuns DEF EnableAlarms
  <2> QED BY <2>1, <2>2
<1> QED BY <1>1, <1>2, <1>3, <1>4

\* The frame that has dequeued the next process.
LEMMA Dequeued ==
    ASSUME NEW C, NEW fl, NEW f \in Frames(C, fl), NEW q \in Seq(Entries(C)),
           NEW n, n = IF q = <<>> THEN Nothing ELSE Head(q), f.fn \in Switchers
    PROVE  [f EXCEPT !.at = "release", !.next = n] \in Frames(C, fl)
<1>1. n \in {Nothing} \cup Entries(C)
  BY HeadTailProperties
<1> QED BY <1>1 DEF Frames, Points, Switchers

\* Each step that captures or resumes a continuation.
LEMMA SwitchSteps ==
    ASSUME NEW C, Fits(C), SchedulerAssumption, reg \in [VMs -> Procs], NEW v \in VMs,
           Pause(v) \/ Start(v) \/ Go(v) \/ ProcessRunFn(v)
    PROVE  Continued'
<1> USE DEF At, semaphore, future
<1>1. ASSUME NEW D, C \subseteq D, Sound(D, flag), NEW q \in Seq(Entries(D)), SwitchTo(v, q),
             stack[v] # <<>>, Top(v).fn \in Switchers
      PROVE  Fits(D)'
  <2>1. PICK n : n = IF q = <<>> THEN Nothing ELSE Head(q)
    OBVIOUS
  <2>2. Top(v) \in Frames(D, flag) /\ Rest(v) \in Seq(Resting(D, flag))
    BY <1>1, TopAndRest, Monotone
  <2>3. Runs(<<[Top(v) EXCEPT !.at = "release", !.next = n]>> \o Rest(v), D, flag)
    BY <1>1, <2>1, <2>2, Dequeued, RestRuns
  <2>4. stack' = [stack EXCEPT ![v] = stack'[v]] /\ Runs(stack'[v], D, flag)
    BY <1>1, <2>1, <2>3 DEF SwitchTo, Become, Fits
  <2>5. queue' \in Seq(Entries(D))
    BY <1>1, HeadTailProperties DEF SwitchTo
  <2>6. /\ flag' = flag /\ semQ' \in Seq(Entries(D)) /\ dependantsQ' \in Seq(Entries(D))
    BY <1>1, Monotone DEF SwitchTo, Fits
  <2> QED BY <1>1, <2>4, <2>5, <2>6, FitsNext
<1>2. CASE Pause(v)
  <2>1. stack[v] # <<>> /\ Top(v).fn \in Switchers
    BY <1>2 DEF Pause, Switchers, Top
  <2>2. PICK D : D = C \cup {Rest(v)}
    OBVIOUS
  <2>3. C \subseteq D /\ Sound(D, flag) /\ Rest(v) \in D
    BY <2>1, <2>2, TopAndRest, OneMore DEF Fits
  <2>4. Throw(reg[v], Rest(v)) \in Entries(D)
    BY <2>3 DEF Throw, Entries
  <2>5. Append(queue, Throw(reg[v], Rest(v))) \in Seq(Entries(D))
    BY <2>3, <2>4, Monotone, AppendProperties DEF Fits
  <2>6. Fits(D)'
    BY <1>1, <1>2, <2>1, <2>3, <2>5 DEF Pause
  <2> QED BY <2>6 DEF Continued
<1>3. CASE Start(v)
  <2>1. stack[v] # <<>> /\ Top(v).fn \in Switchers /\ queue \in Seq(Entries(C)) /\ Sound(C, flag)
    BY <1>3 DEF Start, Switchers, Top, Fits
  <2>2. Fits(C)'
    BY <1>1, <1>3, <2>1 DEF Start
  <2> QED BY <2>2 DEF Continued
<1>4. CASE Go(v)
  <2>1. stack[v] # <<>> /\ Top(v) \in Frames(C, flag) /\ Rest(v) \in Seq(Resting(C, flag))
    BY <1>4, TopAndRest DEF Go
  <2>2. Top(v).next # Nothing => Top(v).next.stack \in Seq(Resting(C, flag))
    BY <2>1 DEF Frames, Entries, Fits, Sound
  <2>3. PICK s : s = IF Top(v).next = Nothing THEN Rest(v)
                     ELSE IF Top(v).next.throw THEN Top(v).next.stack ELSE Top(v).next.stack \o Rest(v)
    OBVIOUS
  <2>4. s \in Seq(Resting(C, flag))
    BY <2>1, <2>2, <2>3, Joined
  <2>5. Fits(C)'
    BY <1>4, <2>3, <2>4, RestRuns, FitsStill DEF Go
  <2> QED BY <2>5 DEF Continued
<1>5. CASE ProcessRunFn(v)
  <2>1. stack[v] # <<>> /\ Top(v) \in Frames(C, flag) /\ Rest(v) \in Seq(Resting(C, flag))
    BY <1>5, TopAndRest DEF ProcessRunFn
  <2>2. Top(v).who \in Procs
    BY <1>5, <2>1 DEF ProcessRunFn, Frames, Top
  <2>3. PICK D : D = C \cup {Thunk(Top(v).who)}
    OBVIOUS
  <2>4. C \subseteq D /\ Sound(D, flag) /\ Thunk(Top(v).who) \in D
    <3>1. Thunk(Top(v).who) \in Seq(Resting(C, flag)) /\ Sound(C, flag)
      BY <2>2, ProcessFrames DEF Fits
    <3> QED BY <2>3, <3>1, OneMore
  <2>5. Call(Top(v).who, Thunk(Top(v).who)) \in Entries(D)
    BY <2>2, <2>4 DEF Call, Entries
  <2>6. queue' \in Seq(Entries(D)) /\ semQ' \in Seq(Entries(D)) /\ dependantsQ' \in Seq(Entries(D)) /\ flag' = flag
    BY <1>5, <2>4, <2>5, Monotone, AppendProperties DEF ProcessRunFn, Fits
  <2>7. Runs(<<[Top(v) EXCEPT !.at = "release"]>> \o Rest(v), D, flag)
    <3>1. Top(v) \in Frames(D, flag) /\ Rest(v) \in Seq(Resting(D, flag))
      BY <2>1, <2>4, Monotone
    <3> QED BY <3>1, Advance, RestRuns, ZenonT(30) DEF Points
  <2>8. stack' = [stack EXCEPT ![v] = stack'[v]] /\ Runs(stack'[v], D, flag)
    BY <1>5, <2>7 DEF ProcessRunFn, GoTo, Become, Fits
  <2>9. Fits(D)'
    BY <2>4, <2>6, <2>8, FitsNext
  <2> QED BY <2>9 DEF Continued
<1> QED BY <1>2, <1>3, <1>4, <1>5

\* Alarms come only when no frame on top is masked.
LEMMA AlarmSteps ==
    ASSUME NEW C, Fits(C), NEW v \in VMs, Alarm(v) \/ AcquireMutex(v) \/ Tick(v),
           AlarmsAlone /\ alarms /\ stack[v] # <<>> => ~ Masked(Top(v))
    PROVE  Fits(C)'
<1> USE DEF At, semaphore, future
<1>1. CASE Alarm(v)
  <2>1. stack[v] \in Seq(Resting(C, flag))
    BY <1>1, TopAndRest DEF Alarm
  <2>2. Runs(<<Frame("alarm", "disable")>> \o stack[v], C, flag)
    BY <2>1, NewFrame, RestRuns DEF Points
  <2> QED BY <1>1, <2>2, FitsStill DEF Alarm
<1>2. CASE AcquireMutex(v)
  BY <1>2, FitsGoTo DEF AcquireMutex, Points
<1>3. CASE Tick(v)
  BY <1>3 DEF Tick, Fits
<1> QED BY <1>1, <1>2, <1>3

\* A frame of a function that never takes the scheduler rests wherever it is.
LEMMA Unmaskable ==
    ASSUME NEW C, NEW fl, NEW f \in Frames(C, fl), f.fn \in {"wait", "force", "body", "fill"}
    PROVE  f \in Resting(C, fl)
BY DEF Resting, Masked, Users, Switchers

\* What a process that waits or forces goes back to.
LEMMA ReturnRests ==
    ASSUME NEW C, Fits(C), NEW v \in VMs, stack[v] # <<>>, Top(v).fn \in {"wait", "force"}
    PROVE  Returned(v) \in Seq(Resting(C, flag)) /\ Rest(v) \in Seq(Resting(C, flag))
<1>1. Top(v) \in Frames(C, flag) /\ Rest(v) \in Seq(Resting(C, flag))
  BY TopAndRest
<1>2. "return" \in Points /\ ~ (Top(v).fn = "fill" /\ "return" = "unlock")
  BY DEF Points
<1>3. [Top(v) EXCEPT !.at = "return"] \in Frames(C, flag) /\ [Top(v) EXCEPT !.at = "return"].fn = Top(v).fn
  BY <1>1, <1>2, Advance
<1>4. [Top(v) EXCEPT !.at = "return"] \in Resting(C, flag)
  BY <1>3, Unmaskable
<1> QED BY <1>1, <1>4, RestRuns DEF Returned

\* Each step of wait and of signal.
LEMMA SemaphoreSteps ==
    ASSUME NEW C, Fits(C), reg \in [VMs -> Procs], NEW v \in VMs,
           Wait(v) \/ ReleaseWait(v) \/ Block(v) \/ WaitReturns(v) \/ Signal(v) \/ ReleaseSignal(v),
           Len(semQ) = IF value < 0 THEN -value ELSE 0, value \in Int
    PROVE  Continued'
<1> USE DEF At, semaphore, future
<1>1. ASSUME stack[v] # <<>>, Top(v).fn = "wait"
      PROVE  Returned(v) \in Seq(Resting(C, flag)) /\ Rest(v) \in Seq(Resting(C, flag))
  BY <1>1, ReturnRests
<1>2. CASE Wait(v)
  <2>1. stack[v] # <<>> /\ Top(v).fn = "wait" /\ Top(v) \in Frames(C, flag)
    BY <1>2, TopAndRest DEF Wait, Top
  <2>2. PICK D : D = C \cup {Returned(v)}
    OBVIOUS
  <2>3. C \subseteq D /\ Sound(D, flag) /\ Returned(v) \in D
    BY <1>1, <2>1, <2>2, OneMore DEF Fits
  <2>4. Throw(reg[v], Returned(v)) \in Entries(D)
    BY <2>3 DEF Throw, Entries
  <2>5. queue' \in Seq(Entries(D)) /\ semQ' \in Seq(Entries(D)) /\ dependantsQ' \in Seq(Entries(D)) /\ flag' = flag
    <3>1. queue \in Seq(Entries(D)) /\ semQ \in Seq(Entries(D)) /\ dependantsQ \in Seq(Entries(D))
      BY <2>3, Monotone DEF Fits
    <3>2. Append(semQ, Throw(reg[v], Returned(v))) \in Seq(Entries(D))
      BY <2>4, <3>1, AppendProperties
    <3> QED BY <1>2, <3>1, <3>2 DEF Wait
  <2>6. PICK a \in {"block", "unlock"} : GoTo(v, a)
    BY <1>2 DEF Wait
  <2>7. Runs(<<[Top(v) EXCEPT !.at = a]>> \o Rest(v), D, flag)
    <3>1. Top(v) \in Frames(D, flag) /\ Rest(v) \in Seq(Resting(D, flag))
      BY <1>1, <2>1, <2>3, Monotone
    <3>2. [Top(v) EXCEPT !.at = a] \in Frames(D, flag)
      BY <2>1, <3>1, Advance, ZenonT(30) DEF Points
    <3> QED BY <3>1, <3>2, RestRuns
  <2>8. stack' = [stack EXCEPT ![v] = stack'[v]] /\ Runs(stack'[v], D, flag)
    BY <2>6, <2>7 DEF GoTo, Become, Fits
  <2>9. Fits(D)'
    BY <2>3, <2>5, <2>8, FitsNext
  <2> QED BY <2>9 DEF Continued
<1>3. CASE ReleaseWait(v)
  <2>1. Runs(Returned(v), C, flag)
    BY <1>1, <1>3, RestRuns DEF ReleaseWait, Top
  <2>2. Fits(C)'
    BY <1>3, <2>1, FitsStill DEF ReleaseWait, ReleaseMutex
  <2> QED BY <2>2 DEF Continued
<1>4. CASE Block(v)
  <2>1. Runs(<<Frame("start", "disable")>> \o Returned(v), C, flag)
    BY <1>1, <1>4, NewFrame, RestRuns DEF Block, Top, Points
  <2>2. Fits(C)'
    BY <1>4, <2>1, FitsStill DEF Block, ReleaseMutex
  <2> QED BY <2>2 DEF Continued
<1>5. CASE WaitReturns(v)
  <2>1. Runs(Rest(v), C, flag)
    BY <1>1, <1>5, RestRuns DEF WaitReturns, Top
  <2>2. Fits(C)'
    BY <1>5, <2>1, FitsStill DEF WaitReturns
  <2> QED BY <2>2 DEF Continued
<1>6. CASE Signal(v)
  <2>1. stack[v] # <<>> /\ Top(v).fn = "signal" /\ GoTo(v, "unlock")
    BY <1>6 DEF Signal, Top
  <2>2. /\ queue' \in Seq(Entries(C)) /\ semQ' \in Seq(Entries(C)) /\ dependantsQ' \in Seq(Entries(C))
        /\ flag' = flag
    <3>1. CASE value' <= 0
      <4>1. value' = value + 1 /\ Len(semQ) # 0 /\ semQ \in Seq(Entries(C))
        BY <1>6, <3>1 DEF Signal, Fits
      <4>2. semQ # <<>>
        BY <4>1
      <4>3. Head(semQ) \in Entries(C) /\ Tail(semQ) \in Seq(Entries(C))
        BY <4>1, <4>2, HeadTailProperties
      <4>4. Append(queue, Head(semQ)) \in Seq(Entries(C))
        BY <4>3, AppendProperties DEF Fits
      <4>5. queue' = Append(queue, Head(semQ)) /\ semQ' = Tail(semQ) /\ dependantsQ' = dependantsQ /\ flag' = flag
        BY <1>6, <3>1 DEF Signal
      <4> QED BY <4>3, <4>4, <4>5 DEF Fits
    <3>2. CASE ~ (value' <= 0)
      BY <1>6, <3>2 DEF Signal, Fits
    <3> QED BY <3>1, <3>2
  <2>3. Runs(<<[Top(v) EXCEPT !.at = "unlock"]>> \o Rest(v), C, flag)
    <3>1. Top(v) \in Frames(C, flag) /\ Rest(v) \in Seq(Resting(C, flag))
      BY <2>1, TopAndRest
    <3>2. [Top(v) EXCEPT !.at = "unlock"] \in Frames(C, flag)
      BY <2>1, <3>1, Advance, ZenonT(30) DEF Points
    <3> QED BY <3>1, <3>2, RestRuns
  <2>4. stack' = [stack EXCEPT ![v] = stack'[v]] /\ Runs(stack'[v], C, flag)
    BY <2>1, <2>3 DEF GoTo, Become, Fits
  <2>5. Fits(C)'
    BY <2>2, <2>4, FitsNext DEF Fits
  <2> QED BY <2>5 DEF Continued
<1>7. CASE ReleaseSignal(v)
  <2>1. Runs(<<[Top(v) EXCEPT !.at = "release"]>> \o Rest(v), C, flag)
    <3>1. stack[v] # <<>> /\ Top(v).fn = "signal"
      BY <1>7 DEF ReleaseSignal, Top
    <3>2. Top(v) \in Frames(C, flag) /\ Rest(v) \in Seq(Resting(C, flag))
      BY <3>1, TopAndRest
    <3>3. [Top(v) EXCEPT !.at = "release"] \in Frames(C, flag)
      BY <3>2, Advance, ZenonT(30) DEF Points
    <3> QED BY <3>2, <3>3, RestRuns
  <2>2. Fits(C)'
    BY <1>7, <2>1, FitsStill DEF ReleaseSignal, ReleaseMutex
  <2> QED BY <2>2 DEF Continued
<1> QED BY <1>2, <1>3, <1>4, <1>5, <1>6, <1>7

\* Each step of a process that forces the future.
LEMMA ForceSteps ==
    ASSUME NEW C, Fits(C), SchedulerAssumption, reg \in [VMs -> Procs], NEW v \in VMs,
           Drain(v) \/ TestFlag(v) \/ ForceReturns(v) \/ ReleaseForce(v) \/ Claim(v) \/ ForceFallsThrough(v)
    PROVE  Continued'
<1>1. stack[v] # <<>> /\ Top(v).fn = "force"
  BY DEF At, Top, Drain, TestFlag, ForceReturns, ReleaseForce, Claim, ForceFallsThrough
<1>2. Top(v) \in Frames(C, flag) /\ Rest(v) \in Seq(Resting(C, flag)) /\ Returned(v) \in Seq(Resting(C, flag))
  BY <1>1, TopAndRest, ReturnRests
<1>3. CASE Drain(v)
  <2>1. CASE GoTo(v, "acquire")
    <3>1. Fits(C)'
      BY <1>1, <1>3, <2>1, FitsGoTo DEF Drain, Points, semaphore, future
    <3> QED BY <3>1 DEF Continued
  <2>2. CASE Become(v, <<Frame("pause", "disable"), [Top(v) EXCEPT !.n = @ + 1]>> \o Rest(v))
    <3>1. [Top(v) EXCEPT !.n = @ + 1] \in Frames(C, flag) /\ [Top(v) EXCEPT !.n = @ + 1].fn = "force"
      BY <1>1, <1>2, Counted
    <3>2. [Top(v) EXCEPT !.n = @ + 1] \in Resting(C, flag)
      BY <3>1, Unmaskable
    <3>3. Frame("pause", "disable") \in Resting(C, flag)
      BY NewFrame DEF Points, CriticalSections
    <3>4. <<Frame("pause", "disable"), [Top(v) EXCEPT !.n = @ + 1]>> \in Seq(Resting(C, flag))
      BY <3>2, <3>3
    <3>5. Runs(<<Frame("pause", "disable"), [Top(v) EXCEPT !.n = @ + 1]>> \o Rest(v), C, flag)
      BY <1>2, <3>4, Joined, RestRuns
    <3>6. Fits(C)'
      BY <1>3, <2>2, <3>5, FitsStill DEF Drain, semaphore, future
    <3> QED BY <3>6 DEF Continued
  <2> QED BY <1>3, <2>1, <2>2 DEF Drain
<1>4. CASE TestFlag(v)
  <2>1. CASE flag
    <3>1. Fits(C)'
      BY <1>1, <1>4, <2>1, FitsGoTo DEF TestFlag, Points, semaphore
    <3> QED BY <3>1 DEF Continued
  <2>2. CASE ~ flag
    <3>1. PICK E : E = C \cup {Rest(v)}
      OBVIOUS
    <3>2. C \subseteq E /\ Sound(E, flag) /\ Rest(v) \in E
      BY <1>2, <3>1, OneMore DEF Fits
    <3>3. Throw(reg[v], Rest(v)) \in Entries(E)
      BY <3>2 DEF Throw, Entries
    <3>4. [Frame("force", "drain") EXCEPT !.who = Top(v).who] \in Resting(E, flag)
      <4>1. Top(v).who \in Procs \cup {Nothing}
        BY <1>2 DEF Frames
      <4> QED BY <4>1 DEF Frame, Frames, Resting, Masked, Functions_, Points, Users, Switchers
    <3>5. [Frame("start", "go") EXCEPT !.next = Throw(reg[v], Rest(v))] \in Resting(E, flag)
      BY <3>3 DEF Frame, Frames, Resting, Masked, Functions_, Points, Users, Switchers, CriticalSections
    <3>6. PICK s : s = Suspended(v).stack
      OBVIOUS
    <3>7. s \in Seq(Resting(E, flag)) /\ Suspended(v) = Call(reg[v], s)
      BY <3>4, <3>5, <3>6 DEF Suspended, Call
    <3>8. PICK D : D = E \cup {s}
      OBVIOUS
    <3>9. C \subseteq D /\ Sound(D, flag) /\ s \in D
      BY <3>2, <3>7, <3>8, OneMore
    <3>10. Suspended(v) \in Entries(D)
      BY <3>7, <3>9 DEF Call, Entries
    <3>11. queue \in Seq(Entries(D)) /\ semQ \in Seq(Entries(D)) /\ dependantsQ \in Seq(Entries(D))
      BY <3>9, Monotone DEF Fits
    <3>12. queue' \in Seq(Entries(D)) /\ semQ' \in Seq(Entries(D)) /\ flag' = flag
      BY <1>4, <3>11 DEF TestFlag, semaphore
    <3>13. dependantsQ' \in Seq(Entries(D))
      <4>1. Append(dependantsQ, Suspended(v)) \in Seq(Entries(D))
        BY <3>10, <3>11, AppendProperties
      <4> QED BY <1>4, <2>2, <4>1 DEF TestFlag
    <3>14. Top(v) \in Frames(D, flag) /\ Rest(v) \in Seq(Resting(D, flag))
      BY <1>2, <3>9, Monotone
    <3>15. [Top(v) EXCEPT !.at = "unlock"] \in Frames(D, flag)
      BY <1>1, <3>14, Advance, ZenonT(30) DEF Points
    <3>16. Runs(<<[Top(v) EXCEPT !.at = "unlock"]>> \o Rest(v), D, flag)
      BY <3>14, <3>15, RestRuns
    <3>17. stack' = [stack EXCEPT ![v] = stack'[v]] /\ Runs(stack'[v], D, flag)
      BY <1>4, <2>2, <3>16 DEF TestFlag, GoTo, Become, Fits
    <3>18. Fits(D)'
      BY <3>9, <3>12, <3>13, <3>17, FitsNext
    <3> QED BY <3>18 DEF Continued
  <2> QED BY <2>1, <2>2
<1>5. CASE ForceReturns(v) \/ ForceFallsThrough(v)
  <2>1. Runs(Rest(v), C, flag)
    BY <1>2, RestRuns
  <2>2. Fits(C)'
    BY <1>5, <2>1, FitsStill DEF ForceReturns, ForceFallsThrough, ReleaseMutex, semaphore, future
  <2> QED BY <2>2 DEF Continued
<1>6. CASE ReleaseForce(v)
  <2>1. GoTo(v, "claim")
    BY <1>6 DEF ReleaseForce, ReleaseMutex, GoTo
  <2>2. Fits(C)'
    BY <1>1, <1>6, <2>1, FitsGoTo DEF ReleaseForce, ReleaseMutex, Points, semaphore, future
  <2> QED BY <2>2 DEF Continued
<1>7. CASE Claim(v)
  <2>1. PICK s : s = (IF scheduled THEN <<>> ELSE <<RunFn(Filler)>>) \o <<Frame("start", "disable")>> \o Returned(v)
    OBVIOUS
  <2>2. RunFn(Filler) \in Resting(C, flag) /\ Frame("start", "disable") \in Resting(C, flag)
    <3>1. Filler \in Procs
      BY DEF SchedulerAssumption
    <3>2. "disable" \in Points \ (CriticalSections \cup {"acquire", "enable"})
      BY DEF Points, CriticalSections
    <3> QED BY <3>1, <3>2, ProcessFrames, NewFrame
  <2>3. <<RunFn(Filler)>> \in Seq(Resting(C, flag)) /\ <<Frame("start", "disable")>> \in Seq(Resting(C, flag))
    BY <2>2
  <2>4. (IF scheduled THEN <<>> ELSE <<RunFn(Filler)>>) \in Seq(Resting(C, flag))
    BY <2>3
  <2>5. s \in Seq(Resting(C, flag))
    BY <1>2, <2>1, <2>3, <2>4, Joined
  <2>6. Runs(s, C, flag)
    BY <2>5, RestRuns
  <2>7. Become(v, s)
    BY <1>7, <2>1 DEF Claim
  <2>8. Fits(C)'
    BY <1>7, <2>6, <2>7, FitsStill DEF Claim, semaphore
  <2> QED BY <2>8 DEF Continued
<1> QED BY <1>3, <1>4, <1>5, <1>6, <1>7

\* Each step of the process that computes the future.
LEMMA FillSteps ==
    ASSUME NEW C, Fits(C), NEW v \in VMs,
           ComputeValue(v) \/ SetValue(v) \/ ReleaseValue(v) \/ AppendDependants(v)
    PROVE  Fits(C)'
<1>1. stack[v] # <<>>
  BY DEF At, ComputeValue, SetValue, ReleaseValue, AppendDependants
<1>2. Top(v) \in Frames(C, flag) /\ Rest(v) \in Seq(Resting(C, flag))
  BY <1>1, TopAndRest
<1>3. CASE ComputeValue(v)
  BY <1>1, <1>3, FitsGoTo DEF ComputeValue, Points, semaphore, future
<1>4. CASE SetValue(v)
  <2>1. Sound(C, TRUE) /\ Top(v) \in Frames(C, TRUE) /\ Rest(v) \in Seq(Resting(C, TRUE))
    BY <1>2, Monotone DEF Fits, Sound
  <2>2. Runs(<<[Top(v) EXCEPT !.at = "unlock"]>> \o Rest(v), C, TRUE)
    BY <2>1, Advance, RestRuns, ZenonT(30) DEF Points
  <2>3. stack' = [stack EXCEPT ![v] = stack'[v]] /\ Runs(stack'[v], C, TRUE)
    BY <1>4, <2>2 DEF SetValue, GoTo, Become, Fits
  <2>4. queue' \in Seq(Entries(C)) /\ semQ' \in Seq(Entries(C)) /\ dependantsQ' \in Seq(Entries(C)) /\ flag' = TRUE
    BY <1>4 DEF SetValue, semaphore, Fits
  <2> QED BY <2>1, <2>3, <2>4, FitsNext
<1>5. CASE ReleaseValue(v)
  <2>1. Top(v).fn = "fill" /\ Top(v).at = "unlock"
    BY <1>5 DEF ReleaseValue, At, Top
  <2>2. flag
    BY <1>2, <2>1 DEF Frames
  <2>3. Runs(<<Frame("append", "disable")>> \o Rest(v), C, flag)
    <3>1. Frame("append", "disable") \in Frames(C, flag)
      BY <2>2 DEF Frame, Frames, Functions_, Points, Users
    <3> QED BY <1>2, <3>1, RestRuns
  <2> QED BY <1>5, <2>3, FitsStill DEF ReleaseValue, ReleaseMutex, semaphore, future
<1>6. CASE AppendDependants(v)
  <2>1. queue \o dependantsQ \in Seq(Entries(C))
    BY Joined DEF Fits
  <2>2. queue' \in Seq(Entries(C)) /\ semQ' \in Seq(Entries(C)) /\ dependantsQ' \in Seq(Entries(C)) /\ flag' = flag
    BY <1>6, <2>1 DEF AppendDependants, semaphore, future, Fits
  <2>3. ~ (Top(v).fn = "fill" /\ "release" = "unlock") /\ "release" \in Points
    BY DEF Points
  <2>4. Runs(<<[Top(v) EXCEPT !.at = "release"]>> \o Rest(v), C, flag)
    BY <1>2, <2>3, Advance, RestRuns
  <2>5. stack' = [stack EXCEPT ![v] = stack'[v]] /\ Runs(stack'[v], C, flag)
    BY <1>6, <2>4 DEF AppendDependants, GoTo, Become, Fits
  <2> QED BY <2>2, <2>5, FitsNext DEF Fits
<1> QED BY <1>3, <1>4, <1>5, <1>6

\* Each step of the user's program.
LEMMA ProgramSteps ==
    ASSUME NEW C, Fits(C), SchedulerAssumption, world \in Worlds, unborn \subseteq Procs, NEW v \in VMs,
           Perform(v) \/ Finish(v)
    PROVE  Fits(C)'
<1>1. stack[v] # <<>> /\ Top(v).fn \in {"body", "fill"}
  BY DEF At, Top, Perform, Finish
<1>2. Top(v) \in Frames(C, flag) /\ Rest(v) \in Seq(Resting(C, flag)) /\ Top(v).who \in Procs
  BY <1>1, TopAndRest DEF Frames
<1>3. stack[v] \in Seq(Resting(C, flag))
  BY <1>1, <1>2, TopAndRest DEF Masked, Users, Switchers
<1>4. CASE Perform(v)
  <2>1. UNCHANGED <<flag, queue, semQ, dependantsQ>>
    BY <1>4 DEF Perform, semaphore, future
  <2>2. ASSUME NEW op \in world.calls[Top(v).who] \ {"run"}, Become(v, <<CallFrame(op)>> \o stack[v])
        PROVE  Fits(C)'
    <3>1. op \in {"wait", "signal", "force"}
      BY <1>2 DEF SchedulerAssumption, Operations
    <3>2. \/ CallFrame(op) = Frame("wait", "acquire") \/ CallFrame(op) = Frame("signal", "disable")
          \/ CallFrame(op) = Frame("force", "drain")
      BY <3>1 DEF CallFrame
    <3>3. CallFrame(op) \in Frames(C, flag)
      BY <3>2, NewFrame DEF Points
    <3>4. Runs(<<CallFrame(op)>> \o stack[v], C, flag)
      BY <1>3, <3>3, RestRuns
    <3> QED BY <2>1, <2>2, <3>4, FitsStill
  <2>3. ASSUME NEW q \in unborn, Become(v, <<RunFn(q)>> \o stack[v])
        PROVE  Fits(C)'
    <3>1. RunFn(q) \in Resting(C, flag)
      BY ProcessFrames
    <3>2. Runs(<<RunFn(q)>> \o stack[v], C, flag)
      BY <1>3, <3>1, RestRuns DEF Resting
    <3> QED BY <2>1, <2>3, <3>2, FitsStill
  <2> QED BY <1>4, <2>2, <2>3 DEF Perform
<1>5. CASE Finish(v)
  <2>1. Runs(<<Frame("pause", "disable")>> \o stack[v], C, flag) /\ Runs(Rest(v), C, flag)
    BY <1>2, <1>3, NewFrame, RestRuns DEF Points
  <2>2. UNCHANGED <<flag, queue, semQ, dependantsQ>>
    BY <1>5 DEF Finish, semaphore, future
  <2>3. Become(v, <<Frame("pause", "disable")>> \o stack[v]) \/ Become(v, Rest(v))
    BY <1>5 DEF Finish
  <2> QED BY <2>1, <2>2, <2>3, FitsStill
<1> QED BY <1>4, <1>5

----------------------------------------------------------------------------
(* The other variables.                                                    *)

Logs == [signals : Int, passed : Int, filled : Int, forced : SUBSET {"value", "nothing"}, delivered : BOOLEAN]

Base ==
    /\ world \in Worlds /\ reg \in [VMs -> Procs] /\ unborn \subseteq Procs
    /\ calls \in [Procs -> Nat] /\ \A p \in Procs : calls[p] <= MaxCalls[p]
    /\ locked \subseteq {"scheduler", "semaphore", "future"}
    /\ alarms \in BOOLEAN /\ expired \in BOOLEAN
    /\ value \in Int /\ flag \in BOOLEAN /\ scheduled \in BOOLEAN
    /\ log \in Logs

\* The balance of the semaphore holds in the middle of its operations too.
Balanced == Len(semQ) = IF value < 0 THEN -value ELSE 0

\* The dependants are given to the scheduler once there is a value for them.
Answered == log.delivered => flag

\* Alarms are of a build with a timer, and machines that were not started do nothing.
Clocked ==
    /\ alarms => world.timer
    /\ \A v \in VMs : v \notin world.machines => stack[v] = <<>>

\* No step takes the other variables out of their types.
LEMMA BaseSteps ==
    ASSUME NEW C, Fits(C), SchedulerAssumption, Base, NEW v \in VMs, Step(v) \/ Tick(v)
    PROVE  Base'
<1> USE DEF Base, clock, semaphore, future, program
<1>0. /\ [log EXCEPT !.passed = @ + 1] \in Logs /\ [log EXCEPT !.signals = @ + 1] \in Logs
      /\ [log EXCEPT !.forced = @ \cup {"value"}] \in Logs /\ [log EXCEPT !.forced = @ \cup {"nothing"}] \in Logs
      /\ [log EXCEPT !.filled = @ + 1] \in Logs /\ [log EXCEPT !.delivered = TRUE] \in Logs
  <2>1. ASSUME NEW l \in Logs
        PROVE  /\ [l EXCEPT !.passed = @ + 1] \in Logs /\ [l EXCEPT !.signals = @ + 1] \in Logs
               /\ [l EXCEPT !.filled = @ + 1] \in Logs /\ [l EXCEPT !.delivered = TRUE] \in Logs
    <3>1. l.passed + 1 \in Int /\ l.signals + 1 \in Int /\ l.filled + 1 \in Int /\ TRUE \in BOOLEAN
      BY <2>1 DEF Logs
    <3>2. [l EXCEPT !.passed = l.passed + 1] \in Logs
      BY <2>1, <3>1 DEF Logs
    <3>3. [l EXCEPT !.signals = l.signals + 1] \in Logs
      BY <2>1, <3>1 DEF Logs
    <3>4. [l EXCEPT !.filled = l.filled + 1] \in Logs
      BY <2>1, <3>1 DEF Logs
    <3>5. [l EXCEPT !.delivered = TRUE] \in Logs
      BY <2>1, <3>1 DEF Logs
    <3> QED BY <3>2, <3>3, <3>4, <3>5
  <2>2. ASSUME NEW l \in Logs, NEW x \in {"value", "nothing"}
        PROVE  [l EXCEPT !.forced = @ \cup {x}] \in Logs
    BY <2>2 DEF Logs
  <2> QED BY <2>1, <2>2
<1>1. ASSUME NEW q, q # <<>> => Head(q).proc \in Procs, SwitchTo(v, q) PROVE Base'
  BY <1>1 DEF SwitchTo
<1>2. CASE Pause(v)
  <2>1. queue \in Seq([proc : Procs, throw : BOOLEAN, stack : C])
    BY DEF Fits, Entries
  <2>2. Append(queue, Throw(reg[v], Rest(v))) \in Seq([proc : Procs, throw : BOOLEAN, stack : C \cup {Rest(v)}])
    <3>1. queue \in Seq([proc : Procs, throw : BOOLEAN, stack : C \cup {Rest(v)}])
      BY <2>1, SeqMonotonic
    <3> QED BY <3>1, AppendProperties DEF Throw
  <2>3. Append(queue, Throw(reg[v], Rest(v))) # <<>> => Head(Append(queue, Throw(reg[v], Rest(v)))).proc \in Procs
    <3>1. ASSUME NEW q \in Seq([proc : Procs, throw : BOOLEAN, stack : C \cup {Rest(v)}]), q # <<>>
          PROVE  Head(q).proc \in Procs
      <4>1. Head(q) \in [proc : Procs, throw : BOOLEAN, stack : C \cup {Rest(v)}]
        BY <3>1, HeadTailProperties
      <4> QED BY <4>1
    <3> QED BY <2>2, <3>1
  <2> QED BY <1>1, <1>2, <2>3 DEF Pause
<1>3. CASE Start(v)
  <2>1. queue # <<>> => Head(queue).proc \in Procs
    <3>1. queue # <<>> => Head(queue) \in Entries(C)
      BY HeadTailProperties DEF Fits
    <3> QED BY <3>1 DEF Entries
  <2> QED BY <1>1, <1>3, <2>1 DEF Start
<1>4. CASE Perform(v)
  <2>1. stack[v] # <<>> /\ Top(v).fn \in {"body", "fill"}
    BY <1>4 DEF Perform, At, Top
  <2>2. Top(v).who \in Procs
    BY <2>1, TopAndRest DEF Frames
  <2>3. MaxCalls[Top(v).who] \in Nat
    BY <2>2 DEF SchedulerAssumption
  <2>4. calls' \in [Procs -> Nat] /\ \A p \in Procs : calls'[p] <= MaxCalls[p]
    BY <1>4, <2>2, <2>3 DEF Perform
  <2>5. unborn' \subseteq Procs
    BY <1>4 DEF Perform
  <2> QED BY <1>4, <2>4, <2>5 DEF Perform
<1>5. CASE DisableAlarms(v) \/ AcquireScheduler(v) \/ ReleaseScheduler(v) \/ EnableAlarms(v) \/ Go(v) \/ ProcessRunFn(v)
  <2>1. world.timer \in BOOLEAN
    BY DEF SchedulerAssumption
  <2> QED BY <1>5, <2>1 DEF DisableAlarms, AcquireScheduler, ReleaseScheduler, EnableAlarms, Go, ProcessRunFn
<1>6. CASE Alarm(v) \/ Tick(v) \/ AcquireMutex(v)
  BY <1>6 DEF Alarm, Tick, AcquireMutex, Mutex
<1>7. CASE Wait(v) \/ ReleaseWait(v) \/ Block(v) \/ WaitReturns(v) \/ Signal(v) \/ ReleaseSignal(v)
  <2>1. CASE Wait(v)
    BY <2>1 DEF Wait
  <2>2. CASE Signal(v)
    BY <1>0, <2>2, SMTT(30) DEF Signal
  <2>3. CASE ReleaseWait(v) \/ Block(v) \/ WaitReturns(v) \/ ReleaseSignal(v)
    BY <1>0, <2>3 DEF ReleaseWait, Block, WaitReturns, ReleaseSignal, ReleaseMutex
  <2> QED BY <1>7, <2>1, <2>2, <2>3
<1>8. CASE Drain(v) \/ TestFlag(v) \/ ForceReturns(v) \/ ReleaseForce(v) \/ Claim(v) \/ ForceFallsThrough(v)
  BY <1>0, <1>8 DEF Drain, TestFlag, ForceReturns, ReleaseForce, Claim, ForceFallsThrough, ReleaseMutex
<1>9. CASE ComputeValue(v) \/ SetValue(v) \/ ReleaseValue(v) \/ AppendDependants(v) \/ Finish(v)
  BY <1>0, <1>9 DEF ComputeValue, SetValue, ReleaseValue, AppendDependants, Finish, ReleaseMutex
<1> QED BY <1>2, <1>3, <1>4, <1>5, <1>6, <1>7, <1>8, <1>9 DEF Step

\* Wait and signal keep the queue as long as the value is below zero.
LEMMA BalanceSteps ==
    ASSUME NEW C, Fits(C), Base, Balanced, NEW v \in VMs, Step(v) \/ Tick(v)
    PROVE  Balanced'
<1> USE DEF Balanced, semaphore
<1>1. semQ \in Seq(Entries(C)) /\ value \in Int
  BY DEF Fits, Base
<1>2. CASE Wait(v)
  BY <1>1, <1>2, AppendProperties DEF Wait, Throw
<1>3. CASE Signal(v)
  <2>1. CASE value' <= 0
    <3>1. Len(semQ) # 0
      BY <1>1, <1>3, <2>1 DEF Signal
    <3>2. Len(Tail(semQ)) = Len(semQ) - 1
      BY <1>1, <3>1, HeadTailProperties
    <3> QED BY <1>1, <1>3, <2>1, <3>2 DEF Signal
  <2>2. CASE ~ (value' <= 0)
    BY <1>1, <1>3, <2>2 DEF Signal
  <2> QED BY <2>1, <2>2
<1>4. CASE UNCHANGED semaphore
  BY <1>4
<1>5. CASE DisableAlarms(v) \/ AcquireScheduler(v) \/ ReleaseScheduler(v) \/ EnableAlarms(v)
           \/ Pause(v) \/ Start(v) \/ Go(v) \/ ProcessRunFn(v) \/ Alarm(v) \/ Tick(v) \/ AcquireMutex(v)
  BY <1>4, <1>5 DEF DisableAlarms, AcquireScheduler, ReleaseScheduler, EnableAlarms, Pause, Start, SwitchTo,
                    Go, ProcessRunFn, Alarm, Tick, AcquireMutex
<1>6. CASE ReleaseWait(v) \/ Block(v) \/ WaitReturns(v) \/ ReleaseSignal(v) \/ Drain(v) \/ TestFlag(v)
           \/ ForceReturns(v) \/ ReleaseForce(v) \/ Claim(v) \/ ForceFallsThrough(v)
  BY <1>4, <1>6 DEF ReleaseWait, Block, WaitReturns, ReleaseSignal, ReleaseMutex, Drain, TestFlag,
                    ForceReturns, ReleaseForce, Claim, ForceFallsThrough
<1>7. CASE ComputeValue(v) \/ SetValue(v) \/ ReleaseValue(v) \/ AppendDependants(v) \/ Perform(v) \/ Finish(v)
  BY <1>4, <1>7 DEF ComputeValue, SetValue, ReleaseValue, AppendDependants, ReleaseMutex, Perform, Finish
<1> QED BY <1>2, <1>3, <1>5, <1>6, <1>7 DEF Step

\* The flag stays up, and only a process that found it up gives the dependants away.
LEMMA AnswerSteps ==
    ASSUME NEW C, Fits(C), Base, Answered, NEW v \in VMs, Step(v) \/ Tick(v)
    PROVE  Answered' /\ (flag => dependantsQ' = dependantsQ)
<1> USE DEF Answered, future
<1>1. log \in Logs /\ flag \in BOOLEAN
  BY DEF Base
<1>2. CASE AppendDependants(v)
  <2>1. stack[v] # <<>> /\ Top(v).fn = "append"
    BY <1>2 DEF AppendDependants, At, Top
  <2>2. flag
    BY <2>1, TopAndRest DEF Frames
  <2> QED BY <1>2, <2>2 DEF AppendDependants
<1>3. CASE WaitReturns(v) \/ Signal(v) \/ ForceReturns(v) \/ ForceFallsThrough(v) \/ ComputeValue(v)
  BY <1>1, <1>3 DEF WaitReturns, Signal, ForceReturns, ForceFallsThrough, ComputeValue, ReleaseMutex, Logs
<1>4. CASE UNCHANGED log /\ (flag => flag' /\ dependantsQ' = dependantsQ)
  BY <1>4
<1>5. CASE DisableAlarms(v) \/ AcquireScheduler(v) \/ ReleaseScheduler(v) \/ EnableAlarms(v)
           \/ Pause(v) \/ Start(v) \/ Go(v) \/ ProcessRunFn(v) \/ Alarm(v) \/ Tick(v) \/ AcquireMutex(v)
  BY <1>4, <1>5 DEF DisableAlarms, AcquireScheduler, ReleaseScheduler, EnableAlarms, Pause, Start, SwitchTo,
                    Go, ProcessRunFn, Alarm, Tick, AcquireMutex
<1>6. CASE Wait(v) \/ ReleaseWait(v) \/ Block(v) \/ ReleaseSignal(v) \/ Drain(v) \/ ReleaseForce(v) \/ Claim(v)
  BY <1>4, <1>6 DEF Wait, ReleaseWait, Block, ReleaseSignal, ReleaseMutex, Drain, ReleaseForce, Claim
<1>7. CASE TestFlag(v) \/ SetValue(v) \/ ReleaseValue(v) \/ Perform(v) \/ Finish(v)
  BY <1>4, <1>7 DEF TestFlag, SetValue, ReleaseValue, ReleaseMutex, Perform, Finish
<1> QED BY <1>2, <1>3, <1>5, <1>6, <1>7 DEF Step

----------------------------------------------------------------------------
(* The scheduler's mutex and the alarms.                                   *)

Guarded(v) == stack[v] # <<>> /\ Masked(Top(v))
Holds(v)   == stack[v] # <<>> /\ Critical(Top(v))

\* While alarms are on, no machine is about to take the scheduler, has it or has just given it up.
Masking == AlarmsAlone /\ alarms => \A v \in VMs : ~ Guarded(v)

\* Who is in the code that the scheduler's mutex protects holds it, and is alone in it.
Alone ==
    AlarmsAlone => \A v \in VMs : Holds(v) => /\ "scheduler" \in locked
                                               /\ \A u \in VMs \ {v} : ~ Holds(u)

\* The step is that of a machine that is doing something, and of no other.
LEMMA Elsewhere ==
    ASSUME NEW C, Fits(C), NEW v \in VMs, Step(v) \/ Tick(v)
    PROVE  stack[v] # <<>> /\ \A u \in VMs \ {v} : stack'[u] = stack[u]
<1> USE DEF At
<1>1. stack \in [VMs -> Seq(Frames(C, flag))]
  BY DEF Fits
<1>2. ASSUME stack[v] # <<>>, NEW s, Become(v, s)
      PROVE  stack[v] # <<>> /\ \A u \in VMs \ {v} : stack'[u] = stack[u]
  BY <1>1, <1>2 DEF Become
<1>3. CASE DisableAlarms(v) \/ AcquireScheduler(v) \/ ReleaseScheduler(v) \/ EnableAlarms(v)
           \/ Pause(v) \/ Start(v) \/ Go(v) \/ ProcessRunFn(v)
  BY <1>2, <1>3 DEF DisableAlarms, AcquireScheduler, ReleaseScheduler, EnableAlarms, Pause, Start, SwitchTo,
                    Go, ProcessRunFn, GoTo
<1>4. CASE Alarm(v) \/ AcquireMutex(v)
  BY <1>2, <1>4 DEF Alarm, AcquireMutex, GoTo
<1>5. CASE Tick(v)
  BY <1>5 DEF Tick
<1>6. CASE Wait(v) \/ ReleaseWait(v) \/ Block(v) \/ WaitReturns(v) \/ Signal(v) \/ ReleaseSignal(v)
  BY <1>2, <1>6 DEF Wait, ReleaseWait, Block, WaitReturns, Signal, ReleaseSignal, ReleaseMutex, GoTo
<1>7. CASE Drain(v) \/ TestFlag(v) \/ ForceReturns(v) \/ ReleaseForce(v) \/ Claim(v) \/ ForceFallsThrough(v)
  BY <1>2, <1>7 DEF Drain, TestFlag, ForceReturns, ReleaseForce, Claim, ForceFallsThrough, ReleaseMutex, GoTo
<1>8. CASE ComputeValue(v) \/ SetValue(v) \/ ReleaseValue(v) \/ AppendDependants(v) \/ Perform(v) \/ Finish(v)
  BY <1>2, <1>8 DEF ComputeValue, SetValue, ReleaseValue, AppendDependants, ReleaseMutex, Perform, Finish, GoTo
<1> QED BY <1>3, <1>4, <1>5, <1>6, <1>7, <1>8 DEF Step

\* Only the first two steps of acquire-scheduler take a machine into the masked and
\* the critical part.
Quiet(v) == (Guarded(v)' => Guarded(v)) /\ (Holds(v)' => Holds(v))

\* What rests is neither.
LEMMA Hushed ==
    ASSUME NEW C, Fits(C), AlarmsAlone, NEW v \in VMs, NEW s \in Seq(Resting(C, flag)), Become(v, s)
    PROVE  Quiet(v)
<1>1. stack'[v] = s
  BY DEF Become, Fits
<1>2. s # <<>> => Head(s) \in Resting(C, flag)
  BY HeadTailProperties
<1>3. s # <<>> => ~ Masked(Head(s)) /\ ~ Critical(Head(s))
  BY <1>2 DEF Resting, Masked, Critical
<1> QED BY <1>1, <1>3 DEF Quiet, Guarded, Holds, Top

\* The top frame goes on to point a, and is still the top frame.
LEMMA StillOnTop ==
    ASSUME NEW C, Fits(C), NEW v \in VMs, stack[v] # <<>>, NEW a \in Points, GoTo(v, a)
    PROVE  stack'[v] # <<>> /\ Top(v)'.fn = Top(v).fn /\ Top(v)'.at = a
<1>1. Top(v) \in Frames(C, flag) /\ Rest(v) \in Seq(Frames(C, flag))
  BY TopAndRest, RestRuns DEF Runs
<1>2. PICK f : f = [Top(v) EXCEPT !.at = a]
  OBVIOUS
<1>3. f.fn = Top(v).fn /\ f.at = a
  BY <1>1, <1>2 DEF Frames
<1>4. Head(<<f>> \o Rest(v)) = f /\ <<f>> \o Rest(v) # <<>>
  <2>1. Rest(v) \in Seq({f} \cup Frames(C, flag))
    BY <1>1, SeqMonotonic
  <2> QED BY <2>1, Pushed
<1>5. stack'[v] = <<f>> \o Rest(v)
  BY <1>2 DEF GoTo, Become, Fits
<1> QED BY <1>3, <1>4, <1>5 DEF Top

\* Then it is masked or critical only if it was.
LEMMA Moved ==
    ASSUME NEW C, Fits(C), NEW v \in VMs, stack[v] # <<>>, NEW a \in Points, GoTo(v, a),
           a \in CriticalSections \cup {"acquire", "enable"} /\ Top(v).fn \in Users => Masked(Top(v)),
           a \in CriticalSections /\ Top(v).fn \in Users => Critical(Top(v))
    PROVE  Quiet(v)
BY StillOnTop DEF Quiet, Guarded, Holds, Masked, Critical

\* A switch of processes releases the scheduler, and resumes what rests.
LEMMA SwitchesQuietly ==
    ASSUME NEW C, Fits(C), SchedulerAssumption, AlarmsAlone, NEW v \in VMs,
           ReleaseScheduler(v) \/ EnableAlarms(v) \/ Pause(v) \/ Start(v) \/ Go(v) \/ ProcessRunFn(v)
    PROVE  Quiet(v)
<1>1. stack[v] # <<>>
  BY DEF ReleaseScheduler, EnableAlarms, Pause, Start, Go, ProcessRunFn, At
<1>2. Top(v) \in Frames(C, flag) /\ Rest(v) \in Seq(Resting(C, flag))
  BY <1>1, TopAndRest
<1>3. CASE ReleaseScheduler(v)
  BY <1>1, <1>3, Moved DEF ReleaseScheduler, At, Top, Masked, Points, CriticalSections
<1>4. CASE EnableAlarms(v)
  <2>1. CASE GoTo(v, "go")
    BY <1>1, <2>1, Moved DEF Points, CriticalSections
  <2>2. CASE Become(v, Rest(v))
    BY <1>2, <2>2, Hushed
  <2> QED BY <1>4, <2>1, <2>2 DEF EnableAlarms
<1>5. ASSUME Top(v).fn \in Users, Top(v).at = "inside" PROVE Quiet(v)
  BY <1>1, <1>5 DEF Quiet, Guarded, Holds, Masked, Critical, CriticalSections
<1>6. CASE Pause(v) \/ Start(v) \/ ProcessRunFn(v)
  BY <1>5, <1>6 DEF Pause, Start, ProcessRunFn, At, Top, Users, Switchers
<1>7. CASE Go(v)
  <2>1. Top(v).next # Nothing => Top(v).next.stack \in Seq(Resting(C, flag))
    BY <1>2 DEF Frames, Entries, Fits, Sound
  <2>2. PICK s : s = IF Top(v).next = Nothing THEN Rest(v)
                     ELSE IF Top(v).next.throw THEN Top(v).next.stack ELSE Top(v).next.stack \o Rest(v)
    OBVIOUS
  <2>3. s \in Seq(Resting(C, flag))
    BY <1>2, <2>1, <2>2, Joined
  <2> QED BY <1>7, <2>2, <2>3, Hushed DEF Go
<1> QED BY <1>3, <1>4, <1>6, <1>7

\* So do wait and signal; a process that waits is not masked.
LEMMA SignalsQuietly ==
    ASSUME NEW C, Fits(C), AlarmsAlone, NEW v \in VMs,
           Wait(v) \/ ReleaseWait(v) \/ Block(v) \/ WaitReturns(v) \/ Signal(v) \/ ReleaseSignal(v) \/ AcquireMutex(v)
    PROVE  Quiet(v)
<1>1. stack[v] # <<>>
  BY DEF Wait, ReleaseWait, Block, WaitReturns, Signal, ReleaseSignal, AcquireMutex, At
<1>2. ASSUME Top(v).fn \in Users, Top(v).at \in CriticalSections PROVE Quiet(v)
  BY <1>1, <1>2 DEF Quiet, Guarded, Holds, Masked, Critical
<1>3. CASE Signal(v) \/ ReleaseSignal(v)
  BY <1>2, <1>3 DEF Signal, ReleaseSignal, At, Top, Users, CriticalSections
<1>4. CASE Wait(v)
  <2>1. GoTo(v, "block") \/ GoTo(v, "unlock")
    BY <1>4 DEF Wait
  <2>2. Top(v).fn \notin Users
    BY <1>4 DEF Wait, At, Top, Users, Switchers
  <2> QED BY <1>1, <2>1, <2>2, Moved DEF Points
<1>5. CASE AcquireMutex(v)
  <2>1. CASE Top(v).fn = "signal"
    BY <1>2, <1>5, <2>1 DEF AcquireMutex, At, Top, Users, CriticalSections
  <2>2. CASE Top(v).fn # "signal"
    <3>1. Top(v).fn \notin Users
      BY <1>5, <2>2 DEF AcquireMutex, At, Top, Users, Switchers
    <3>2. GoTo(v, "locked")
      BY <1>5 DEF AcquireMutex
    <3> QED BY <1>1, <3>1, <3>2, Moved DEF Points
  <2> QED BY <2>1, <2>2
<1>6. ASSUME Top(v).fn = "wait" PROVE Returned(v) \in Seq(Resting(C, flag)) /\ Rest(v) \in Seq(Resting(C, flag))
  BY <1>1, <1>6, ReturnRests
<1>7. CASE ReleaseWait(v)
  BY <1>6, <1>7, Hushed DEF ReleaseWait, ReleaseMutex, At, Top
<1>8. CASE Block(v)
  <2>1. Frame("start", "disable") \in Resting(C, flag)
    BY NewFrame DEF Points, CriticalSections
  <2>2. <<Frame("start", "disable")>> \o Returned(v) \in Seq(Resting(C, flag))
    BY <1>6, <1>8, <2>1, RestRuns DEF Block, At, Top
  <2> QED BY <1>8, <2>2, Hushed DEF Block, ReleaseMutex
<1>9. CASE WaitReturns(v)
  BY <1>6, <1>9, Hushed DEF WaitReturns, At, Top
<1> QED BY <1>3, <1>4, <1>5, <1>7, <1>8, <1>9

\* A process that forces the future is not masked.
LEMMA ForcesQuietly ==
    ASSUME NEW C, Fits(C), SchedulerAssumption, AlarmsAlone, NEW v \in VMs,
           Drain(v) \/ TestFlag(v) \/ ForceReturns(v) \/ ReleaseForce(v) \/ Claim(v) \/ ForceFallsThrough(v)
    PROVE  Quiet(v)
<1>1. stack[v] # <<>> /\ Top(v).fn = "force"
  BY DEF At, Top, Drain, TestFlag, ForceReturns, ReleaseForce, Claim, ForceFallsThrough
<1>2. Top(v) \in Frames(C, flag) /\ Rest(v) \in Seq(Resting(C, flag)) /\ Returned(v) \in Seq(Resting(C, flag))
  BY <1>1, TopAndRest, ReturnRests
<1>3. ASSUME NEW a \in Points, GoTo(v, a) PROVE Quiet(v)
  BY <1>1, <1>3, Moved DEF Users, Switchers
<1>4. Frame("start", "disable") \in Resting(C, flag) /\ Frame("pause", "disable") \in Resting(C, flag)
  BY NewFrame DEF Points, CriticalSections
<1>5. CASE Drain(v)
  <2>1. CASE GoTo(v, "acquire")
    BY <1>3, <2>1 DEF Points
  <2>2. CASE Become(v, <<Frame("pause", "disable"), [Top(v) EXCEPT !.n = @ + 1]>> \o Rest(v))
    <3>1. [Top(v) EXCEPT !.n = @ + 1] \in Frames(C, flag) /\ [Top(v) EXCEPT !.n = @ + 1].fn = "force"
      BY <1>1, <1>2, Counted
    <3>2. [Top(v) EXCEPT !.n = @ + 1] \in Resting(C, flag)
      BY <3>1, Unmaskable
    <3>3. <<Frame("pause", "disable"), [Top(v) EXCEPT !.n = @ + 1]>> \in Seq(Resting(C, flag))
      BY <1>4, <3>2
    <3> QED BY <1>2, <2>2, <3>3, Joined, Hushed
  <2> QED BY <1>5, <2>1, <2>2 DEF Drain
<1>6. CASE TestFlag(v)
  BY <1>3, <1>6 DEF TestFlag, Points
<1>7. CASE ForceReturns(v) \/ ForceFallsThrough(v)
  BY <1>2, <1>7, Hushed DEF ForceReturns, ForceFallsThrough, ReleaseMutex
<1>8. CASE ReleaseForce(v)
  BY <1>3, <1>8 DEF ReleaseForce, ReleaseMutex, GoTo, Points
<1>9. CASE Claim(v)
  <2>1. PICK s : s = (IF scheduled THEN <<>> ELSE <<RunFn(Filler)>>) \o <<Frame("start", "disable")>> \o Returned(v)
    OBVIOUS
  <2>2. RunFn(Filler) \in Resting(C, flag)
    BY ProcessFrames DEF SchedulerAssumption
  <2>3. /\ (IF scheduled THEN <<>> ELSE <<RunFn(Filler)>>) \in Seq(Resting(C, flag))
        /\ <<Frame("start", "disable")>> \in Seq(Resting(C, flag))
    BY <1>4, <2>2
  <2>4. s \in Seq(Resting(C, flag))
    BY <1>2, <2>1, <2>3, Joined
  <2> QED BY <1>9, <2>1, <2>4, Hushed DEF Claim
<1> QED BY <1>5, <1>6, <1>7, <1>8, <1>9

\* Nor is a program, nor the process that computes the future.
LEMMA FillsQuietly ==
    ASSUME NEW C, Fits(C), SchedulerAssumption, AlarmsAlone, world \in Worlds, unborn \subseteq Procs, NEW v \in VMs,
           \/ ComputeValue(v) \/ SetValue(v) \/ ReleaseValue(v) \/ AppendDependants(v)
           \/ Perform(v) \/ Finish(v)
    PROVE  Quiet(v)
<1>1. stack[v] # <<>>
  BY DEF At, ComputeValue, SetValue, ReleaseValue, AppendDependants, Perform, Finish
<1>2. Top(v) \in Frames(C, flag) /\ Rest(v) \in Seq(Resting(C, flag))
  BY <1>1, TopAndRest
<1>3. CASE ComputeValue(v) \/ SetValue(v)
  <2>1. Top(v).fn \notin Users
    BY <1>3 DEF ComputeValue, SetValue, At, Top, Users, Switchers
  <2>2. GoTo(v, "acquire") \/ GoTo(v, "unlock")
    BY <1>3 DEF ComputeValue, SetValue
  <2> QED BY <1>1, <2>1, <2>2, Moved DEF Points
<1>4. CASE ReleaseValue(v)
  <2>1. Top(v).fn = "fill" /\ Top(v).at = "unlock"
    BY <1>4 DEF ReleaseValue, At, Top
  <2>2. flag
    BY <1>2, <2>1 DEF Frames
  <2>3. Frame("append", "disable") \in Resting(C, flag)
    BY <2>2 DEF Frame, Frames, Resting, Masked, Functions_, Points, Users, CriticalSections
  <2>4. <<Frame("append", "disable")>> \o Rest(v) \in Seq(Resting(C, flag))
    BY <1>2, <2>3, RestRuns
  <2> QED BY <1>4, <2>4, Hushed DEF ReleaseValue, ReleaseMutex
<1>5. CASE AppendDependants(v)
  BY <1>1, <1>5 DEF AppendDependants, At, Top, Quiet, Guarded, Holds, Masked, Critical, Users, CriticalSections
<1>6. ASSUME Top(v).fn \in {"body", "fill"} PROVE stack[v] \in Seq(Resting(C, flag)) /\ Top(v).who \in Procs
  BY <1>1, <1>2, <1>6, TopAndRest DEF Masked, Users, Switchers, Frames
<1>7. CASE Perform(v)
  <2>1. stack[v] \in Seq(Resting(C, flag)) /\ Top(v).who \in Procs
    BY <1>6, <1>7 DEF Perform, At, Top
  <2>2. ASSUME NEW f \in Resting(C, flag), Become(v, <<f>> \o stack[v]) PROVE Quiet(v)
    BY <2>1, <2>2, RestRuns, Hushed
  <2>3. ASSUME NEW op \in world.calls[Top(v).who] \ {"run"} PROVE CallFrame(op) \in Resting(C, flag)
    <3>1. op \in {"wait", "signal", "force"}
      BY <2>1 DEF SchedulerAssumption, Operations
    <3>2. \/ CallFrame(op) = Frame("wait", "acquire") \/ CallFrame(op) = Frame("signal", "disable")
          \/ CallFrame(op) = Frame("force", "drain")
      BY <3>1 DEF CallFrame
    <3> QED BY <3>2 DEF Frame, Frames, Resting, Masked, Functions_, Points, Users, Switchers, CriticalSections
  <2>4. ASSUME NEW q \in unborn PROVE RunFn(q) \in Resting(C, flag)
    BY ProcessFrames
  <2> QED BY <1>7, <2>2, <2>3, <2>4 DEF Perform
<1>8. CASE Finish(v)
  <2>1. stack[v] \in Seq(Resting(C, flag))
    BY <1>6, <1>8 DEF Finish, At, Top
  <2>2. Frame("pause", "disable") \in Resting(C, flag)
    BY NewFrame DEF Points, CriticalSections
  <2>3. <<Frame("pause", "disable")>> \o stack[v] \in Seq(Resting(C, flag))
    BY <2>1, <2>2, RestRuns
  <2>4. Become(v, <<Frame("pause", "disable")>> \o stack[v]) \/ Become(v, Rest(v))
    BY <1>8 DEF Finish
  <2> QED BY <1>2, <2>3, <2>4, Hushed
<1> QED BY <1>3, <1>4, <1>5, <1>7, <1>8

\* Where alarms are on, the step of an alarm is one of a machine that is not masked.
LEMMA QuietSteps ==
    ASSUME NEW C, Fits(C), SchedulerAssumption, AlarmsAlone, Base, Masking, NEW v \in VMs, Step(v) \/ Tick(v)
    PROVE  Quiet(v) \/ DisableAlarms(v) \/ AcquireScheduler(v)
<1>1. world \in Worlds /\ unborn \subseteq Procs
  BY DEF Base
<1>2. CASE Alarm(v)
  <2>1. stack[v] # <<>> /\ ~ Masked(Top(v))
    BY <1>2 DEF Alarm, Masking, Guarded
  <2>2. stack[v] \in Seq(Resting(C, flag))
    BY <2>1, TopAndRest
  <2>3. Frame("alarm", "disable") \in Resting(C, flag)
    BY NewFrame DEF Points, CriticalSections
  <2>4. <<Frame("alarm", "disable")>> \o stack[v] \in Seq(Resting(C, flag))
    BY <2>2, <2>3, RestRuns
  <2> QED BY <1>2, <2>4, Hushed DEF Alarm
<1>3. CASE Tick(v)
  BY <1>3 DEF Tick, Quiet, Guarded, Holds, Top
<1> QED BY <1>1, <1>2, <1>3, SwitchesQuietly, SignalsQuietly, ForcesQuietly, FillsQuietly DEF Step

\* The programs and the build stay what they are.
LEMMA SameWorld ==
    ASSUME NEW v \in VMs, Step(v) \/ Tick(v)
    PROVE  world' = world
BY DEF Step, Tick, DisableAlarms, AcquireScheduler, ReleaseScheduler, EnableAlarms, Pause, Start, SwitchTo, Go,
       ProcessRunFn, Alarm, AcquireMutex, Wait, ReleaseWait, Block, WaitReturns, Signal, ReleaseSignal, ReleaseMutex,
       Drain, TestFlag, ForceReturns, ReleaseForce, Claim, ForceFallsThrough, ComputeValue, SetValue, ReleaseValue,
       AppendDependants, Perform, Finish, program

\* Machines that were not started stay idle, and alarms are of a build with a timer.
LEMMA ClockSteps ==
    ASSUME NEW C, Fits(C), SchedulerAssumption, Base, Clocked, NEW v \in VMs, Step(v) \/ Tick(v)
    PROVE  Clocked'
<1>1. world' = world
  BY SameWorld
<1>2. alarms' => world.timer
  BY DEF Clocked, Step, Tick, DisableAlarms, AcquireScheduler, ReleaseScheduler, EnableAlarms, Pause, Start, SwitchTo, Go,
         ProcessRunFn, Alarm, AcquireMutex, Wait, ReleaseWait, Block, WaitReturns, Signal, ReleaseSignal, ReleaseMutex,
         Drain, TestFlag, ForceReturns, ReleaseForce, Claim, ForceFallsThrough, ComputeValue, SetValue, ReleaseValue,
         AppendDependants, Perform, Finish, clock
<1>3. \A u \in VMs : u \notin world.machines => stack'[u] = <<>>
  BY Elsewhere DEF Clocked
<1> QED BY <1>1, <1>2, <1>3 DEF Clocked

\* An alarm cannot come from the first step of acquire-scheduler to the last of release-scheduler.
LEMMA MaskSteps ==
    ASSUME NEW C, Fits(C), SchedulerAssumption, Base, Clocked, Masking, NEW v \in VMs, Step(v) \/ Tick(v)
    PROVE  Masking'
<1>1. SUFFICES ASSUME AlarmsAlone, alarms' PROVE \A u \in VMs : ~ Guarded(u)'
  BY DEF Masking, AlarmsAlone
<1>2. Clocked' /\ world' \in Worlds
  BY ClockSteps, BaseSteps DEF Base
<1>3. world'.machines = {Main}
  BY <1>1, <1>2 DEF Clocked, AlarmsAlone
<1>4. \A u \in VMs \ {Main} : ~ Guarded(u)'
  BY <1>2, <1>3 DEF Clocked, Guarded
<1>5. CASE v # Main
  \* A machine that the world did not start makes no step.
  <2>1. stack[v] # <<>> /\ world' = world
    BY Elsewhere, SameWorld
  <2> QED BY <1>3, <1>5, <2>1 DEF Clocked
<1>6. CASE v = Main
  <2>1. ~ DisableAlarms(v)
    BY <1>1 DEF DisableAlarms
  <2>2. CASE EnableAlarms(v)
    <3>1. Top(v) \in Frames(C, flag) /\ Rest(v) \in Seq(Resting(C, flag)) /\ stack[v] # <<>>
      BY <2>2, TopAndRest DEF EnableAlarms, At
    <3>2. CASE GoTo(v, "go")
      <4>1. Top(v)'.at = "go"
        BY <3>1, <3>2, StillOnTop DEF Points
      <4>2. ~ Guarded(v)'
        BY <4>1 DEF Guarded, Masked, CriticalSections
      <4> QED BY <1>4, <1>6, <4>2
    <3>3. CASE Become(v, Rest(v))
      <4>1. stack'[v] = Rest(v)
        BY <3>3 DEF Become, Fits
      <4>2. Rest(v) # <<>> => ~ Masked(Head(Rest(v)))
        BY <1>1, <3>1, HeadTailProperties DEF Resting
      <4>3. ~ Guarded(v)'
        BY <4>1, <4>2 DEF Guarded, Top
      <4> QED BY <1>4, <1>6, <4>3
    <3> QED BY <2>2, <3>2, <3>3 DEF EnableAlarms
  <2>3. CASE ~ EnableAlarms(v)
    <3>1. alarms
      BY <1>1, <2>1, <2>3 DEF Step, Tick, AcquireScheduler, ReleaseScheduler, Pause, Start, SwitchTo, Go,
         ProcessRunFn, Alarm, AcquireMutex, Wait, ReleaseWait, Block, WaitReturns, Signal, ReleaseSignal, ReleaseMutex,
         Drain, TestFlag, ForceReturns, ReleaseForce, Claim, ForceFallsThrough, ComputeValue, SetValue, ReleaseValue,
         AppendDependants, Perform, Finish, clock
    <3>2. ~ Guarded(v)
      BY <1>1, <3>1 DEF Masking
    <3>3. ~ AcquireScheduler(v)
      BY <3>2 DEF AcquireScheduler, Guarded, Masked, At, Top
    <3>4. Quiet(v)
      BY <1>1, <2>1, <3>3, QuietSteps
    <3> QED BY <1>4, <1>6, <3>2, <3>4 DEF Quiet
  <2> QED BY <2>2, <2>3
<1> QED BY <1>5, <1>6

\* Nobody joins the machine that has the scheduler.
LEMMA AloneSteps ==
    ASSUME NEW C, Fits(C), SchedulerAssumption, Base, Masking, Alone, NEW v \in VMs, Step(v) \/ Tick(v)
    PROVE  Alone'
<1>1. SUFFICES ASSUME AlarmsAlone, NEW u \in VMs, Holds(u)'
               PROVE  "scheduler" \in locked' /\ \A w \in VMs \ {u} : ~ Holds(w)'
  BY DEF Alone, AlarmsAlone
<1>2. stack[v] # <<>> /\ \A w \in VMs \ {v} : Holds(w)' <=> Holds(w)
  BY Elsewhere DEF Holds, Top
<1>3. CASE AcquireScheduler(v)
  <2>1. \A w \in VMs : ~ Holds(w)
    BY <1>1, <1>3 DEF AcquireScheduler, Alone
  <2> QED BY <1>1, <1>2, <1>3, <2>1 DEF AcquireScheduler
<1>4. CASE DisableAlarms(v)
  <2>1. Top(v)'.at = "acquire"
    BY <1>2, <1>4, StillOnTop DEF DisableAlarms, Points
  <2>2. ~ Holds(v)'
    BY <2>1 DEF Holds, Critical, CriticalSections
  <2> QED BY <1>1, <1>2, <1>4, <2>2 DEF DisableAlarms, Alone
<1>5. CASE ReleaseScheduler(v)
  <2>1. Top(v)'.at = "enable"
    BY <1>2, <1>5, StillOnTop DEF ReleaseScheduler, Points
  <2>2. ~ Holds(v)'
    BY <2>1 DEF Holds, Critical, CriticalSections
  <2>3. Holds(v)
    BY <1>5 DEF ReleaseScheduler, At, Top, Holds, Critical, CriticalSections
  <2> QED BY <1>1, <1>2, <2>2, <2>3 DEF Alone
<1>6. CASE ~ AcquireScheduler(v) /\ ~ DisableAlarms(v) /\ ~ ReleaseScheduler(v)
  <2>1. \A w \in VMs : Holds(w)' => Holds(w)
    BY <1>1, <1>2, <1>6, QuietSteps DEF Quiet
  <2>2. "scheduler" \in locked => "scheduler" \in locked'
    BY <1>6 DEF Step, Tick, EnableAlarms, Pause, Start, SwitchTo, Go,
         ProcessRunFn, Alarm, AcquireMutex, Wait, ReleaseWait, Block, WaitReturns, Signal, ReleaseSignal, ReleaseMutex, Mutex,
         Drain, TestFlag, ForceReturns, ReleaseForce, Claim, ForceFallsThrough, ComputeValue, SetValue, ReleaseValue,
         AppendDependants, Perform, Finish
  <2> QED BY <1>1, <2>1, <2>2 DEF Alone
<1> QED BY <1>3, <1>4, <1>5, <1>6

----------------------------------------------------------------------------
(* The inductive invariant.                                                *)

IInv == Base /\ Continued /\ Balanced /\ Answered /\ Clocked /\ Masking /\ Alone

\* The world boots in it.
LEMMA InitHolds ==
    ASSUME SchedulerAssumption, Init
    PROVE  IInv
<1> USE DEF Init
<1>1. Base
  <2>1. reg \in [VMs -> Procs] /\ calls \in [Procs -> Nat] /\ \A p \in Procs : calls[p] <= MaxCalls[p]
    BY DEF SchedulerAssumption
  <2>2. log \in Logs
    BY DEF Logs
  <2>3. alarms \in BOOLEAN /\ expired \in BOOLEAN /\ flag \in BOOLEAN /\ scheduled \in BOOLEAN
    OBVIOUS
  <2>4. /\ world \in Worlds /\ unborn \subseteq Procs /\ value \in Int
        /\ locked \subseteq {"scheduler", "semaphore", "future"}
    OBVIOUS
  <2> HIDE DEF Init
  <2> QED BY <2>1, <2>2, <2>3, <2>4 DEF Base
<1>2. Fits({})
  <2>1. Sound({}, flag) /\ queue \in Seq(Entries({})) /\ semQ \in Seq(Entries({})) /\ dependantsQ \in Seq(Entries({}))
    BY DEF Sound
  <2>2. ASSUME NEW v \in VMs PROVE stack[v] \in Seq(Resting({}, flag))
    <3>0. stack[v] = <<>> \/ stack[v] = <<Body(Boot)>> \/ (stack[v] = StartBusyWork(v) /\ v # Main)
      OBVIOUS
    <3> HIDE DEF Init
    <3>1. CASE stack[v] = <<>>
      BY <3>1
    <3>2. CASE stack[v] = <<Body(Boot)>>
      <4>1. Body(Boot) \in Resting({}, flag)
        BY ProcessFrames DEF SchedulerAssumption
      <4> QED BY <3>2, <4>1
    <3>3. CASE stack[v] = StartBusyWork(v) /\ v # Main
      <4>1. RunFn(Busy[v]) \in Resting({}, flag)
        <5>1. Busy[v] \in Procs
          BY <3>3 DEF SchedulerAssumption
        <5> QED BY <5>1, ProcessFrames
      <4>2. Frame("start", "disable") \in Resting({}, flag)
        BY NewFrame DEF Points, CriticalSections
      <4> QED BY <3>3, <4>1, <4>2 DEF StartBusyWork
    <3> QED BY <3>0, <3>1, <3>2, <3>3
  <2>3. \A v \in VMs : Runs(stack[v], {}, flag)
    BY <2>2, RestRuns
  <2>4. stack \in [VMs -> Seq(Frames({}, flag))]
    BY <2>3 DEF Runs
  <2> QED BY <2>1, <2>3, <2>4 DEF Fits
<1>3. Balanced /\ Answered /\ Clocked /\ Masking
  BY DEF Balanced, Answered, Clocked, Masking
<1>4. Alone
  <2>1. ASSUME NEW v \in VMs, stack[v] # <<>> PROVE ~ Critical(Top(v))
    <3>1. stack[v] = <<Body(Boot)>> \/ stack[v] = StartBusyWork(v)
      BY <2>1
    <3>2. Top(v).at \in {"call", "disable"}
      BY <3>1 DEF Top, Body, StartBusyWork, RunFn, Frame
    <3> QED BY <3>2 DEF Critical, CriticalSections
  <2> QED BY <2>1 DEF Alone, Holds
<1> QED BY <1>1, <1>2, <1>3, <1>4 DEF IInv, Continued

\* No step leaves the invariant.
LEMMA NextHolds ==
    ASSUME SchedulerAssumption, IInv, [Next]_vars
    PROVE  IInv'
<1>1. CASE Next
  <2>1. PICK v \in VMs : Step(v) \/ Tick(v)
    BY <1>1 DEF Next
  <2>2. PICK C : Fits(C)
    BY DEF IInv, Continued
  <2> USE <2>1, <2>2 DEF IInv
  <2>3. Base' /\ Balanced' /\ Answered'
    BY BaseSteps, BalanceSteps, AnswerSteps
  <2>4. Clocked' /\ Masking' /\ Alone'
    BY ClockSteps, MaskSteps, AloneSteps
  <2>5. Continued'
    <3>1. reg \in [VMs -> Procs] /\ world \in Worlds /\ unborn \subseteq Procs /\ value \in Int
          /\ Len(semQ) = IF value < 0 THEN -value ELSE 0
      BY DEF Base, Balanced
    <3>2. AlarmsAlone /\ alarms /\ stack[v] # <<>> => ~ Masked(Top(v))
      BY DEF Masking, Guarded
    <3>3. CASE \/ DisableAlarms(v) \/ AcquireScheduler(v) \/ ReleaseScheduler(v) \/ EnableAlarms(v)
               \/ Alarm(v) \/ AcquireMutex(v) \/ Tick(v)
      BY <3>2, <3>3, SchedulerSteps, AlarmSteps DEF Continued
    <3>4. CASE Pause(v) \/ Start(v) \/ Go(v) \/ ProcessRunFn(v)
      BY <3>1, <3>4, SwitchSteps
    <3>5. CASE Wait(v) \/ ReleaseWait(v) \/ Block(v) \/ WaitReturns(v) \/ Signal(v) \/ ReleaseSignal(v)
      BY <3>1, <3>5, SemaphoreSteps
    <3>6. CASE Drain(v) \/ TestFlag(v) \/ ForceReturns(v) \/ ReleaseForce(v) \/ Claim(v) \/ ForceFallsThrough(v)
      BY <3>1, <3>6, ForceSteps
    <3>7. CASE ComputeValue(v) \/ SetValue(v) \/ ReleaseValue(v) \/ AppendDependants(v) \/ Perform(v) \/ Finish(v)
      BY <3>1, <3>7, FillSteps, ProgramSteps DEF Continued
    <3> QED BY <2>1, <3>3, <3>4, <3>5, <3>6, <3>7 DEF Step
  <2> QED BY <2>3, <2>4, <2>5
<1>2. CASE UNCHANGED vars
  <2>1. PICK C : Fits(C)
    BY DEF IInv, Continued
  <2>2. Fits(C)'
    BY <1>2, <2>1 DEF vars, semaphore, future, Fits
  <2> QED BY <1>2, <2>2 DEF IInv, Base, Continued, Balanced, Answered, Clocked, Masking, Guarded, Alone, Holds, Top,
                          vars, clock, semaphore, future, program
<1> QED BY <1>1, <1>2

\* Whatever the programs do, on however many machines, the invariant holds.
THEOREM Invariance == ASSUME SchedulerAssumption PROVE Spec => []IInv
<1>1. Init => IInv
  BY InitHolds
<1>2. IInv /\ [Next]_vars => IInv'
  BY NextHolds
<1> QED BY <1>1, <1>2, PTL DEF Spec

----------------------------------------------------------------------------
(* What follows.                                                           *)

\* Every variable has its type, however deep continuations are nested: entries of the queues
\* belong to processes, and stacks hold frames of the functions modelled.
THEOREM TypeCorrect == ASSUME SchedulerAssumption PROVE Spec => []TypeOK
<1>1. ASSUME IInv PROVE TypeOK
  <2>1. PICK C : Fits(C)
    BY <1>1 DEF IInv, Continued
  <2>2. queue \o semQ \o dependantsQ \in Seq(Entries(C))
    BY <2>1, Joined DEF Fits
  <2>3. \A e \in Range(queue \o semQ \o dependantsQ) : e.proc \in Procs
    <3>1. \A e \in Range(queue \o semQ \o dependantsQ) : e \in Entries(C)
      BY <2>2 DEF Range
    <3> QED BY <3>1 DEF Entries
  <2>4. ASSUME NEW v \in VMs, NEW f \in Range(stack[v]) PROVE f.fn \in Functions_
    <3>1. f \in Frames(C, flag)
      BY <2>1, <2>4 DEF Range, Fits
    <3> QED BY <3>1 DEF Frames
  <2>5. \A p \in Procs : calls[p] \in 0 .. MaxCalls[p]
    BY <1>1 DEF IInv, Base, SchedulerAssumption
  <2> QED BY <1>1, <2>3, <2>4, <2>5 DEF TypeOK, IInv, Base, Functions_
<1> QED BY <1>1, Invariance, PTL

\* While the semaphore's mutex is free its queue has as many waiters as its value is below
\* zero, so signal wakes one exactly when there is one.
THEOREM SignalFindsWaiters == ASSUME SchedulerAssumption PROVE Spec => []SemaphoreBalanced
<1>1. IInv => SemaphoreBalanced
  BY DEF IInv, Balanced, SemaphoreBalanced
<1> QED BY <1>1, Invariance, PTL

\* Once fill-future has given the dependants to the scheduler, force-future adds none.
THEOREM NoLateSuspension == ASSUME SchedulerAssumption PROVE Spec => NobodySuspendsLate
<1>1. ASSUME IInv, [Next]_vars PROVE [log.delivered => dependantsQ' = dependantsQ]_vars
  <2>1. CASE Next
    <3>1. PICK v \in VMs : Step(v) \/ Tick(v)
      BY <2>1 DEF Next
    <3>2. PICK C : Fits(C)
      BY <1>1 DEF IInv, Continued
    <3> QED BY <1>1, <3>1, <3>2, AnswerSteps DEF IInv, Answered
  <2>2. CASE UNCHANGED vars
    BY <2>2
  <2> QED BY <1>1, <2>1, <2>2
<1> QED BY <1>1, Invariance, PTL DEF Spec, NobodySuspendsLate

\* An alarm does not push a frame on the code that holds the scheduler: acquire-scheduler turns
\* alarms off first.  They are off for the whole process, and the release of one machine turns
\* them on for the others, hence the hypothesis.
THEOREM HolderIsNotInterrupted == ASSUME SchedulerAssumption, AlarmsAlone PROVE Spec => []NeverInterrupted
<1>1. ASSUME IInv PROVE NeverInterrupted
  <2>1. PICK C : Fits(C)
    BY <1>1 DEF IInv, Continued
  <2>2. SUFFICES ASSUME NEW v \in VMs, NEW i \in 2 .. Len(stack[v])
                 PROVE  ~ Critical(stack[v][i])
    BY DEF NeverInterrupted, Critical
  <2>3. stack[v] \in Seq(Frames(C, flag)) /\ stack[v] # <<>>
    BY <2>1, <2>2 DEF Fits
  <2>4. Tail(stack[v]) \in Seq(Resting(C, flag))
    BY <2>1, <2>3 DEF Fits, Runs
  <2>5. i - 1 \in 1 .. Len(Tail(stack[v])) /\ Tail(stack[v])[i - 1] = stack[v][i]
    BY <2>2, <2>3, HeadTailProperties
  <2>6. stack[v][i] \in Resting(C, flag)
    BY <2>4, <2>5
  <2> QED BY <2>6 DEF Resting, Masked, Critical
<1> QED BY <1>1, Invariance, PTL

\* At most one machine executes the code that the scheduler's mutex protects.
OneHolder == \A u, v \in VMs : Holds(u) /\ Holds(v) => u = v /\ "scheduler" \in locked

\* The dequeue, the store of the process register and the reset of the alarm counter are done by
\* one machine at a time, which has the mutex.
THEOREM HoldersExclude == ASSUME SchedulerAssumption, AlarmsAlone PROVE Spec => []OneHolder
<1>1. IInv => OneHolder
  BY DEF IInv, Alone, OneHolder
<1> QED BY <1>1, Invariance, PTL

----------------------------------------------------------------------------
(* Whose continuation a stack is.                                          *)

\* An entry of a queue is something.
EntriesAreSomething == \A p, t, s : [proc |-> p, throw |-> t, stack |-> s] # Nothing

\* What lies below a frame: another one, or nothing.
Bottom == Frame("", "")
Peek(s) == IF s = <<>> THEN Bottom ELSE Head(s)

\* A frame that nothing below it is returned through: it looks for another process, is about
\* to, or has found it.
Ended(f) == Suspending(f) \/ f.next # Nothing

\* A frame of the program, or one that throws to such a frame.
Firm(g) == (g.fn \in {"body", "fill"} /\ g.at = "call") \/ g.next # Nothing
Settled(f) == f.next # Nothing => Firm(Peek(f.next.stack))

\* Frames whose continuations are entries in E.
Held(E) ==
    {f \in [fn : Functions_, at : Points, who : Procs \cup {Nothing}, n : Nat, next : {Nothing} \cup E] :
        /\ f.at = "block" => f.fn = "wait"
        /\ f.at = "claim" => f.fn = "force"
        /\ f.fn = "run" => f.who \in Procs
        /\ f.next # Nothing => f.fn \in Switchers /\ f.at \in {"release", "enable", "go"}
        /\ f.fn \in Switchers /\ f.next = Nothing => f.at \in {"disable", "acquire", "inside"}}

\* Frame f, with g below it, in a continuation of process p.
Good(f, g, p) ==
    /\ f.fn \in {"body", "fill"} => f.who = p
    /\ f.fn = "body" => p # Filler
    /\ f.fn \in {"fill", "append"} => p = Filler /\ g.fn = "start" /\ g.next = Nothing
    /\ f.fn = "force" => f.at # "return"
    /\ f.fn \in {"force", "signal"} => Firm(g)
    /\ f.next # Nothing => f.next.proc = p
    /\ ~ Ended(f) => g.fn # "alarm" /\ (g.fn \in {"run", "wait"} => f.fn = "alarm")

\* The frames of a stack that are returned to.
LiveAt(s, i) == \A j \in 1 .. i - 1 : ~ Ended(s[j])
Under(s, i) == IF i < Len(s) THEN s[i + 1] ELSE Bottom

\* The process that is going to be queued, by a frame on top or below an alarm.
Pending(f) == f.fn = "run" /\ f.at \in {"disable", "acquire", "inside"}
Runner(s)  == IF Pending(Peek(s)) THEN Peek(s).who
              ELSE IF Peek(s).fn = "alarm" /\ Peek(s).next = Nothing /\ Pending(Peek(Tail(s)))
              THEN Peek(Tail(s)).who ELSE Nothing

\* A stack that does not return to what it is put on.
HasEnd(s) == HasLead(s) /\ \E i \in 1 .. Len(s) : Ended(s[i])

Owned(E, p) == {s \in Seq(Held(E)) : \A i \in 1 .. Len(s) : LiveAt(s, i) => Good(s[i], Under(s, i), p)}
Calm(E, p) == {s \in Owned(E, p) : AlarmsAlone => \A i \in 1 .. Len(s) : LiveAt(s, i) => Settled(s[i])}

Stored(E) ==
    \A e \in E : /\ e # Nothing /\ e \in [proc : Procs, throw : BOOLEAN, stack : Seq(Held(E))]
                 /\ e.stack \in Calm(E, e.proc) /\ (~ e.throw => HasEnd(e.stack))

Active(E) ==
    /\ stack \in [VMs -> Seq(Held(E))]
    /\ \A v \in VMs : /\ stack[v] \in Owned(E, reg[v])
                      /\ stack[v] # <<>> /\ ~ Ended(Top(v)) => Rest(v) \in Calm(E, reg[v])

\* An alarm that is due finds no machine in the middle of a switch.
Struck == AlarmsAlone /\ expired => \A v \in VMs : Settled(Peek(stack[v]))

Whole(E) ==
    /\ Stored(E) /\ Active(E) /\ Struck
    /\ queue \in Seq(E) /\ semQ \in Seq(E) /\ dependantsQ \in Seq(E)

----------------------------------------------------------------------------
(* Stacks.                                                                 *)

\* A frame on top of a stack.
LEMMA OnTop ==
    ASSUME NEW X, NEW f \in X, NEW s \in Seq(X)
    PROVE  /\ <<f>> \o s \in Seq(X) /\ Len(<<f>> \o s) = Len(s) + 1 /\ (<<f>> \o s)[1] = f
           /\ \A i \in 1 .. Len(s) : (<<f>> \o s)[i + 1] = s[i]
           /\ Len(s) \in Nat /\ <<f>> \o s # <<>> /\ Peek(<<f>> \o s) = f
           /\ Head(<<f>> \o s) = f /\ Tail(<<f>> \o s) = s
<1>1. <<f>> \in Seq(X) /\ Len(<<f>>) = 1 /\ <<f>>[1] = f
  OBVIOUS
<1>2. /\ <<f>> \o s \in Seq(X) /\ Len(<<f>> \o s) = 1 + Len(s) /\ Len(s) \in Nat
      /\ \A i \in 1 .. 1 + Len(s) : (<<f>> \o s)[i] = IF i <= 1 THEN <<f>>[i] ELSE s[i - 1]
  BY <1>1, ConcatProperties, LenProperties
<1>3. \A i \in 1 .. Len(s) : (<<f>> \o s)[i + 1] = s[i]
  BY <1>2
<1> QED BY <1>1, <1>2, <1>3, Pushed DEF Peek

\* Every stack with a frame is that frame on top of the others.
LEMMA Split ==
    ASSUME NEW X, NEW s \in Seq(X), s # <<>>
    PROVE  /\ s = <<Head(s)>> \o Tail(s) /\ Head(s) \in X /\ Tail(s) \in Seq(X) /\ Peek(s) = Head(s)
<1>1. /\ Len(s) \in Nat \ {0} /\ Tail(s) \in Seq(X) /\ Len(Tail(s)) = Len(s) - 1 /\ Head(s) \in X
      /\ \A i \in 1 .. Len(Tail(s)) : Tail(s)[i] = s[i + 1]
  BY EmptySeq, HeadTailProperties
<1>2. /\ <<Head(s)>> \o Tail(s) \in Seq(X) /\ Len(<<Head(s)>> \o Tail(s)) = Len(s)
      /\ (<<Head(s)>> \o Tail(s))[1] = Head(s)
      /\ \A i \in 1 .. Len(s) - 1 : (<<Head(s)>> \o Tail(s))[i + 1] = s[i + 1]
  BY <1>1, OnTop
<1>3. ASSUME NEW i \in 1 .. Len(s) PROVE (<<Head(s)>> \o Tail(s))[i] = s[i]
  <2>1. CASE i = 1
    BY <1>2, <2>1 DEF Head
  <2>2. CASE i # 1
    <3>1. i - 1 \in 1 .. Len(s) - 1 /\ (i - 1) + 1 = i
      BY <1>1, <1>3, <2>2
    <3> QED BY <1>2, <3>1
  <2> QED BY <2>1, <2>2
<1>4. s = <<Head(s)>> \o Tail(s)
  BY <1>2, <1>3, SeqEqual
<1> QED BY <1>1, <1>4 DEF Peek

\* The live frames of a stack are its top and, unless that ends it, those of the rest.
LEMMA LiveFrames ==
    ASSUME NEW E, NEW f \in Held(E), NEW s \in Seq(Held(E))
    PROVE  /\ LiveAt(<<f>> \o s, 1) /\ Under(<<f>> \o s, 1) = Peek(s)
           /\ \A i \in 1 .. Len(s) : /\ Under(<<f>> \o s, i + 1) = Under(s, i)
                                     /\ LiveAt(<<f>> \o s, i + 1) <=> ~ Ended(f) /\ LiveAt(s, i)
<1>t. PICK t : t = <<f>> \o s
  OBVIOUS
<1>0. /\ t \in Seq(Held(E)) /\ Len(t) = Len(s) + 1 /\ t[1] = f /\ Len(s) \in Nat
      /\ \A i \in 1 .. Len(s) : t[i + 1] = s[i]
  BY <1>t, OnTop
<1>1. LiveAt(t, 1)
  BY DEF LiveAt
<1>2. Under(t, 1) = Peek(s)
  <2>1. CASE s = <<>>
    BY <1>0, <2>1 DEF Under, Peek
  <2>2. CASE s # <<>>
    <3>1. Len(s) \in Nat \ {0} /\ Head(s) = s[1]
      BY <2>2, EmptySeq DEF Head
    <3> QED BY <1>0, <2>2, <3>1 DEF Under, Peek
  <2> QED BY <2>1, <2>2
<1>3. ASSUME NEW i \in 1 .. Len(s) PROVE Under(t, i + 1) = Under(s, i)
  BY <1>0, <1>3 DEF Under
<1>4. ASSUME NEW i \in 1 .. Len(s), LiveAt(t, i + 1) PROVE ~ Ended(f) /\ LiveAt(s, i)
  <2>1. \A j \in 1 .. i : ~ Ended(t[j])
    BY <1>0, <1>4 DEF LiveAt
  <2>2. ~ Ended(f)
    BY <1>0, <2>1
  <2>3. ASSUME NEW j \in 1 .. i - 1 PROVE ~ Ended(s[j])
    <3>1. j \in 1 .. Len(s) /\ j + 1 \in 1 .. i
      BY <1>0
    <3> QED BY <1>0, <2>1, <3>1
  <2> QED BY <2>2, <2>3 DEF LiveAt
<1>5. ASSUME NEW i \in 1 .. Len(s), ~ Ended(f), LiveAt(s, i) PROVE LiveAt(t, i + 1)
  <2>1. ASSUME NEW j \in 1 .. i PROVE ~ Ended(t[j])
    <3>1. CASE j = 1
      BY <1>0, <1>5, <3>1
    <3>2. CASE j # 1
      <4>1. j - 1 \in 1 .. i - 1 /\ j - 1 \in 1 .. Len(s) /\ (j - 1) + 1 = j
        BY <1>0, <3>2
      <4>2. t[j] = s[j - 1]
        BY <1>0, <4>1
      <4> QED BY <1>5, <4>1, <4>2 DEF LiveAt
    <3> QED BY <3>1, <3>2
  <2> QED BY <1>0, <2>1 DEF LiveAt
<1> QED BY <1>t, <1>1, <1>2, <1>3, <1>4, <1>5

\* A frame put on top of a stack.
LEMMA Owns ==
    ASSUME NEW E, NEW p, NEW f \in Held(E), NEW s \in Seq(Held(E))
    PROVE  /\ <<f>> \o s \in Owned(E, p) <=> Good(f, Peek(s), p) /\ (Ended(f) \/ s \in Owned(E, p))
           /\ <<f>> \o s \in Calm(E, p) <=> /\ Good(f, Peek(s), p) /\ (AlarmsAlone => Settled(f))
                                            /\ Ended(f) \/ s \in Calm(E, p)
<1>1. PICK t : t = <<f>> \o s
  OBVIOUS
<1>2. /\ t \in Seq(Held(E)) /\ Len(t) = Len(s) + 1 /\ t[1] = f /\ Len(s) \in Nat
      /\ \A i \in 1 .. Len(s) : t[i + 1] = s[i]
  BY <1>1, OnTop
<1>3. /\ LiveAt(t, 1) /\ Under(t, 1) = Peek(s)
      /\ \A i \in 1 .. Len(s) : Under(t, i + 1) = Under(s, i) /\ (LiveAt(t, i + 1) <=> ~ Ended(f) /\ LiveAt(s, i))
  BY <1>1, LiveFrames
<1>4. \A i \in 1 .. Len(t) : i = 1 \/ (i - 1 \in 1 .. Len(s) /\ (i - 1) + 1 = i)
  BY <1>2
<1>5. \A i \in 1 .. Len(s) : i + 1 \in 1 .. Len(t)
  BY <1>2
<1>6. 1 \in 1 .. Len(t)
  BY <1>2
<1>7. t \in Owned(E, p) <=> Good(f, Peek(s), p) /\ (Ended(f) \/ s \in Owned(E, p))
  <2>1. ASSUME t \in Owned(E, p) PROVE Good(f, Peek(s), p) /\ (Ended(f) \/ s \in Owned(E, p))
    <3>1. \A i \in 1 .. Len(t) : LiveAt(t, i) => Good(t[i], Under(t, i), p)
      BY <2>1 DEF Owned
    <3>2. Good(f, Peek(s), p)
      BY <1>2, <1>3, <1>6, <3>1
    <3>3. ASSUME ~ Ended(f), NEW i \in 1 .. Len(s), LiveAt(s, i) PROVE Good(s[i], Under(s, i), p)
      <4>1. LiveAt(t, i + 1) /\ t[i + 1] = s[i] /\ Under(t, i + 1) = Under(s, i)
        BY <1>2, <1>3, <3>3
      <4>2. Good(t[i + 1], Under(t, i + 1), p)
        BY <1>5, <3>1, <4>1
      <4> QED BY <4>1, <4>2
    <3> QED BY <3>2, <3>3 DEF Owned
  <2>2. ASSUME Good(f, Peek(s), p), Ended(f) \/ s \in Owned(E, p) PROVE t \in Owned(E, p)
    <3>1. ASSUME NEW i \in 1 .. Len(t), LiveAt(t, i) PROVE Good(t[i], Under(t, i), p)
      <4>1. CASE i = 1
        BY <1>2, <1>3, <2>2, <4>1
      <4>2. CASE i # 1
        <5>1. PICK j \in 1 .. Len(s) : i = j + 1
          BY <1>4, <4>2
        <5>2. ~ Ended(f) /\ LiveAt(s, j) /\ Under(t, i) = Under(s, j) /\ t[i] = s[j]
          BY <1>2, <1>3, <3>1, <5>1
        <5> QED BY <2>2, <5>2 DEF Owned
      <4> QED BY <4>1, <4>2
    <3> QED BY <1>2, <3>1 DEF Owned
  <2> QED BY <2>1, <2>2
<1>8. t \in Calm(E, p) <=> /\ Good(f, Peek(s), p) /\ (AlarmsAlone => Settled(f))
                           /\ Ended(f) \/ s \in Calm(E, p)
  <2>1. ASSUME t \in Calm(E, p), AlarmsAlone PROVE Settled(f) /\ (Ended(f) \/ s \in Calm(E, p))
    <3>1. t \in Owned(E, p) /\ \A i \in 1 .. Len(t) : LiveAt(t, i) => Settled(t[i])
      BY <2>1 DEF Calm
    <3>2. ASSUME ~ Ended(f), NEW i \in 1 .. Len(s), LiveAt(s, i) PROVE Settled(s[i])
      BY <1>2, <1>3, <1>5, <3>1, <3>2
    <3>3. Ended(f) \/ s \in Owned(E, p)
      BY <1>7, <3>1
    <3> QED BY <1>2, <1>3, <1>6, <3>1, <3>2, <3>3 DEF Calm
  <2>2. ASSUME t \in Calm(E, p), ~ AlarmsAlone PROVE Ended(f) \/ s \in Calm(E, p)
    BY <1>7, <2>2 DEF Calm
  <2>3. ASSUME t \in Owned(E, p), Settled(f), AlarmsAlone, Ended(f) \/ s \in Calm(E, p) PROVE t \in Calm(E, p)
    <3>1. ASSUME NEW i \in 1 .. Len(t), LiveAt(t, i) PROVE Settled(t[i])
      <4>1. CASE i = 1
        BY <1>2, <2>3, <4>1
      <4>2. CASE i # 1
        <5>1. PICK j \in 1 .. Len(s) : i = j + 1
          BY <1>4, <4>2
        <5>2. ~ Ended(f) /\ LiveAt(s, j) /\ t[i] = s[j]
          BY <1>2, <1>3, <3>1, <5>1
        <5> QED BY <2>3, <5>2 DEF Calm
      <4> QED BY <4>1, <4>2
    <3> QED BY <2>3, <3>1 DEF Calm
  <2>4. t \in Calm(E, p) => t \in Owned(E, p)
    BY DEF Calm
  <2>5. ASSUME Ended(f) \/ s \in Calm(E, p) PROVE Ended(f) \/ s \in Owned(E, p)
    BY <2>5 DEF Calm
  <2>6. t \in Owned(E, p) /\ ~ AlarmsAlone => t \in Calm(E, p)
    BY DEF Calm
  <2> QED BY <1>7, <2>1, <2>2, <2>3, <2>4, <2>5, <2>6
<1> QED BY <1>1, <1>7, <1>8

\* More entries only allow more.
LEMMA MoreEntries ==
    ASSUME NEW E, NEW D, E \subseteq D
    PROVE  /\ Held(E) \subseteq Held(D) /\ Seq(Held(E)) \subseteq Seq(Held(D)) /\ Seq(E) \subseteq Seq(D)
           /\ \A p : Owned(E, p) \subseteq Owned(D, p) /\ Calm(E, p) \subseteq Calm(D, p)
<1>1. Held(E) \subseteq Held(D)
  BY DEF Held
<1>2. Seq(Held(E)) \subseteq Seq(Held(D)) /\ Seq(E) \subseteq Seq(D)
  BY <1>1, SeqMonotonic
<1>3. \A p : Owned(E, p) \subseteq Owned(D, p)
  BY <1>2 DEF Owned
<1>4. \A p : Calm(E, p) \subseteq Calm(D, p)
  BY <1>3 DEF Calm
<1> QED BY <1>1, <1>2, <1>3, <1>4

\* There is one lead.
LEMMA LeadIs ==
    ASSUME NEW X, NEW s \in Seq(X), NEW i \in 1 .. Len(s), IsLead(s, i)
    PROVE  HasLead(s) /\ Lead(s) = s[i]
<1>1. PICK k : k = CHOOSE j \in 1 .. Len(s) : IsLead(s, j)
  OBVIOUS
<1>2. k \in 1 .. Len(s) /\ IsLead(s, k)
  BY <1>1
<1>3. ~ (k < i) /\ ~ (i < k)
  BY <1>2 DEF IsLead
<1>4. k = i
  BY <1>2, <1>3
<1> QED BY <1>1, <1>4 DEF Lead, HasLead

\* The lead under a frame of the scheduler is that of the rest.
LEMMA LeadOn ==
    ASSUME NEW X, NEW f \in X, NEW s \in Seq(X)
    PROVE  /\ Lead(<<f>> \o s) = IF Skips(f) THEN Lead(s) ELSE f
           /\ HasLead(<<f>> \o s) <=> ~ Skips(f) \/ HasLead(s)
<1>t. PICK t : t = <<f>> \o s
  OBVIOUS
<1>0. /\ t \in Seq(X) /\ Len(t) = Len(s) + 1 /\ t[1] = f /\ Len(s) \in Nat
      /\ \A i \in 1 .. Len(s) : t[i + 1] = s[i]
  BY <1>t, OnTop
<1>1. CASE ~ Skips(f)
  <2>1. 1 \in 1 .. Len(t) /\ IsLead(t, 1)
    BY <1>0, <1>1 DEF IsLead
  <2>2. HasLead(t) /\ Lead(t) = f
    BY <1>0, <2>1, LeadIs
  <2> QED BY <1>t, <1>1, <2>2
<1>2. CASE Skips(f)
  <2>1. ASSUME NEW i \in 1 .. Len(s), IsLead(s, i) PROVE i + 1 \in 1 .. Len(t) /\ IsLead(t, i + 1)
    <3>1. ASSUME NEW j \in 1 .. i PROVE Skips(t[j])
      <4>1. CASE j = 1
        BY <1>0, <1>2, <4>1
      <4>2. CASE j # 1
        <5>1. j - 1 \in 1 .. i - 1 /\ j - 1 \in 1 .. Len(s) /\ (j - 1) + 1 = j
          BY <1>0, <4>2
        <5>2. t[j] = s[j - 1]
          BY <1>0, <5>1
        <5> QED BY <2>1, <5>1, <5>2 DEF IsLead
      <4> QED BY <4>1, <4>2
    <3>2. i + 1 \in 1 .. Len(t) /\ t[i + 1] = s[i] /\ (i + 1) - 1 = i
      BY <1>0
    <3> QED BY <2>1, <3>1, <3>2 DEF IsLead
  <2>2. ASSUME NEW i \in 1 .. Len(t), IsLead(t, i) PROVE i - 1 \in 1 .. Len(s) /\ IsLead(s, i - 1)
    <3>1. i # 1
      BY <1>0, <1>2, <2>2 DEF IsLead
    <3>2. i - 1 \in 1 .. Len(s) /\ (i - 1) + 1 = i
      BY <1>0, <3>1
    <3>3. s[i - 1] = t[i]
      BY <1>0, <3>2
    <3>4. ASSUME NEW j \in 1 .. (i - 1) - 1 PROVE Skips(s[j])
      <4>1. j \in 1 .. Len(s) /\ j + 1 \in 1 .. i - 1
        BY <1>0, <3>2
      <4>2. s[j] = t[j + 1]
        BY <1>0, <4>1
      <4> QED BY <2>2, <4>1, <4>2 DEF IsLead
    <3> QED BY <2>2, <3>2, <3>3, <3>4 DEF IsLead
  <2>3. HasLead(t) <=> HasLead(s)
    BY <2>1, <2>2 DEF HasLead
  <2>4. CASE HasLead(s)
    <3>1. PICK i \in 1 .. Len(s) : IsLead(s, i)
      BY <2>4 DEF HasLead
    <3>2. Lead(s) = s[i]
      BY <3>1, LeadIs
    <3>3. i + 1 \in 1 .. Len(t) /\ IsLead(t, i + 1)
      BY <2>1, <3>1
    <3>4. Lead(t) = t[i + 1]
      BY <1>0, <3>3, LeadIs
    <3> QED BY <1>0, <1>t, <1>2, <2>3, <3>1, <3>2, <3>4
  <2>5. CASE ~ HasLead(s)
    BY <1>t, <1>2, <2>3, <2>5 DEF Lead
  <2> QED BY <2>4, <2>5
<1> QED BY <1>1, <1>2

\* Who is queued next by a stack with a frame on top.
LEMMA RunnerOn ==
    ASSUME NEW X, NEW f \in X, NEW s \in Seq(X)
    PROVE  Runner(<<f>> \o s) = IF Pending(f) THEN f.who
                                ELSE IF f.fn = "alarm" /\ f.next = Nothing /\ Pending(Peek(s)) THEN Peek(s).who
                                ELSE Nothing
<1>1. PICK t : t = <<f>> \o s
  OBVIOUS
<1>2. Peek(t) = f /\ Tail(t) = s
  BY <1>1, OnTop
<1> QED BY <1>1, <1>2 DEF Runner

\* The frame below the top.
LEMMA Second ==
    ASSUME NEW X, NEW s \in Seq(X), 2 \in 1 .. Len(s)
    PROVE  Peek(Tail(s)) = s[2]
<1>1. Len(s) \in Nat /\ s # <<>>
  BY LenProperties, EmptySeq
<1>2. /\ Tail(s) \in Seq(X) /\ Len(Tail(s)) = Len(s) - 1
      /\ \A i \in 1 .. Len(Tail(s)) : Tail(s)[i] = s[i + 1]
  BY <1>1, HeadTailProperties
<1>3. 1 \in 1 .. Len(Tail(s)) /\ 1 + 1 = 2
  BY <1>1, <1>2
<1>4. Tail(s)[1] = s[2]
  BY <1>2, <1>3
<1>5. Tail(s) # <<>>
  <2>1. Len(Tail(s)) # 0
    BY <1>1, <1>2
  <2> QED BY <2>1, EmptySeq
<1> QED BY <1>4, <1>5 DEF Peek, Head

\* What does not return to what it is put on does as it does alone.
LEMMA Covers ==
    ASSUME NEW E, NEW p, NEW s \in Calm(E, p), HasEnd(s), NEW r \in Seq(Held(E))
    PROVE  /\ s \o r \in Calm(E, p) /\ s # <<>> /\ Peek(s \o r) = Peek(s)
           /\ Lead(s \o r) = Lead(s) /\ Runner(s \o r) = Runner(s)
<1>t. PICK t : t = s \o r
  OBVIOUS
<1>0. /\ s \in Seq(Held(E)) /\ Len(s) \in Nat /\ Len(r) \in Nat /\ t \in Seq(Held(E)) /\ Len(t) = Len(s) + Len(r)
      /\ \A i \in 1 .. Len(s) : t[i] = s[i] /\ s[i] \in Held(E)
      /\ s \in Owned(E, p)
  BY <1>t, ConcatProperties, LenProperties DEF Calm, Owned
<1>1. PICK k \in 1 .. Len(s) : Ended(s[k])
  BY DEF HasEnd
<1>2. s # <<>> /\ Head(s) = s[1] /\ 1 \in 1 .. Len(s) /\ Peek(s) = s[1]
  <2>1. s # <<>> /\ 1 \in 1 .. Len(s)
    BY <1>0, <1>1, EmptySeq
  <2> QED BY <2>1 DEF Peek, Head
<1>3. t # <<>> /\ Peek(t) = s[1]
  <2>1. t # <<>> /\ t[1] = s[1]
    BY <1>0, <1>2, EmptySeq
  <2> QED BY <2>1 DEF Peek, Head
<1>4. \A i \in 1 .. Len(s) : LiveAt(t, i) <=> LiveAt(s, i)
  <2>1. ASSUME NEW i \in 1 .. Len(s) PROVE \A j \in 1 .. i - 1 : t[j] = s[j]
    BY <1>0
  <2> QED BY <2>1 DEF LiveAt
<1>5. ASSUME NEW i \in 1 .. Len(t), LiveAt(t, i)
      PROVE  i \in 1 .. Len(s) /\ LiveAt(s, i) /\ t[i] = s[i]
  <2>1. t[k] = s[k]
    BY <1>0, <1>1
  <2>2. ~ (k < i)
    BY <1>1, <1>5, <2>1 DEF LiveAt
  <2>3. i \in 1 .. Len(s)
    BY <1>0, <2>2
  <2> QED BY <1>0, <1>4, <1>5, <2>3
<1>6. ASSUME NEW i \in 1 .. Len(t), LiveAt(t, i) PROVE Good(t[i], Under(t, i), p)
  <2>1. i \in 1 .. Len(s) /\ LiveAt(s, i) /\ t[i] = s[i]
    BY <1>5, <1>6
  <2>2. Good(s[i], Under(s, i), p)
    BY <1>0, <2>1 DEF Owned
  <2>3. CASE i < Len(s)
    <3>1. i + 1 \in 1 .. Len(s) /\ i < Len(t)
      BY <1>0, <2>3
    <3> QED BY <1>0, <2>1, <2>2, <2>3, <3>1 DEF Under
  <2>4. CASE ~ (i < Len(s))
    <3>1. i = Len(s) /\ Under(s, i) = Bottom
      BY <2>1, <2>4 DEF Under
    <3>2. Ended(s[i])
      <4>1. k = i \/ k < i
        BY <3>1
      <4> QED BY <1>1, <2>1, <4>1 DEF LiveAt
    <3>3. Bottom.fn = "" /\ ~ Firm(Bottom)
      BY DEF Bottom, Frame, Firm
    <3>4. ASSUME NEW g PROVE Good(s[i], g, p)
      BY <2>2, <3>1, <3>2, <3>3 DEF Good
    <3> QED BY <2>1, <3>4
  <2> QED BY <2>3, <2>4
<1>7. t \in Owned(E, p)
  BY <1>0, <1>6 DEF Owned
<1>8. t \in Calm(E, p)
  BY <1>5, <1>7 DEF Calm
<1>9. Lead(t) = Lead(s)
  <2>1. PICK i \in 1 .. Len(s) : IsLead(s, i)
    BY DEF HasEnd, HasLead
  <2>2. i \in 1 .. Len(t) /\ IsLead(t, i) /\ t[i] = s[i]
    BY <1>0, <2>1 DEF IsLead
  <2> QED BY <1>0, <2>1, <2>2, LeadIs
<1>10. Runner(t) = Runner(s)
  <2>1. CASE Len(s) = 1
    <3>1. k = 1
      BY <1>1, <2>1
    <3>2. Ended(s[1]) /\ s[1] \in Held(E)
      BY <1>0, <1>1, <1>2, <3>1
    <3>3. ~ (s[1].fn = "alarm" /\ s[1].next = Nothing)
      BY <3>2 DEF Ended, Suspending, Held
    <3> QED BY <1>2, <1>3, <3>3 DEF Runner
  <2>2. CASE Len(s) # 1
    <3>1. 2 \in 1 .. Len(s) /\ 2 \in 1 .. Len(t)
      <4>1. ASSUME NEW m \in Nat, NEW n \in Nat, m # 1, 1 \in 1 .. m PROVE 2 \in 1 .. m /\ 2 \in 1 .. m + n
        BY <4>1
      <4> QED BY <1>0, <1>2, <2>2, <4>1
    <3>2. Peek(Tail(s)) = s[2]
      BY <1>0, <3>1, Second
    <3>3. Peek(Tail(t)) = t[2]
      BY <1>0, <3>1, Second
    <3> QED BY <1>0, <1>2, <1>3, <3>1, <3>2, <3>3 DEF Runner
  <2> QED BY <2>1, <2>2
<1> QED BY <1>t, <1>2, <1>3, <1>8, <1>9, <1>10

----------------------------------------------------------------------------
(* The stacks of the machines.                                             *)

\* What a machine executes.
LEMMA OnMachine ==
    ASSUME NEW E, Whole(E), NEW v \in VMs, stack[v] # <<>>
    PROVE  /\ Top(v) \in Held(E) /\ Rest(v) \in Seq(Held(E)) /\ stack[v] = <<Top(v)>> \o Rest(v)
           /\ Peek(stack[v]) = Top(v) /\ Good(Top(v), Peek(Rest(v)), reg[v])
           /\ ~ Ended(Top(v)) => Rest(v) \in Calm(E, reg[v])
           /\ (AlarmsAlone => Settled(Top(v))) => stack[v] \in Calm(E, reg[v])
<1>1. stack[v] \in Seq(Held(E)) /\ stack[v] \in Owned(E, reg[v])
  BY DEF Whole, Active
<1>2. Top(v) \in Held(E) /\ Rest(v) \in Seq(Held(E)) /\ stack[v] = <<Top(v)>> \o Rest(v) /\ Peek(stack[v]) = Top(v)
  BY <1>1, Split DEF Top, Rest
<1>3. <<Top(v)>> \o Rest(v) \in Owned(E, reg[v])
  BY <1>1, <1>2
<1>4. Good(Top(v), Peek(Rest(v)), reg[v])
  BY <1>2, <1>3, Owns
<1>5. ~ Ended(Top(v)) => Rest(v) \in Calm(E, reg[v])
  BY DEF Whole, Active
<1>6. ASSUME AlarmsAlone => Settled(Top(v)) PROVE <<Top(v)>> \o Rest(v) \in Calm(E, reg[v])
  BY <1>2, <1>4, <1>5, <1>6, Owns
<1> QED BY <1>2, <1>4, <1>5, <1>6

\* A machine goes on with stack s, and the entries are in D.
LEMMA GoesTo ==
    ASSUME NEW E, Whole(E), NEW D, E \subseteq D, Stored(D), NEW v \in VMs, NEW s \in Owned(D, reg'[v]),
           s # <<>> /\ ~ Ended(Head(s)) => Tail(s) \in Calm(D, reg'[v]),
           stack' = [stack EXCEPT ![v] = s], \A u \in VMs \ {v} : reg'[u] = reg[u],
           queue' \in Seq(D), semQ' \in Seq(D), dependantsQ' \in Seq(D),
           AlarmsAlone /\ expired' => expired /\ Settled(Peek(s))
    PROVE  Whole(D)'
<1>1. /\ stack \in [VMs -> Seq(Held(E))] /\ Seq(Held(E)) \subseteq Seq(Held(D)) /\ s \in Seq(Held(D))
      /\ \A p : Owned(E, p) \subseteq Owned(D, p) /\ Calm(E, p) \subseteq Calm(D, p)
  BY MoreEntries DEF Whole, Active, Owned
<1>2. stack' \in [VMs -> Seq(Held(D))] /\ stack'[v] = s /\ \A u \in VMs \ {v} : stack'[u] = stack[u]
  BY <1>1
<1>3. ASSUME NEW u \in VMs
      PROVE  /\ stack'[u] \in Owned(D, reg'[u])
             /\ stack'[u] # <<>> /\ ~ Ended(Top(u)') => Rest(u)' \in Calm(D, reg'[u])
  <2>1. CASE u = v
    BY <1>2, <2>1 DEF Top, Rest
  <2>2. CASE u # v
    BY <1>1, <1>2, <2>2 DEF Whole, Active, Top, Rest
  <2> QED BY <2>1, <2>2
<1>4. Active(D)'
  BY <1>2, <1>3 DEF Active
<1>5. Struck'
  BY <1>2 DEF Whole, Struck, AlarmsAlone
<1> QED BY <1>4, <1>5 DEF Whole, Stored

\* A machine goes on with frame f on top of r.
LEMMA GoesOn ==
    ASSUME NEW E, Whole(E), NEW D, E \subseteq D, Stored(D), NEW v \in VMs, NEW f \in Held(D), NEW r \in Seq(Held(D)),
           Good(f, Peek(r), reg'[v]), Ended(f) \/ r \in Calm(D, reg'[v]),
           Become(v, <<f>> \o r), \A u \in VMs \ {v} : reg'[u] = reg[u],
           queue' \in Seq(D), semQ' \in Seq(D), dependantsQ' \in Seq(D),
           AlarmsAlone /\ expired' => expired /\ Settled(f)
    PROVE  Whole(D)'
<1>1. PICK s : s = <<f>> \o r
  OBVIOUS
<1>2. Ended(f) \/ r \in Owned(D, reg'[v])
  BY DEF Calm
<1>3. s \in Owned(D, reg'[v]) /\ Head(s) = f /\ Tail(s) = r /\ Peek(s) = f
  BY <1>1, <1>2, Owns, OnTop
<1>4. stack' = [stack EXCEPT ![v] = s]
  BY <1>1 DEF Become
<1> QED BY <1>3, <1>4, GoesTo

Still == reg' = reg /\ queue' = queue /\ semQ' = semQ /\ dependantsQ' = dependantsQ

\* A machine goes on with frame f on top of r, and nothing else changes.
LEMMA Keeps ==
    ASSUME NEW E, Whole(E), NEW v \in VMs, NEW f \in Held(E), NEW r \in Seq(Held(E)), Good(f, Peek(r), reg[v]),
           Ended(f) \/ r \in Calm(E, reg[v]), Become(v, <<f>> \o r), Still, AlarmsAlone /\ expired' => expired /\ Settled(f)
    PROVE  Whole(E)'
BY GoesOn DEF Still, Whole

\* A machine goes on with a calm stack.
LEMMA Returns ==
    ASSUME NEW E, Whole(E), NEW v \in VMs, NEW s \in Calm(E, reg[v]), Become(v, s), Still, expired' => expired
    PROVE  Whole(E)'
<1>1. s \in Seq(Held(E)) /\ s \in Owned(E, reg[v])
  BY DEF Calm, Owned
<1>2. s # <<>> => /\ ~ Ended(Head(s)) => Tail(s) \in Calm(E, reg[v])
                  /\ AlarmsAlone => Settled(Peek(s))
  <2>1. ASSUME s # <<>> PROVE <<Head(s)>> \o Tail(s) \in Calm(E, reg[v]) /\ Head(s) \in Held(E) /\ Tail(s) \in Seq(Held(E))
                              /\ Peek(s) = Head(s)
    BY <1>1, <2>1, Split
  <2> QED BY <2>1, Owns
<1>3. s = <<>> => Settled(Peek(s))
  BY DEF Settled, Peek, Bottom, Frame
<1>4. stack' = [stack EXCEPT ![v] = s]
  BY DEF Become
<1> QED BY <1>1, <1>2, <1>3, <1>4, GoesTo DEF Still, Whole

\* The frame on top goes on to point a.
LEMMA Advances ==
    ASSUME NEW E, NEW p, NEW f \in Held(E), NEW g, Good(f, g, p), NEW a \in Points \ {"return"},
           a = "block" => f.fn = "wait", a = "claim" => f.fn = "force",
           f.next # Nothing => a \in {"release", "enable", "go"},
           f.fn \in Switchers /\ f.next = Nothing => a \in {"disable", "acquire", "inside"},
           Ended(f) => Ended([f EXCEPT !.at = a])
    PROVE  /\ [f EXCEPT !.at = a] \in Held(E) /\ Good([f EXCEPT !.at = a], g, p)
           /\ Settled(f) => Settled([f EXCEPT !.at = a])
           /\ [f EXCEPT !.at = a].fn = f.fn /\ [f EXCEPT !.at = a].at = a /\ [f EXCEPT !.at = a].next = f.next
           /\ [f EXCEPT !.at = a].who = f.who
<1>1. PICK h : h = [f EXCEPT !.at = a]
  OBVIOUS
<1>2. /\ h.fn = f.fn /\ h.at = a /\ h.next = f.next /\ h.who = f.who /\ h.n = f.n
      /\ h \in [fn : Functions_, at : Points, who : Procs \cup {Nothing}, n : Nat, next : {Nothing} \cup E]
  BY <1>1 DEF Held
<1>3. h \in Held(E)
  BY <1>2 DEF Held
<1>4. Good(h, g, p)
  <2>1. Ended(f) => Ended(h)
    BY <1>1
  <2> QED BY <1>2, <2>1 DEF Good
<1>5. Settled(f) => Settled(h)
  BY <1>2 DEF Settled
<1> QED BY <1>1, <1>2, <1>3, <1>4, <1>5

\* The machine goes on to point a of the function, and the entries are in D.
LEMMA WholeGoTo ==
    ASSUME NEW E, Whole(E), NEW D, E \subseteq D, Stored(D), NEW v \in VMs, stack[v] # <<>>, NEW a \in Points \ {"return"},
           a = "block" => Top(v).fn = "wait", a = "claim" => Top(v).fn = "force",
           Top(v).next # Nothing => a \in {"release", "enable", "go"},
           Top(v).fn \in Switchers /\ Top(v).next = Nothing => a \in {"disable", "acquire", "inside"},
           Ended(Top(v)) => Ended([Top(v) EXCEPT !.at = a]),
           GoTo(v, a), reg' = reg, queue' \in Seq(D), semQ' \in Seq(D), dependantsQ' \in Seq(D), expired' => expired
    PROVE  Whole(D)'
<1>1. /\ Top(v) \in Held(D) /\ Rest(v) \in Seq(Held(D)) /\ Peek(stack[v]) = Top(v)
      /\ Good(Top(v), Peek(Rest(v)), reg[v]) /\ (~ Ended(Top(v)) => Rest(v) \in Calm(D, reg[v]))
  BY OnMachine, MoreEntries
<1>2. PICK f : f = [Top(v) EXCEPT !.at = a]
  OBVIOUS
<1>3. f \in Held(D) /\ Good(f, Peek(Rest(v)), reg[v]) /\ (Settled(Top(v)) => Settled(f))
  BY <1>1, <1>2, Advances
<1>4. Ended(f) \/ Rest(v) \in Calm(D, reg[v])
  BY <1>1, <1>2
<1>5. Become(v, <<f>> \o Rest(v))
  BY <1>2 DEF GoTo
<1>6. AlarmsAlone /\ expired' => expired /\ Settled(f)
  BY <1>1, <1>3 DEF Whole, Struck
<1> QED BY <1>1, <1>3, <1>4, <1>5, <1>6, GoesOn

\* The same, when nothing else changes.
LEMMA WholeStill ==
    ASSUME NEW E, Whole(E), NEW v \in VMs, stack[v] # <<>>, NEW a \in Points \ {"return"},
           a = "block" => Top(v).fn = "wait", a = "claim" => Top(v).fn = "force",
           Top(v).next # Nothing => a \in {"release", "enable", "go"},
           Top(v).fn \in Switchers /\ Top(v).next = Nothing => a \in {"disable", "acquire", "inside"},
           Ended(Top(v)) => Ended([Top(v) EXCEPT !.at = a]),
           GoTo(v, a), Still, expired' => expired
    PROVE  Whole(E)'
BY WholeGoTo DEF Still, Whole

\* A frame without a continuation that is not about to look for another process.
LEMMA Ordinary ==
    ASSUME NEW E, NEW f \in Held(E), f.fn \notin Switchers, f.at \notin {"block", "claim"},
           f.fn = "force" => f.at # "unlock"
    PROVE  ~ Ended(f) /\ Settled(f) /\ f.next = Nothing
BY DEF Ended, Settled, Held, Suspending, Switchers

Steps == {"disable", "acquire", "inside", "release", "enable", "go"}

\* Each step of acquire-scheduler and release-scheduler.
LEMMA WholeScheduler ==
    ASSUME NEW E, Whole(E), NEW v \in VMs,
           DisableAlarms(v) \/ AcquireScheduler(v) \/ ReleaseScheduler(v) \/ EnableAlarms(v)
    PROVE  Whole(E)'
<1> USE DEF At, clock, semaphore, future
<1>1. stack[v] # <<>> /\ Top(v).fn \in Users
  BY DEF DisableAlarms, AcquireScheduler, ReleaseScheduler, EnableAlarms, Top
<1>2. Top(v) \in Held(E) /\ Rest(v) \in Seq(Held(E)) /\ (~ Ended(Top(v)) => Rest(v) \in Calm(E, reg[v]))
  BY <1>1, OnMachine
<1>3. \A a \in Steps : a \in Points \ {"return"} /\ a # "block" /\ a # "claim"
  BY DEF Steps, Points
<1>4. \A a \in Steps : Ended(Top(v)) => Ended([Top(v) EXCEPT !.at = a])
  <2>1. Top(v).at \in {"disable", "acquire", "release", "enable"} /\ Top(v).fn # "force"
    BY <1>1 DEF DisableAlarms, AcquireScheduler, ReleaseScheduler, EnableAlarms, Top, Users, Switchers
  <2>2. ASSUME NEW a \in Steps, NEW h, h = [Top(v) EXCEPT !.at = a] PROVE h.fn = Top(v).fn /\ h.next = Top(v).next
    BY <1>2, <2>2 DEF Held
  <2> QED BY <2>1, <2>2 DEF Ended, Suspending
<1>5. CASE DisableAlarms(v)
  <2>1. Top(v).at = "disable" /\ Top(v).next = Nothing
    BY <1>2, <1>5 DEF DisableAlarms, Top, Held
  <2>2. GoTo(v, "acquire") /\ Still /\ (expired' => expired) /\ "acquire" \in Steps
    BY <1>5 DEF DisableAlarms, Still, Steps
  <2> QED BY <1>1, <1>3, <1>4, <2>1, <2>2, WholeStill
<1>6. CASE AcquireScheduler(v)
  <2>1. Top(v).at = "acquire" /\ Top(v).next = Nothing
    BY <1>2, <1>6 DEF AcquireScheduler, Top, Held
  <2>2. GoTo(v, "inside") /\ Still /\ (expired' => expired) /\ "inside" \in Steps
    BY <1>6 DEF AcquireScheduler, Still, Steps
  <2> QED BY <1>1, <1>3, <1>4, <2>1, <2>2, WholeStill
<1>7. CASE ReleaseScheduler(v)
  <2>1. Top(v).fn \in Switchers => Top(v).next # Nothing
    BY <1>2, <1>7 DEF ReleaseScheduler, Top, Held
  <2>2. GoTo(v, "enable") /\ Still /\ (expired' => expired) /\ "enable" \in Steps
    BY <1>7 DEF ReleaseScheduler, Still, Steps
  <2> QED BY <1>1, <1>3, <1>4, <2>1, <2>2, WholeStill
<1>8. CASE EnableAlarms(v) /\ Top(v).fn \in Switchers
  <2>1. Top(v).next # Nothing
    BY <1>2, <1>8 DEF EnableAlarms, Top, Held
  <2>2. GoTo(v, "go") /\ Still /\ (expired' => expired) /\ "go" \in Steps
    BY <1>8 DEF EnableAlarms, Still, Steps
  <2> QED BY <1>1, <1>3, <1>4, <2>1, <2>2, WholeStill
<1>9. CASE EnableAlarms(v) /\ Top(v).fn \notin Switchers
  <2>1. Become(v, Rest(v)) /\ Still /\ (expired' => expired) /\ Top(v).at = "enable"
    BY <1>9 DEF EnableAlarms, Still, Top
  <2>2. ~ Ended(Top(v))
    BY <1>1, <1>2, <1>9, <2>1, Ordinary DEF Users
  <2> QED BY <1>2, <2>1, <2>2, Returns
<1> QED BY <1>5, <1>6, <1>7, <1>8, <1>9

\* An entry is one of the set with it.
LEMMA Storing ==
    ASSUME NEW E, Stored(E), EntriesAreSomething, NEW p \in Procs, NEW b \in BOOLEAN, NEW s \in Calm(E, p), b \/ HasEnd(s)
    PROVE  Stored(E \cup {[proc |-> p, throw |-> b, stack |-> s]})
<1>d. PICK D : D = E \cup {[proc |-> p, throw |-> b, stack |-> s]}
  OBVIOUS
<1>1. /\ E \subseteq D /\ Seq(Held(E)) \subseteq Seq(Held(D)) /\ s \in Seq(Held(E))
      /\ \A q : Calm(E, q) \subseteq Calm(D, q)
  BY <1>d, MoreEntries DEF Calm, Owned
<1>2. ASSUME NEW e \in D
      PROVE  /\ e # Nothing /\ e \in [proc : Procs, throw : BOOLEAN, stack : Seq(Held(D))]
             /\ e.stack \in Calm(D, e.proc) /\ (~ e.throw => HasEnd(e.stack))
  <2>1. CASE e \in E
    BY <1>1, <2>1 DEF Stored
  <2>2. CASE e = [proc |-> p, throw |-> b, stack |-> s]
    BY <1>1, <2>2 DEF EntriesAreSomething
  <2> QED BY <1>d, <2>1, <2>2
<1> QED BY <1>d, <1>1, <1>2 DEF Stored

\* A new frame, of a function that takes no process.
LEMMA Fresh ==
    ASSUME NEW E, NEW fn \in {"pause", "alarm", "start", "signal", "wait", "force", "append"},
           NEW a \in Points \ {"block", "claim"}, fn \in Switchers => a \in {"disable", "acquire", "inside"}
    PROVE  /\ Frame(fn, a) \in Held(E) /\ Settled(Frame(fn, a))
           /\ Frame(fn, a).fn = fn /\ Frame(fn, a).at = a /\ Frame(fn, a).next = Nothing
BY DEF Frame, Held, Settled, Functions_, Users, Switchers

\* A continuation of two frames, the second of which ends it.
LEMMA TwoFrames ==
    ASSUME NEW E, NEW p, NEW f \in Held(E), NEW g \in Held(E), Good(f, g, p), Good(g, Bottom, p), Ended(g),
           Settled(f), Settled(g)
    PROVE  /\ <<f, g>> \in Calm(E, p) /\ Peek(<<f, g>>) = f
           /\ ~ Skips(f) => HasEnd(<<f, g>>) /\ Lead(<<f, g>>) = f
<1>1. PICK z : z = <<>>
  OBVIOUS
<1>2. z \in Seq(Held(E)) /\ Peek(z) = Bottom
  BY <1>1, EmptySeq DEF Peek
<1>3. PICK r : r = <<g>> \o z
  OBVIOUS
<1>4. r \in Seq(Held(E)) /\ Peek(r) = g
  BY <1>2, <1>3, OnTop
<1>5. <<g>> \o z \in Calm(E, p)
  BY <1>2, Owns
<1>6. r \in Calm(E, p)
  BY <1>3, <1>5
<1>7. PICK s : s = <<f>> \o r
  OBVIOUS
<1>8. <<f>> \o r \in Calm(E, p)
  BY <1>4, <1>6, Owns
<1>9. s \in Calm(E, p) /\ Peek(s) = f /\ (~ Skips(f) => Lead(s) = f /\ HasLead(s))
  BY <1>4, <1>7, <1>8, OnTop, LeadOn
<1>10. s = <<f, g>>
  <2>1. Len(z) = 0
    BY <1>1
  <2>2. Len(r) = 1 /\ r[1] = g
    BY <1>2, <1>3, <2>1, OnTop
  <2>3. s \in Seq(Held(E)) /\ Len(s) = Len(r) + 1 /\ s[1] = f /\ \A i \in 1 .. Len(r) : s[i + 1] = r[i]
    BY <1>4, <1>7, OnTop
  <2>4. Len(s) = 2 /\ s[2] = g
    BY <2>2, <2>3
  <2>5. PICK u : u = <<f, g>>
    OBVIOUS
  <2>6. u \in Seq(Held(E)) /\ Len(u) = 2 /\ u[1] = f /\ u[2] = g
    BY <2>5
  <2>7. s = u
    BY <2>3, <2>4, <2>6, SeqEqual
  <2> QED BY <2>5, <2>7
<1>11. ~ Skips(f) => HasEnd(s)
  <2>1. Len(s) = 2 /\ s[2] = g
    BY <1>10
  <2> QED BY <1>9, <2>1 DEF HasEnd
<1> QED BY <1>9, <1>10, <1>11

\* The frames that a process starts with.
LEMMA Newborn ==
    ASSUME NEW E, NEW p \in Procs
    PROVE  /\ Body(p) \in Held(E) /\ RunFn(p) \in Held(E) /\ [Frame("fill", "call") EXCEPT !.who = p] \in Held(E)
           /\ Settled(RunFn(p)) /\ ~ Ended(RunFn(p))
           /\ Thunk(p) \in Calm(E, p) /\ HasEnd(Thunk(p)) /\ Len(Thunk(p)) = 2 /\ Thunk(p)[1].at = "call"
           /\ Thunk(p)[1].fn = IF p = Filler THEN "fill" ELSE "body"
           /\ Lead(Thunk(p)) = Thunk(p)[1] /\ Peek(Thunk(p)) = Thunk(p)[1] /\ Thunk(p)[1].next = Nothing
<1>1. PICK b : b = IF p = Filler THEN [Frame("fill", "call") EXCEPT !.who = p] ELSE Body(p)
  OBVIOUS
<1>2. PICK e : e = Frame("start", "disable")
  OBVIOUS
<1>3. /\ Body(p) \in Held(E) /\ RunFn(p) \in Held(E) /\ [Frame("fill", "call") EXCEPT !.who = p] \in Held(E)
      /\ Settled(RunFn(p)) /\ ~ Ended(RunFn(p))
  BY DEF Body, RunFn, Frame, Held, Settled, Ended, Suspending, Functions_, Users, Switchers, Points
<1>4. /\ b \in Held(E) /\ b.fn = (IF p = Filler THEN "fill" ELSE "body") /\ b.at = "call" /\ b.who = p /\ b.next = Nothing
  BY <1>1, <1>3 DEF Body, Frame
<1>5. e \in Held(E) /\ e.fn = "start" /\ e.at = "disable" /\ e.next = Nothing
  BY <1>2, Fresh DEF Points, Switchers
<1>6. Good(b, e, p) /\ Good(e, Bottom, p) /\ Ended(e) /\ Settled(e) /\ Settled(b) /\ ~ Skips(b)
  BY <1>4, <1>5 DEF Good, Ended, Suspending, Settled, Skips
<1>7. PICK s : s = <<b, e>>
  OBVIOUS
<1>8. s \in Calm(E, p) /\ HasEnd(s) /\ Lead(s) = b /\ Peek(s) = b /\ Len(s) = 2 /\ s[1] = b
  BY <1>4, <1>5, <1>6, <1>7, TwoFrames
<1>9. Thunk(p) = s
  BY <1>1, <1>2, <1>7 DEF Thunk
<1> QED BY <1>3, <1>4, <1>8, <1>9

\* A machine that takes the first entry of q.
LEMMA Taking ==
    ASSUME NEW E, Whole(E), NEW D, E \subseteq D, Stored(D), NEW v \in VMs, stack[v] # <<>>,
           Top(v).fn \in Switchers, NEW q \in Seq(D), q # <<>>, SwitchTo(v, q), reg \in [VMs -> Procs]
    PROVE  Whole(D)' /\ Top(v)'.next = Head(q) /\ reg'[v] = Head(q).proc /\ Head(q) \in D /\ stack'[v] # <<>>
<1>1. /\ Top(v) \in Held(D) /\ Rest(v) \in Seq(Held(D))
  BY OnMachine, MoreEntries
<1>2. Head(q) \in D /\ Tail(q) \in Seq(D) /\ Head(q).proc \in Procs
  BY Split DEF Stored
<1>3. PICK f : f = [Top(v) EXCEPT !.at = "release", !.next = Head(q)]
  OBVIOUS
<1>4. f \in Held(D) /\ f.next = Head(q) /\ f.fn \in Switchers
  <2>1. ASSUME NEW g \in Held(D), NEW h \in D, h # Nothing, g.fn \in Switchers
        PROVE  /\ [g EXCEPT !.at = "release", !.next = h] \in Held(D)
               /\ [g EXCEPT !.at = "release", !.next = h].next = h
               /\ [g EXCEPT !.at = "release", !.next = h].fn = g.fn
    BY <2>1 DEF Held, Points, Switchers
  <2> QED BY <1>1, <1>2, <1>3, <2>1 DEF Stored
<1>5. f.next # Nothing
  BY <1>2, <1>4 DEF Stored
<1>6. reg'[v] = Head(q).proc /\ \A u \in VMs \ {v} : reg'[u] = reg[u]
  BY DEF SwitchTo
<1>7. Good(f, Peek(Rest(v)), reg'[v]) /\ Ended(f)
  BY <1>4, <1>5, <1>6 DEF Good, Ended, Switchers
<1>8. Become(v, <<f>> \o Rest(v))
  BY <1>3 DEF SwitchTo
<1>9. queue' \in Seq(D) /\ semQ' \in Seq(D) /\ dependantsQ' \in Seq(D) /\ ~ expired'
  BY <1>2, MoreEntries DEF SwitchTo, Whole, semaphore, future
<1>10. Whole(D)'
  BY <1>1, <1>4, <1>6, <1>7, <1>8, <1>9, GoesOn
<1>11. stack'[v] = <<f>> \o Rest(v)
  BY <1>8 DEF Become, Whole, Active
<1> QED BY <1>1, <1>2, <1>4, <1>6, <1>10, <1>11, OnTop DEF Top

\* Each step that captures or resumes a continuation.
LEMMA WholeSwitch ==
    ASSUME NEW E, Whole(E), EntriesAreSomething, NeverIdle, reg \in [VMs -> Procs], NEW v \in VMs,
           Pause(v) \/ Start(v) \/ Go(v) \/ ProcessRunFn(v)
    PROVE  \E D : Whole(D)'
<1> USE DEF At
<1>1. stack[v] # <<>>
  BY DEF Pause, Start, Go, ProcessRunFn
<1>2. /\ Top(v) \in Held(E) /\ Rest(v) \in Seq(Held(E)) /\ Good(Top(v), Peek(Rest(v)), reg[v])
      /\ (~ Ended(Top(v)) => Rest(v) \in Calm(E, reg[v]))
  BY <1>1, OnMachine
<1>3. CASE Pause(v)
  <2>1. Top(v).fn \in Switchers \ {"start"} /\ Top(v).at = "inside"
    BY <1>3 DEF Pause, Top, Switchers
  <2>2. ~ Ended(Top(v))
    BY <1>2, <2>1 DEF Held, Ended, Suspending, Switchers
  <2>3. PICK D : D = E \cup {Throw(reg[v], Rest(v))}
    OBVIOUS
  <2>4. E \subseteq D /\ Stored(D)
    <3>1. Rest(v) \in Calm(E, reg[v]) /\ reg[v] \in Procs /\ Stored(E)
      BY <1>2, <2>2 DEF Whole
    <3> QED BY <2>3, <3>1, Storing DEF Throw
  <2>5. PICK q : q = Append(queue, Throw(reg[v], Rest(v)))
    OBVIOUS
  <2>6. q \in Seq(D) /\ q # <<>>
    <3>1. queue \in Seq(D) /\ Throw(reg[v], Rest(v)) \in D
      BY <2>3, <2>4, MoreEntries DEF Whole
    <3>2. q \in Seq(D) /\ Len(q) = Len(queue) + 1 /\ Len(queue) \in Nat
      BY <2>5, <3>1, AppendProperties, LenProperties
    <3>3. Len(q) # 0
      BY <3>2
    <3> QED BY <3>2, <3>3, EmptySeq
  <2>7. SwitchTo(v, q)
    BY <1>3, <2>5 DEF Pause
  <2> QED BY <1>1, <2>1, <2>4, <2>6, <2>7, Taking
<1>4. CASE Start(v)
  <2>1. Top(v).fn \in Switchers /\ queue # <<>> /\ SwitchTo(v, queue)
    BY <1>4 DEF Start, Top, Switchers, NeverIdle
  <2>2. queue \in Seq(E) /\ Stored(E)
    BY DEF Whole
  <2> QED BY <1>1, <2>1, <2>2, Taking
<1>5. CASE Go(v)
  <2>1. Top(v).next # Nothing
    BY <1>2, <1>5 DEF Go, Top, Held
  <2>2. PICK n : n = Top(v).next
    OBVIOUS
  <2>3. n \in E /\ n.proc = reg[v] /\ Stored(E)
    BY <1>2, <2>1, <2>2 DEF Held, Good, Whole
  <2>4. n.stack \in Calm(E, reg[v]) /\ (~ n.throw => HasEnd(n.stack))
    BY <2>3 DEF Stored
  <2>5. n.stack \o Rest(v) \in Calm(E, reg[v]) \/ n.throw
    BY <1>2, <2>4, Covers
  <2>6. Become(v, IF n.throw THEN n.stack ELSE n.stack \o Rest(v)) /\ Still /\ expired' = expired
    BY <1>5, <2>1, <2>2 DEF Go, Still, clock, semaphore, future
  <2> QED BY <2>4, <2>5, <2>6, Returns
<1>6. CASE ProcessRunFn(v)
  <2>1. Top(v).fn = "run" /\ Top(v).at = "inside"
    BY <1>6 DEF ProcessRunFn, Top
  <2>2. PICK w : w = Top(v).who
    OBVIOUS
  <2>3. w \in Procs
    BY <1>2, <2>1, <2>2 DEF Held
  <2>4. PICK D : D = E \cup {Call(w, Thunk(w))}
    OBVIOUS
  <2>5. E \subseteq D /\ Stored(D)
    <3>1. Thunk(w) \in Calm(E, w) /\ HasEnd(Thunk(w)) /\ Stored(E)
      BY <2>3, Newborn DEF Whole
    <3> QED BY <2>3, <2>4, <3>1, Storing DEF Call
  <2>6. queue' \in Seq(D) /\ semQ' \in Seq(D) /\ dependantsQ' \in Seq(D)
    <3>1. queue \in Seq(D) /\ semQ \in Seq(D) /\ dependantsQ \in Seq(D) /\ Call(w, Thunk(w)) \in D
      BY <2>4, <2>5, MoreEntries DEF Whole
    <3> QED BY <1>6, <2>2, <3>1, AppendProperties DEF ProcessRunFn, semaphore, future
  <2>7. GoTo(v, "release") /\ reg' = reg /\ expired' = expired
    BY <1>6 DEF ProcessRunFn, clock
  <2>8. ~ Ended(Top(v))
    BY <1>2, <2>1, Ordinary DEF Switchers
  <2>9. "release" \in Points \ {"return"} /\ Top(v).next = Nothing
    BY <1>2, <2>1 DEF Points, Held, Switchers
  <2> QED BY <1>1, <2>1, <2>5, <2>6, <2>7, <2>8, <2>9, WholeGoTo DEF Switchers
<1> QED BY <1>3, <1>4, <1>5, <1>6

\* A process is interrupted, takes a mutex, or its thousand instructions end.
LEMMA WholeAlarm ==
    ASSUME NEW E, Whole(E), NEW v \in VMs, Alarm(v) \/ AcquireMutex(v) \/ Tick(v), Clocked, world \in Worlds
    PROVE  Whole(E)'
<1> USE DEF At, clock, semaphore, future
<1>1. stack[v] # <<>>
  BY DEF Alarm, AcquireMutex, Tick
<1>2. Top(v) \in Held(E) /\ Rest(v) \in Seq(Held(E)) /\ Peek(stack[v]) = Top(v)
  BY <1>1, OnMachine
<1>3. CASE Alarm(v)
  <2>1. AlarmsAlone => Settled(Top(v))
    BY <1>2, <1>3 DEF Alarm, Whole, Struck
  <2>2. stack[v] \in Calm(E, reg[v]) /\ stack[v] \in Seq(Held(E))
    BY <1>1, <2>1, OnMachine DEF Calm, Owned
  <2>3. PICK f : f = Frame("alarm", "disable")
    OBVIOUS
  <2>4. f \in Held(E) /\ Settled(f) /\ f.fn = "alarm" /\ f.next = Nothing /\ f.at = "disable"
    BY <2>3, Fresh DEF Points, Switchers
  <2>5. Good(f, Peek(stack[v]), reg[v])
    BY <1>2, <1>3, <2>4 DEF Good, Alarm
  <2>6. Become(v, <<f>> \o stack[v]) /\ Still /\ ~ expired'
    BY <1>3, <2>3 DEF Alarm, Still
  <2> QED BY <2>2, <2>4, <2>5, <2>6, Keeps
<1>4. CASE AcquireMutex(v)
  <2>1. ~ Ended(Top(v)) /\ Top(v).next = Nothing /\ Top(v).fn \notin Switchers
    BY <1>2, <1>4, Ordinary DEF AcquireMutex, Top, Switchers
  <2>2. "locked" \in Points \ {"return"} /\ GoTo(v, "locked") /\ Still /\ (expired' => expired)
    BY <1>4 DEF Points, AcquireMutex, Still
  <2> QED BY <1>1, <2>1, <2>2, WholeStill
<1>5. CASE Tick(v)
  <2>1. Top(v).fn \notin Switchers
    BY <1>5 DEF Tick, Top, Switchers
  <2>2. Settled(Top(v))
    BY <1>2, <2>1 DEF Settled, Held
  <2>3. ASSUME AlarmsAlone PROVE \A u \in VMs : Settled(Peek(stack[u]))
    <3>1. world.machines = {Main}
      BY <1>5, <2>3 DEF AlarmsAlone, Tick
    <3>2. \A u \in VMs : u # Main => stack[u] = <<>>
      BY <3>1 DEF Clocked
    <3>3. v = Main
      BY <1>1, <3>2
    <3> QED BY <1>2, <2>2, <3>2, <3>3 DEF Settled, Peek, Bottom, Frame
  <2>4. UNCHANGED <<stack, reg, queue, semQ, dependantsQ>>
    BY <1>5 DEF Tick
  <2>5. Struck'
    BY <2>3, <2>4 DEF Struck, AlarmsAlone
  <2>6. Active(E)'
    BY <2>4 DEF Whole, Active, Top, Rest
  <2> QED BY <2>4, <2>5, <2>6 DEF Whole, Stored
<1> QED BY <1>3, <1>4, <1>5

\* What a process that waits goes back to.
LEMMA WaitGood ==
    ASSUME NEW E, Whole(E), NEW v \in VMs, stack[v] # <<>>, Top(v).fn = "wait"
    PROVE  /\ Returned(v) \in Seq(Held(E)) /\ Rest(v) \in Seq(Held(E)) /\ Top(v).next = Nothing
           /\ Top(v).at # "block" => Returned(v) \in Calm(E, reg[v]) /\ Rest(v) \in Calm(E, reg[v]) /\ ~ Ended(Top(v))
<1>1. /\ Top(v) \in Held(E) /\ Rest(v) \in Seq(Held(E)) /\ Good(Top(v), Peek(Rest(v)), reg[v])
      /\ (~ Ended(Top(v)) => Rest(v) \in Calm(E, reg[v]))
  BY OnMachine
<1>2. PICK f : f = [Top(v) EXCEPT !.at = "return"]
  OBVIOUS
<1>3. f \in Held(E) /\ f.fn = "wait" /\ f.next = Nothing /\ f.at = "return" /\ Top(v).next = Nothing
  BY <1>1, <1>2 DEF Held, Points, Switchers
<1>4. Settled(f) /\ ~ Ended(f)
  BY <1>3 DEF Settled, Ended, Suspending
<1>5. Returned(v) = <<f>> \o Rest(v)
  BY <1>2 DEF Returned
<1>6. Returned(v) \in Seq(Held(E))
  BY <1>1, <1>3, <1>5, OnTop
<1>7. ASSUME Top(v).at # "block" PROVE Returned(v) \in Calm(E, reg[v]) /\ Rest(v) \in Calm(E, reg[v]) /\ ~ Ended(Top(v))
  <2>1. ~ Ended(Top(v))
    BY <1>1, <1>3, <1>7 DEF Ended, Suspending, Held
  <2>2. Good(f, Peek(Rest(v)), reg[v])
    BY <1>1, <1>3, <2>1 DEF Good
  <2>3. Rest(v) \in Calm(E, reg[v])
    BY <1>1, <2>1
  <2>4. <<f>> \o Rest(v) \in Calm(E, reg[v])
    BY <1>1, <1>3, <1>4, <2>2, <2>3, Owns
  <2> QED BY <1>5, <2>1, <2>3, <2>4
<1> QED BY <1>1, <1>3, <1>6, <1>7

\* Each step of wait and of signal.
LEMMA WholeSemaphore ==
    ASSUME NEW E, Whole(E), EntriesAreSomething, reg \in [VMs -> Procs], NEW v \in VMs,
           Wait(v) \/ ReleaseWait(v) \/ Block(v) \/ WaitReturns(v) \/ Signal(v) \/ ReleaseSignal(v),
           Balanced, value \in Int
    PROVE  \E D : Whole(D)'
<1> USE DEF At, clock, semaphore, future
<1>1. stack[v] # <<>>
  BY DEF Wait, ReleaseWait, Block, WaitReturns, Signal, ReleaseSignal
<1>2. Top(v) \in Held(E) /\ Rest(v) \in Seq(Held(E)) /\ Good(Top(v), Peek(Rest(v)), reg[v])
  BY <1>1, OnMachine
<1>3. CASE Wait(v)
  <2>1. Top(v).fn = "wait" /\ Top(v).at = "locked"
    BY <1>3 DEF Wait, Top
  <2>2. Returned(v) \in Calm(E, reg[v]) /\ ~ Ended(Top(v)) /\ Top(v).next = Nothing
    BY <1>1, <2>1, WaitGood
  <2>3. PICK D : D = E \cup {Throw(reg[v], Returned(v))}
    OBVIOUS
  <2>4. E \subseteq D /\ Stored(D)
    <3>1. reg[v] \in Procs /\ Stored(E)
      BY DEF Whole
    <3> QED BY <2>2, <2>3, <3>1, Storing DEF Throw
  <2>5. queue' \in Seq(D) /\ semQ' \in Seq(D) /\ dependantsQ' \in Seq(D)
    <3>1. queue \in Seq(D) /\ semQ \in Seq(D) /\ dependantsQ \in Seq(D) /\ Throw(reg[v], Returned(v)) \in D
      BY <2>3, <2>4, MoreEntries DEF Whole
    <3>2. Append(semQ, Throw(reg[v], Returned(v))) \in Seq(D)
      BY <3>1, AppendProperties
    <3>3. queue' = queue /\ dependantsQ' = dependantsQ /\ semQ' \in {semQ, Append(semQ, Throw(reg[v], Returned(v)))}
      BY <1>3 DEF Wait, future
    <3> QED BY <3>1, <3>2, <3>3
  <2>6. PICK a \in {"block", "unlock"} : GoTo(v, a)
    BY <1>3 DEF Wait
  <2>7. reg' = reg /\ expired' = expired /\ a \in Points \ {"return"} /\ a # "claim"
    BY <1>3 DEF Wait, Points
  <2> QED BY <1>1, <2>1, <2>2, <2>4, <2>5, <2>6, <2>7, WholeGoTo DEF Switchers
<1>4. CASE ReleaseWait(v)
  <2>1. Returned(v) \in Calm(E, reg[v])
    BY <1>1, <1>4, WaitGood DEF ReleaseWait, Top
  <2> QED BY <1>4, <2>1, Returns DEF ReleaseWait, ReleaseMutex, Still
<1>5. CASE Block(v)
  <2>1. Returned(v) \in Seq(Held(E))
    BY <1>1, <1>5, WaitGood DEF Block, Top
  <2>2. PICK f : f = Frame("start", "disable")
    OBVIOUS
  <2>3. f \in Held(E) /\ Settled(f) /\ f.fn = "start" /\ f.next = Nothing
    BY <2>2, Fresh DEF Points, Switchers
  <2>4. Good(f, Peek(Returned(v)), reg[v]) /\ Ended(f)
    BY <2>3 DEF Good, Ended, Suspending
  <2>5. Become(v, <<f>> \o Returned(v)) /\ Still /\ expired' = expired
    BY <1>5, <2>2 DEF Block, ReleaseMutex, Still
  <2> QED BY <2>1, <2>3, <2>4, <2>5, Keeps DEF Whole
<1>6. CASE WaitReturns(v)
  <2>1. Rest(v) \in Calm(E, reg[v])
    BY <1>1, <1>6, WaitGood DEF WaitReturns, Top
  <2> QED BY <1>6, <2>1, Returns DEF WaitReturns, Still
<1>7. CASE Signal(v) \/ ReleaseSignal(v)
  <2>1. Top(v).fn = "signal" /\ ~ Ended(Top(v)) /\ Top(v).next = Nothing
    BY <1>2, <1>7, Ordinary DEF Signal, ReleaseSignal, Top, Switchers
  <2>2. queue' \in Seq(E) /\ semQ' \in Seq(E) /\ dependantsQ' \in Seq(E)
    <3>0. queue \in Seq(E) /\ semQ \in Seq(E) /\ dependantsQ \in Seq(E)
      BY DEF Whole
    <3>1. CASE Signal(v) /\ value' <= 0
      <4>1. value' = value + 1 /\ Len(semQ) # 0
        BY <3>1 DEF Signal, Balanced
      <4>2. semQ # <<>>
        BY <4>1
      <4>3. Head(semQ) \in E /\ Tail(semQ) \in Seq(E)
        BY <3>0, <4>2, Split
      <4>4. Append(queue, Head(semQ)) \in Seq(E)
        BY <3>0, <4>3, AppendProperties
      <4> QED BY <3>0, <3>1, <4>3, <4>4 DEF Signal
    <3>2. CASE ~ (Signal(v) /\ value' <= 0)
      BY <1>7, <3>0, <3>2 DEF Signal, ReleaseSignal, ReleaseMutex
    <3> QED BY <3>1, <3>2
  <2>3. PICK a \in {"unlock", "release"} : GoTo(v, a)
    BY <1>7 DEF Signal, ReleaseSignal, ReleaseMutex, GoTo
  <2>4. a \in Points \ {"return"} /\ a # "block" /\ a # "claim" /\ reg' = reg /\ expired' = expired
    BY <1>7 DEF Points, Signal, ReleaseSignal, ReleaseMutex
  <2> QED BY <1>1, <2>1, <2>2, <2>3, <2>4, WholeGoTo DEF Whole, Switchers
<1> QED BY <1>3, <1>4, <1>5, <1>6, <1>7

\* A forcer suspended: it forces again, and throws the result to its continuation.
LEMMA SuspendedGood ==
    ASSUME NEW E, Whole(E), EntriesAreSomething, reg \in [VMs -> Procs], NEW v \in VMs, stack[v] # <<>>,
           Top(v).fn = "force", Top(v).at = "locked"
    PROVE  \E D : /\ E \subseteq D /\ Stored(D) /\ Suspended(v) \in D
                  /\ Peek(Suspended(v).stack).fn = "force" /\ Peek(Suspended(v).stack).at = "drain"
                  /\ Peek(Suspended(v).stack).next = Nothing /\ Lead(Suspended(v).stack) = Peek(Suspended(v).stack)
                  /\ Suspended(v).proc = reg[v]
<1>1. /\ Top(v) \in Held(E) /\ Rest(v) \in Seq(Held(E)) /\ Good(Top(v), Peek(Rest(v)), reg[v])
      /\ (~ Ended(Top(v)) => Rest(v) \in Calm(E, reg[v])) /\ Stored(E)
  BY OnMachine DEF Whole
<1>2. ~ Ended(Top(v))
  BY <1>1, Ordinary DEF Switchers
<1>3. PICK D : D = E \cup {Throw(reg[v], Rest(v))}
  OBVIOUS
<1>4. E \subseteq D /\ Stored(D) /\ Throw(reg[v], Rest(v)) \in D /\ Throw(reg[v], Rest(v)) # Nothing
  BY <1>1, <1>2, <1>3, Storing DEF Throw, EntriesAreSomething
<1>5. PICK n \in D : n = Throw(reg[v], Rest(v))
  BY <1>4
<1>6. n # Nothing /\ n.proc = reg[v] /\ n.stack = Rest(v)
  BY <1>4, <1>5 DEF Throw
<1>7. PICK f : f = [Frame("force", "drain") EXCEPT !.who = Top(v).who]
  OBVIOUS
<1>8. f \in Held(D) /\ f.fn = "force" /\ f.at = "drain" /\ f.next = Nothing
  <2>1. Top(v).who \in Procs \cup {Nothing}
    BY <1>1 DEF Held
  <2> QED BY <1>7, <2>1 DEF Frame, Held, Functions_, Points, Users, Switchers
<1>9. PICK g : g = [Frame("start", "go") EXCEPT !.next = n]
  OBVIOUS
<1>10. g \in Held(D) /\ g.fn = "start" /\ g.at = "go" /\ g.next = n
  BY <1>6, <1>9 DEF Frame, Held, Functions_, Points, Users, Switchers
<1>11. Good(f, g, reg[v]) /\ Good(g, Bottom, reg[v]) /\ Settled(f) /\ Settled(g) /\ Ended(g) /\ ~ Skips(f)
  <2>1. Firm(Peek(Rest(v)))
    BY <1>1 DEF Good
  <2> QED BY <1>6, <1>8, <1>10, <2>1 DEF Good, Settled, Firm, Ended, Skips
<1>12. PICK s : s = <<f, g>>
  OBVIOUS
<1>17. s \in Calm(D, reg[v]) /\ Peek(s) = f /\ Lead(s) = f /\ HasEnd(s)
  BY <1>8, <1>10, <1>11, <1>12, TwoFrames
<1>18. g = [Frame("start", "go") EXCEPT !.next = Throw(reg[v], Rest(v))]
  BY <1>5, <1>9
<1>19. Suspended(v) = Call(reg[v], s)
  BY <1>7, <1>12, <1>18 DEF Suspended
<1>20. Stored(D \cup {Suspended(v)})
  BY <1>4, <1>17, <1>19, Storing DEF Call
<1>21. Suspended(v).stack = s /\ Suspended(v).proc = reg[v]
  BY <1>19 DEF Call
<1> QED BY <1>4, <1>8, <1>17, <1>20, <1>21

\* A machine goes on with two frames on top of others.
LEMMA BecomePair ==
    ASSUME NEW X, NEW f \in X, NEW g \in X, NEW s \in Seq(X), NEW v
    PROVE  /\ Become(v, <<f, g>> \o s) => Become(v, <<f>> \o (<<g>> \o s))
           /\ Become(v, (<<f>> \o <<g>>) \o s) => Become(v, <<f>> \o (<<g>> \o s))
<1>1. PICK a : a = <<f>>
  OBVIOUS
<1>2. PICK b : b = <<g>>
  OBVIOUS
<1>3. PICK u : u = <<f, g>>
  OBVIOUS
<1>4. a \in Seq(X) /\ b \in Seq(X) /\ Len(a) = 1 /\ Len(b) = 1 /\ a[1] = f /\ b[1] = g
  BY <1>1, <1>2
<1>5. u \in Seq(X) /\ Len(u) = 2 /\ u[1] = f /\ u[2] = g
  BY <1>3
<1>6. a \o b \in Seq(X) /\ Len(a \o b) = 2 /\ (a \o b)[1] = f /\ (a \o b)[2] = g
  <2>1. /\ a \o b \in Seq(X) /\ Len(a \o b) = Len(a) + Len(b)
        /\ \A i \in 1 .. Len(a) + Len(b) : (a \o b)[i] = IF i <= Len(a) THEN a[i] ELSE b[i - Len(a)]
    BY <1>4, ConcatProperties
  <2> QED BY <1>4, <2>1
<1>7. u = a \o b
  BY <1>5, <1>6, SeqEqual
<1>8. (a \o b) \o s = a \o (b \o s)
  BY <1>4, ConcatAssociative
<1>9. Become(v, u \o s) => Become(v, a \o (b \o s))
  BY <1>7, <1>8, Zenon
<1>10. Become(v, (a \o b) \o s) => Become(v, a \o (b \o s))
  BY <1>8, Zenon
<1> QED BY <1>1, <1>2, <1>3, <1>9, <1>10, Zenon

\* The frame counts one more turn of its loop.
LEMMA Again ==
    ASSUME NEW E, NEW f \in Held(E)
    PROVE  /\ [f EXCEPT !.n = @ + 1] \in Held(E) /\ [f EXCEPT !.n = @ + 1].fn = f.fn
           /\ [f EXCEPT !.n = @ + 1].at = f.at /\ [f EXCEPT !.n = @ + 1].who = f.who
           /\ [f EXCEPT !.n = @ + 1].next = f.next
BY DEF Held

\* Each step of a process that forces the future.
LEMMA WholeForce ==
    ASSUME NEW E, Whole(E), EntriesAreSomething, SchedulerAssumption, reg \in [VMs -> Procs], NEW v \in VMs,
           Drain(v) \/ TestFlag(v) \/ ForceReturns(v) \/ ReleaseForce(v) \/ Claim(v) \/ ForceFallsThrough(v)
    PROVE  (\E D : Whole(D)') /\ ~ ForceFallsThrough(v)
<1> USE DEF At, clock, semaphore, future
<1>1. stack[v] # <<>> /\ Top(v).fn = "force"
  BY DEF Drain, TestFlag, ForceReturns, ReleaseForce, Claim, ForceFallsThrough, Top
<1>2. /\ Top(v) \in Held(E) /\ Rest(v) \in Seq(Held(E)) /\ Good(Top(v), Peek(Rest(v)), reg[v])
      /\ (~ Ended(Top(v)) => Rest(v) \in Calm(E, reg[v]))
  BY <1>1, OnMachine
<1>3. Top(v).next = Nothing /\ Top(v).at # "return" /\ Firm(Peek(Rest(v)))
  BY <1>1, <1>2 DEF Held, Good, Switchers
<1>4. ~ ForceFallsThrough(v)
  BY <1>3 DEF ForceFallsThrough, Top
<1>5. ASSUME NEW a \in {"acquire", "val", "unlock", "claim"}
      PROVE  a \in Points \ {"return"} /\ a # "block"
  BY <1>5 DEF Points
<1>6. CASE Drain(v)
  <2>1. ~ Ended(Top(v))
    BY <1>1, <1>2, <1>6, Ordinary DEF Drain, Top, Switchers
  <2>2. CASE GoTo(v, "acquire")
    <3>1. Still /\ expired' = expired /\ "acquire" \in Points \ {"return"}
      BY <1>6 DEF Drain, Still, Points
    <3> QED BY <1>1, <1>3, <1>4, <2>1, <2>2, <3>1, WholeStill DEF Switchers
  <2>3. CASE Become(v, <<Frame("pause", "disable"), [Top(v) EXCEPT !.n = @ + 1]>> \o Rest(v))
    <3>1. PICK f : f = Frame("pause", "disable")
      OBVIOUS
    <3>2. PICK g : g = [Top(v) EXCEPT !.n = @ + 1]
      OBVIOUS
    <3>3. f \in Held(E) /\ Settled(f) /\ f.fn = "pause" /\ f.next = Nothing /\ f.at = "disable"
      BY <3>1, Fresh DEF Points, Switchers
    <3>4. g \in Held(E) /\ g.fn = "force" /\ g.next = Nothing /\ g.at = Top(v).at /\ g.who = Top(v).who
      BY <1>1, <1>2, <1>3, <3>2, Again
    <3>5. Good(g, Peek(Rest(v)), reg[v]) /\ Settled(g)
      BY <1>1, <1>2, <1>3, <2>1, <3>4 DEF Good, Settled, Ended, Suspending
    <3>q. PICK q : q = Rest(v)
      OBVIOUS
    <3>6. PICK r : r = <<g>> \o q
      OBVIOUS
    <3>7. r \in Calm(E, reg[v]) /\ r \in Seq(Held(E)) /\ Peek(r) = g
      <4>1. <<g>> \o q \in Calm(E, reg[v])
        BY <1>2, <2>1, <3>q, <3>4, <3>5, Owns
      <4>2. q \in Seq(Held(E))
        BY <1>2, <3>q
      <4> QED BY <3>4, <3>6, <4>1, <4>2, OnTop
    <3>8. Good(f, g, reg[v])
      BY <3>3, <3>4 DEF Good
    <3>9. Become(v, <<f>> \o r)
      <4>1. PICK X : X = Held(E)
        OBVIOUS
      <4>2. f \in X /\ g \in X /\ q \in Seq(X)
        BY <1>2, <3>q, <3>3, <3>4, <4>1
      <4>3. Become(v, <<f, g>> \o q)
        BY <2>3, <3>1, <3>2, <3>q
      <4>4. Become(v, <<f>> \o (<<g>> \o q))
        BY <4>2, <4>3, BecomePair, Zenon
      <4> QED BY <3>6, <4>4, Zenon
    <3>10. Still /\ expired' = expired
      BY <1>6 DEF Drain, Still
    <3>11. Whole(E)'
      BY <3>3, <3>7, <3>8, <3>9, <3>10, Keeps
    <3> QED BY <1>4, <3>11
  <2> QED BY <1>4, <1>6, <2>2, <2>3 DEF Drain
<1>7. CASE TestFlag(v)
  <2>0. Top(v).at = "locked"
    BY <1>7 DEF TestFlag, Top
  <2>1. ~ Ended(Top(v))
    BY <1>1, <1>2, <2>0, Ordinary DEF Switchers
  <2>2. CASE flag
    BY <1>1, <1>3, <1>4, <1>5, <1>7, <2>1, <2>2, WholeStill DEF TestFlag, Still, Switchers
  <2>3. CASE ~ flag
    <3>1. PICK D : E \subseteq D /\ Stored(D) /\ Suspended(v) \in D
      BY <1>1, <2>0, SuspendedGood
    <3>2. queue' \in Seq(D) /\ semQ' \in Seq(D) /\ dependantsQ' \in Seq(D)
      <4>1. queue \in Seq(D) /\ semQ \in Seq(D) /\ dependantsQ \in Seq(D)
        BY <3>1, MoreEntries DEF Whole
      <4>2. Append(dependantsQ, Suspended(v)) \in Seq(D)
        BY <3>1, <4>1, AppendProperties
      <4> QED BY <1>7, <2>3, <4>1, <4>2 DEF TestFlag
    <3>3. GoTo(v, "unlock") /\ reg' = reg /\ expired' = expired
      BY <1>7, <2>3 DEF TestFlag
    <3> QED BY <1>1, <1>3, <1>4, <1>5, <2>1, <3>1, <3>2, <3>3, WholeGoTo DEF Switchers
  <2> QED BY <2>2, <2>3
<1>8. CASE ForceReturns(v)
  <2>1. ~ Ended(Top(v))
    BY <1>1, <1>2, <1>8, Ordinary DEF ForceReturns, Top, Switchers
  <2> QED BY <1>2, <1>4, <1>8, <2>1, Returns DEF ForceReturns, ReleaseMutex, Still
<1>9. CASE ReleaseForce(v)
  <2>1. [Top(v) EXCEPT !.at = "claim"].at = "claim"
    BY <1>2 DEF Held
  <2>2. Ended([Top(v) EXCEPT !.at = "claim"])
    BY <2>1 DEF Ended, Suspending
  <2>3. GoTo(v, "claim") /\ Still /\ expired' = expired
    BY <1>9 DEF ReleaseForce, ReleaseMutex, GoTo, Still
  <2> QED BY <1>1, <1>3, <1>4, <1>5, <2>2, <2>3, WholeStill DEF Switchers
<1>10. CASE Claim(v)
  <2>1. PICK e : e = Frame("start", "disable")
    OBVIOUS
  <2>2. e \in Held(E) /\ Settled(e) /\ e.fn = "start" /\ e.next = Nothing
    BY <2>1, Fresh DEF Points, Switchers
  <2>3. Ended(e) /\ \A g : Good(e, g, reg[v])
    BY <2>2 DEF Good, Ended, Suspending
  <2>4. [Top(v) EXCEPT !.at = "return"] \in Held(E)
    BY <1>1, <1>2, <1>3 DEF Held, Points, Switchers
  <2>5. PICK r : r = Returned(v)
    OBVIOUS
  <2>6. r \in Seq(Held(E))
    BY <1>2, <2>4, <2>5, OnTop DEF Returned
  <2>7. PICK s : s = <<e>> \o r
    OBVIOUS
  <2>8. s \in Calm(E, reg[v]) /\ s \in Seq(Held(E)) /\ Peek(s) = e
    <3>1. <<e>> \o r \in Calm(E, reg[v])
      BY <2>2, <2>3, <2>6, Owns
    <3> QED BY <2>2, <2>6, <2>7, <3>1, OnTop
  <2>9. Still /\ expired' = expired
    BY <1>10 DEF Claim, Still
  <2>10. CASE scheduled
    <3>1. Become(v, s)
      BY <1>10, <2>1, <2>5, <2>7, <2>10 DEF Claim, Returned
    <3> QED BY <1>4, <2>8, <2>9, <3>1, Returns
  <2>11. CASE ~ scheduled
    <3>1. PICK f : f = RunFn(Filler)
      OBVIOUS
    <3>2. f \in Held(E) /\ Settled(f) /\ f.fn = "run" /\ f.next = Nothing
      BY <3>1, Newborn DEF SchedulerAssumption, RunFn, Frame
    <3>3. Good(f, e, reg[v])
      BY <2>2, <3>2 DEF Good
    <3>4. Become(v, <<f>> \o s)
      <4>1. PICK X : X = Held(E)
        OBVIOUS
      <4>2. f \in X /\ e \in X /\ r \in Seq(X)
        BY <2>2, <2>6, <3>2, <4>1
      <4>3. Become(v, (<<f>> \o <<e>>) \o r)
        BY <1>10, <2>1, <2>5, <2>11, <3>1 DEF Claim
      <4>4. Become(v, <<f>> \o (<<e>> \o r))
        BY <4>2, <4>3, BecomePair, Zenon
      <4> QED BY <2>7, <4>4, Zenon
    <3> QED BY <1>4, <2>8, <2>9, <3>2, <3>3, <3>4, Keeps
  <2> QED BY <2>10, <2>11
<1> QED BY <1>4, <1>6, <1>7, <1>8, <1>9, <1>10

\* Each step of the process that computes the future.
LEMMA WholeFill ==
    ASSUME NEW E, Whole(E), NEW v \in VMs,
           ComputeValue(v) \/ SetValue(v) \/ ReleaseValue(v) \/ AppendDependants(v)
    PROVE  Whole(E)'
<1> USE DEF At, clock, semaphore, future
<1>1. stack[v] # <<>> /\ Top(v).fn \in {"fill", "append"}
  BY DEF ComputeValue, SetValue, ReleaseValue, AppendDependants, Top
<1>2. /\ Top(v) \in Held(E) /\ Rest(v) \in Seq(Held(E)) /\ Good(Top(v), Peek(Rest(v)), reg[v])
      /\ (~ Ended(Top(v)) => Rest(v) \in Calm(E, reg[v])) /\ Stored(E)
  BY <1>1, OnMachine DEF Whole
<1>3. Top(v).at \in {"call", "locked", "unlock", "inside"}
  BY DEF ComputeValue, SetValue, ReleaseValue, AppendDependants, Top
<1>4. ~ Ended(Top(v)) /\ Top(v).next = Nothing /\ Top(v).fn \notin Switchers
  BY <1>1, <1>2, <1>3, Ordinary DEF Switchers
<1>5. CASE ReleaseValue(v)
  <2>1. PICK f : f = Frame("append", "disable")
    OBVIOUS
  <2>2. f \in Held(E) /\ Settled(f) /\ f.fn = "append" /\ f.next = Nothing
    BY <2>1, Fresh DEF Points, Switchers
  <2>3. Good(f, Peek(Rest(v)), reg[v])
    BY <1>1, <1>2, <2>2 DEF Good
  <2>4. Become(v, <<f>> \o Rest(v)) /\ Still /\ expired' = expired
    BY <1>5, <2>1 DEF ReleaseValue, ReleaseMutex, Still
  <2> QED BY <1>2, <1>4, <2>2, <2>3, <2>4, Keeps
<1>6. CASE ComputeValue(v) \/ SetValue(v) \/ AppendDependants(v)
  <2>1. queue' \in Seq(E) /\ semQ' \in Seq(E) /\ dependantsQ' \in Seq(E)
    <3>1. queue \in Seq(E) /\ semQ \in Seq(E) /\ dependantsQ \in Seq(E)
      BY DEF Whole
    <3>2. queue \o dependantsQ \in Seq(E)
      BY <3>1, Joined
    <3> QED BY <1>6, <3>1, <3>2 DEF ComputeValue, SetValue, AppendDependants
  <2>2. PICK a \in {"acquire", "unlock", "release"} : GoTo(v, a)
    BY <1>6 DEF ComputeValue, SetValue, AppendDependants
  <2>3. a \in Points \ {"return"} /\ a # "block" /\ a # "claim" /\ reg' = reg /\ expired' = expired
    BY <1>6 DEF Points, ComputeValue, SetValue, AppendDependants
  <2> QED BY <1>1, <1>2, <1>4, <2>1, <2>2, <2>3, WholeGoTo
<1> QED BY <1>5, <1>6

\* The program calls an operation, pauses or ends.
LEMMA WholeProgram ==
    ASSUME NEW E, Whole(E), NEW v \in VMs, Perform(v) \/ Finish(v), SchedulerAssumption, world \in Worlds,
           reg \in [VMs -> Procs]
    PROVE  Whole(E)'
<1> USE DEF At, clock, semaphore, future, program
<1>1. stack[v] # <<>> /\ Top(v).fn \in {"body", "fill"} /\ Top(v).at = "call"
  BY DEF Perform, Finish, Top
<1>2. /\ Top(v) \in Held(E) /\ Rest(v) \in Seq(Held(E)) /\ Good(Top(v), Peek(Rest(v)), reg[v])
      /\ (~ Ended(Top(v)) => Rest(v) \in Calm(E, reg[v])) /\ Peek(stack[v]) = Top(v)
  BY <1>1, OnMachine
<1>3. ~ Ended(Top(v)) /\ Settled(Top(v)) /\ Top(v).who = reg[v] /\ Firm(Top(v))
  BY <1>1, <1>2, Ordinary DEF Switchers, Good, Firm
<1>4. stack[v] \in Calm(E, reg[v]) /\ stack[v] \in Seq(Held(E))
  BY <1>1, <1>3, OnMachine DEF Whole, Active
<1>5. Still /\ expired' = expired
  BY DEF Perform, Finish, Still
<1>6. ASSUME NEW f \in Held(E), Settled(f), f.next = Nothing, f.fn \in {"run", "pause", "wait", "signal", "force"},
             f.at # "return", Become(v, <<f>> \o stack[v])
      PROVE  Whole(E)'
  <2>1. Good(f, Peek(stack[v]), reg[v])
    BY <1>1, <1>2, <1>3, <1>6 DEF Good
  <2> QED BY <1>4, <1>5, <1>6, <2>1, Keeps
<1>7. CASE Perform(v)
  <2>1. CASE \E op \in world.calls[reg[v]] \ {"run"} : Become(v, <<CallFrame(op)>> \o stack[v])
    <3>1. PICK op \in world.calls[reg[v]] \ {"run"} : Become(v, <<CallFrame(op)>> \o stack[v])
      BY <2>1
    <3>2. op \in {"wait", "signal", "force"}
      BY DEF SchedulerAssumption, Operations
    <3>3. PICK f : f = CallFrame(op)
      OBVIOUS
    <3>4. f \in Held(E) /\ Settled(f) /\ f.next = Nothing /\ f.fn \in {"wait", "signal", "force"} /\ f.at # "return"
      <4>1. CASE op = "wait"
        BY <3>3, <4>1, Fresh DEF CallFrame, Points, Switchers
      <4>2. CASE op = "signal"
        BY <3>3, <4>2, Fresh DEF CallFrame, Points, Switchers
      <4>3. CASE op = "force"
        BY <3>3, <4>3, Fresh DEF CallFrame, Points, Switchers
      <4> QED BY <3>2, <4>1, <4>2, <4>3
    <3>5. Become(v, <<f>> \o stack[v])
      BY <3>1, <3>3
    <3> QED BY <1>6, <3>4, <3>5
  <2>2. CASE \E q \in world.makes[reg[v]] : Become(v, <<RunFn(q)>> \o stack[v])
    <3>1. PICK q \in world.makes[reg[v]] : Become(v, <<RunFn(q)>> \o stack[v])
      BY <2>2
    <3>2. q \in Procs
      BY DEF SchedulerAssumption
    <3>3. PICK f : f = RunFn(q)
      OBVIOUS
    <3>4. f \in Held(E) /\ Settled(f) /\ f.next = Nothing /\ f.fn = "run" /\ f.at # "return"
      BY <3>2, <3>3, Newborn DEF RunFn, Frame
    <3>5. Become(v, <<f>> \o stack[v])
      BY <3>1, <3>3
    <3> QED BY <1>6, <3>4, <3>5
  <2> QED BY <1>3, <1>7, <2>1, <2>2 DEF Perform
<1>8. CASE Finish(v)
  <2>1. CASE Become(v, Rest(v))
    BY <1>2, <1>3, <1>5, <2>1, Returns
  <2>2. CASE Become(v, <<Frame("pause", "disable")>> \o stack[v])
    <3>1. PICK f : f = Frame("pause", "disable")
      OBVIOUS
    <3>2. f \in Held(E) /\ Settled(f) /\ f.next = Nothing /\ f.fn = "pause" /\ f.at # "return"
      BY <3>1, Fresh DEF Points, Switchers
    <3>3. Become(v, <<f>> \o stack[v])
      BY <2>2, <3>1
    <3> QED BY <1>6, <3>2, <3>3
  <2> QED BY <1>8, <2>1, <2>2 DEF Finish
<1> QED BY <1>7, <1>8

\* The machines are in such a state when the world boots.
LEMMA WholeInit ==
    ASSUME SchedulerAssumption, MakersAssumption, Init
    PROVE  Whole({})
<1> USE DEF Init
<1>1. Stored({}) /\ queue \in Seq({}) /\ semQ \in Seq({}) /\ dependantsQ \in Seq({}) /\ Struck
  BY DEF Stored, Struck
<1>2. ASSUME NEW v \in VMs
      PROVE  /\ stack[v] \in Calm({}, reg[v]) /\ stack[v] \in Seq(Held({}))
             /\ stack[v] # <<>> /\ ~ Ended(Top(v)) => Rest(v) \in Calm({}, reg[v])
  <2>0. (stack[v] = <<>> \/ stack[v] = <<Body(Boot)>> \/ (stack[v] = StartBusyWork(v) /\ v # Main)) /\ reg[v] = Boot
    OBVIOUS
  <2> HIDE DEF Init
  <2>1. PICK z : z = <<>>
    OBVIOUS
  <2>2. z \in Seq(Held({})) /\ Peek(z) = Bottom /\ z \in Calm({}, Boot)
    BY <2>1 DEF Peek, Calm, Owned
  <2>3. CASE stack[v] = <<>>
    BY <2>0, <2>1, <2>2, <2>3
  <2>4. CASE stack[v] = <<Body(Boot)>>
    <3>1. PICK f : f = Body(Boot)
      OBVIOUS
    <3>2. f \in Held({}) /\ f.fn = "body" /\ f.next = Nothing /\ f.who = Boot
      BY <3>1, Newborn DEF SchedulerAssumption, Body, Frame
    <3>3. Good(f, Bottom, Boot) /\ Settled(f)
      BY <3>2 DEF Good, Settled, Bottom, Frame, MakersAssumption
    <3>4. PICK s : s = <<f>> \o z
      OBVIOUS
    <3>5. <<f>> \o z \in Calm({}, Boot)
      BY <2>2, <3>2, <3>3, Owns
    <3>6. s \in Calm({}, Boot) /\ s \in Seq(Held({})) /\ Len(s) = 1 /\ s[1] = f /\ Tail(s) = z
      <4>1. Len(z) = 0
        BY <2>1
      <4> QED BY <2>2, <3>2, <3>4, <3>5, <4>1, OnTop
    <3>7. s = stack[v]
      <4>1. PICK u : u = <<f>>
        OBVIOUS
      <4>2. u \in Seq(Held({})) /\ Len(u) = 1 /\ u[1] = f
        BY <3>2, <4>1
      <4>3. s = u
        BY <3>6, <4>2, SeqEqual
      <4> QED BY <2>4, <3>1, <4>1, <4>3
    <3> QED BY <2>0, <2>2, <3>6, <3>7 DEF Rest
  <2>5. CASE stack[v] = StartBusyWork(v) /\ v # Main
    <3>1. PICK f : f = RunFn(Busy[v])
      OBVIOUS
    <3>2. f \in Held({}) /\ f.fn = "run" /\ f.at = "disable" /\ f.next = Nothing
      <4>1. Busy[v] \in Procs
        BY <2>5 DEF SchedulerAssumption
      <4> QED BY <3>1, <4>1, Newborn DEF RunFn, Frame
    <3>3. PICK g : g = Frame("start", "disable")
      OBVIOUS
    <3>4. g \in Held({}) /\ g.fn = "start" /\ g.next = Nothing
      BY <3>3, Fresh DEF Points, Switchers
    <3>5. Good(f, g, Boot) /\ Good(g, Bottom, Boot) /\ Ended(g) /\ Settled(f) /\ Settled(g)
      BY <3>2, <3>4 DEF Good, Ended, Suspending, Settled
    <3>6. PICK s : s = <<f, g>>
      OBVIOUS
    <3>7. s = stack[v]
      BY <2>5, <3>1, <3>3, <3>6 DEF StartBusyWork
    <3>8. s \in Calm({}, Boot)
      BY <3>2, <3>4, <3>5, <3>6, TwoFrames
    <3>9. s \in Seq(Held({})) /\ s # <<>>
      BY <3>2, <3>4, <3>6
    <3>10. <<Head(s)>> \o Tail(s) \in Calm({}, Boot) /\ Head(s) \in Held({}) /\ Tail(s) \in Seq(Held({}))
      <4>1. s = <<Head(s)>> \o Tail(s) /\ Head(s) \in Held({}) /\ Tail(s) \in Seq(Held({})) /\ Peek(s) = Head(s)
        BY <3>9, Split
      <4> QED BY <3>8, <4>1
    <3>11. ~ Ended(Head(s)) => Tail(s) \in Calm({}, Boot)
      BY <3>10, Owns
    <3> QED BY <2>0, <3>7, <3>8, <3>9, <3>11 DEF Top, Rest
  <2> QED BY <2>0, <2>3, <2>4, <2>5
<1>3. \A v \in VMs : stack[v] \in Owned({}, reg[v])
  BY <1>2 DEF Calm
<1>4. stack \in [VMs -> Seq(Held({}))]
  BY <1>2
<1>5. Active({})
  BY <1>2, <1>3, <1>4 DEF Active
<1> QED BY <1>1, <1>5 DEF Whole

\* What force-future returned was the value.
Forced == log.forced \subseteq {"value"}

Continuing == (\E E : Whole(E)) /\ Forced

\* No step leaves it, while start finds an entry.
LEMMA WholeNext ==
    ASSUME SchedulerAssumption, EntriesAreSomething, IInv, NeverIdle, Continuing, [Next]_vars
    PROVE  Continuing'
<1>1. PICK E : Whole(E)
  BY DEF Continuing
<1>2. reg \in [VMs -> Procs] /\ world \in Worlds /\ value \in Int /\ Balanced /\ Clocked /\ log \in Logs
  BY DEF IInv, Base
<1>3. CASE Next
  <2>1. PICK v \in VMs : Step(v) \/ Tick(v)
    BY <1>3 DEF Next
  <2>2. ~ ForceFallsThrough(v)
    BY <1>1, <1>2, WholeForce
  <2>3. Forced'
    <3>1. ForceReturns(v) => log'.forced = log.forced \cup {"value"}
      BY <1>2 DEF ForceReturns, Logs
    <3>2. ~ ForceReturns(v) => log'.forced = log.forced
      BY <1>2, <2>1, <2>2 DEF Logs, Step, Tick, DisableAlarms, AcquireScheduler, ReleaseScheduler, EnableAlarms, Pause, Start, SwitchTo, Go,
         ProcessRunFn, Alarm, AcquireMutex, Wait, ReleaseWait, Block, WaitReturns, Signal, ReleaseSignal, ReleaseMutex,
         Drain, TestFlag, ReleaseForce, Claim, ComputeValue, SetValue, ReleaseValue, AppendDependants, Perform, Finish
    <3> QED BY <3>1, <3>2 DEF Continuing, Forced
  <2>4. \E D : Whole(D)'
    <3>1. CASE DisableAlarms(v) \/ AcquireScheduler(v) \/ ReleaseScheduler(v) \/ EnableAlarms(v)
      BY <1>1, <3>1, WholeScheduler
    <3>2. CASE Alarm(v) \/ AcquireMutex(v) \/ Tick(v)
      BY <1>1, <1>2, <3>2, WholeAlarm
    <3>3. CASE Pause(v) \/ Start(v) \/ Go(v) \/ ProcessRunFn(v)
      BY <1>1, <1>2, <3>3, WholeSwitch
    <3>4. CASE Wait(v) \/ ReleaseWait(v) \/ Block(v) \/ WaitReturns(v) \/ Signal(v) \/ ReleaseSignal(v)
      BY <1>1, <1>2, <3>4, WholeSemaphore
    <3>5. CASE Drain(v) \/ TestFlag(v) \/ ForceReturns(v) \/ ReleaseForce(v) \/ Claim(v) \/ ForceFallsThrough(v)
      BY <1>1, <1>2, <3>5, WholeForce
    <3>6. CASE ComputeValue(v) \/ SetValue(v) \/ ReleaseValue(v) \/ AppendDependants(v)
      BY <1>1, <3>6, WholeFill
    <3>7. CASE Perform(v) \/ Finish(v)
      BY <1>1, <1>2, <3>7, WholeProgram
    <3> QED BY <2>1, <3>1, <3>2, <3>3, <3>4, <3>5, <3>6, <3>7 DEF Step
  <2> QED BY <2>3, <2>4 DEF Continuing
<1>4. CASE UNCHANGED vars
  <2>1. Whole(E)'
    BY <1>1, <1>4 DEF vars, clock, semaphore, future, program, Whole, Stored, Active, Struck, Top, Rest
  <2> QED BY <1>4, <2>1 DEF Continuing, Forced, vars
<1> QED BY <1>3, <1>4

\* While start finds an entry, every continuation is of the process that the register says.
THEOREM Continuations ==
    ASSUME SchedulerAssumption, MakersAssumption, EntriesAreSomething
    PROVE  Spec /\ []NeverIdle => []Continuing
<1>1. Init => Continuing
  <2>1. ASSUME Init PROVE Forced
    BY <2>1 DEF Init, Forced
  <2> QED BY <2>1, WholeInit DEF Continuing
<1>2. IInv /\ NeverIdle /\ Continuing /\ [Next]_vars => Continuing'
  BY WholeNext
<1> QED BY <1>1, <1>2, Invariance, PTL DEF Spec

\* While start finds an entry to run, a program runs with its own process in the register.
THEOREM RunsAsItself ==
    ASSUME SchedulerAssumption, MakersAssumption, EntriesAreSomething
    PROVE  Spec /\ []NeverIdle => []RegisterFits
<1>1. ASSUME Continuing PROVE RegisterFits
  <2>1. PICK E : Whole(E)
    BY <1>1 DEF Continuing
  <2>2. ASSUME NEW v \in VMs, At(v, {"body", "fill"}, "call") PROVE reg[v] = Top(v).who
    <3>1. stack[v] # <<>> /\ Top(v).fn \in {"body", "fill"}
      BY <2>2 DEF At, Top
    <3>2. Good(Top(v), Peek(Rest(v)), reg[v])
      BY <2>1, <3>1, OnMachine
    <3> QED BY <3>1, <3>2 DEF Good
  <2> QED BY <2>2 DEF RegisterFits
<1> QED BY <1>1, Continuations, PTL

\* While start finds an entry to run, force-future returns nothing but the value of the future:
\* a process that suspended itself is resumed by forcing again.
THEOREM ForceReturnsValue ==
    ASSUME SchedulerAssumption, MakersAssumption, EntriesAreSomething
    PROVE  Spec /\ []NeverIdle => []ForceGivesValue
<1>1. Continuing => ForceGivesValue
  BY DEF Continuing, Forced, ForceGivesValue
<1> QED BY <1>1, Continuations, PTL

----------------------------------------------------------------------------
(* How many continuations a process has.                                   *)

\* What a continuation s of process p is about to do: the function, how far it is, whether it
\* looks for another process first, and the process that it is going to queue.
Place(s, p) == [fn |-> Lead(s).fn, at |-> Lead(s).at, idle |-> Suspending(Lead(s)), makes |-> Runner(s), of |-> p]
Places      == [fn : Functions_, at : Points, idle : BOOLEAN, makes : Procs \cup {Nothing}, of : Procs]

\* A machine that has found an entry is about to run it.
Seen(s) == IF Peek(s).next # Nothing THEN Peek(s).next.stack ELSE s
Here(v) == Place(Seen(stack[v]), reg[v])
Spot(e) == Place(e.stack, e.proc)

\* How many are in A: on the machines, in a queue, anywhere.
Hosts(A)  == {v \in VMs : Here(v) \in A}
Indices(s, A) == {i \in 1 .. Len(s) : Spot(s[i]) \in A}
In(s, A)     == Cardinality(Indices(s, A))
Dependants(A) == IF log.delivered THEN 0 ELSE In(dependantsQ, A)
Queued(A)     == In(queue, A) + In(semQ, A) + Dependants(A)
Among(A)      == Cardinality(Hosts(A)) + Queued(A)

Alive(q)  == {a \in Places : a.of = q /\ ~ a.idle}
Makers(q) == {a \in Places : a.makes = q}
Passers   == {a \in Places : a.fn = "wait" /\ a.at \in {"unlock", "return"}}

\* The filler before it has computed the value, and before it has given the dependants away.
Computed(a) == a.fn = "append" \/ (a.fn = "fill" /\ a.at # "call")
Given(a)    == a.fn = "append" /\ a.at \in {"release", "enable"}
Early       == {a \in Alive(Filler) : ~ Computed(a)}
NotGiven    == {a \in Alive(Filler) : ~ Given(a)}

\* A process that somebody may still make.
Unmade(q) == \/ q = Filler /\ ~ scheduled
             \/ q \in unborn /\ q # Filler /\ \A v \in VMs \ {Main} : q # Busy[v]
Promised(q) == IF Unmade(q) THEN 1 ELSE 0

Sum(q) == Among(Alive(q)) + Among(Makers(q)) + Promised(q)
Once   == \A q \in Procs : Sum(q) <= 1
Past(A) == scheduled /\ Among(Makers(Filler)) <= 0 /\ Among(A) <= 0
Phase ==
    /\ log.filled \in {0, 1}
    /\ log.filled = 1 => Past(Early)
    /\ log.delivered => Past(NotGiven)
\* The waits that have counted, without those that have passed and those that are to pass.
Waits == (log.signals - value) - (log.passed + Among(Passers))
Passing ==
    /\ Waits >= 0
    /\ \A i \in 1 .. Len(semQ) : Spot(semQ[i]) \in Passers

One(a, A) == IF a \in A THEN 1 ELSE 0

----------------------------------------------------------------------------
(* Counting.                                                               *)

\* The entries of a queue that are counted are finitely many.
LEMMA InNat ==
    ASSUME NEW X, NEW s \in Seq(X), NEW A
    PROVE  IsFiniteSet(Indices(s, A)) /\ In(s, A) \in Nat
<1>1. Len(s) \in Nat
  BY LenProperties
<1>2. IsFiniteSet(1 .. Len(s))
  BY <1>1, FS_Interval
<1>3. Indices(s, A) \in SUBSET (1 .. Len(s))
  BY DEF Indices
<1>4. IsFiniteSet(Indices(s, A))
  BY <1>2, <1>3, FS_Subset
<1> QED BY <1>4, FS_CardinalityType DEF In

\* Those of two queues, one after the other.
LEMMA InBoth ==
    ASSUME NEW X, NEW s \in Seq(X), NEW t \in Seq(X), NEW A
    PROVE  In(s \o t, A) = In(s, A) + In(t, A)
<1>1. PICK r : r = s \o t
  OBVIOUS
<1>2. PICK m \in Nat : m = Len(s)
  BY LenProperties
<1>3. PICK n \in Nat : n = Len(t)
  BY LenProperties
<1>4. /\ Len(r) = m + n /\ \A i \in 1 .. m : r[i] = s[i]
      /\ \A i \in 1 .. n : r[i + m] = t[i]
  <2>1. Len(r) = m + n /\ \A i \in 1 .. m + n : r[i] = IF i <= m THEN s[i] ELSE t[i - m]
    BY <1>1, <1>2, <1>3, ConcatProperties
  <2>2. ASSUME NEW i \in 1 .. m PROVE i \in 1 .. m + n /\ i <= m
    OBVIOUS
  <2>3. ASSUME NEW i \in 1 .. n PROVE i + m \in 1 .. m + n /\ ~ (i + m <= m) /\ (i + m) - m = i
    OBVIOUS
  <2> QED BY <2>1, <2>2, <2>3
<1>5. PICK S : S = Indices(s, A)
  OBVIOUS
<1>6. PICK T : T = Indices(t, A)
  OBVIOUS
<1>7. PICK M : M = {i + m : i \in T}
  OBVIOUS
<1>8. S \subseteq 1 .. m /\ T \subseteq 1 .. n /\ IsFiniteSet(S) /\ IsFiniteSet(T)
  BY <1>2, <1>3, <1>5, <1>6, InNat DEF Indices
<1>9. IsFiniteSet(M) /\ Cardinality(M) = Cardinality(T)
  <2>1. PICK f : f = [i \in T |-> i + m]
    OBVIOUS
  <2>2. f \in [T -> M] /\ \A i, j \in T : f[i] = f[j] => i = j
    BY <1>7, <1>8, <2>1
  <2>3. \A k \in M : \E i \in T : f[i] = k
    BY <1>7, <2>1
  <2>4. f \in Surjection(T, M) /\ f \in Injection(T, M)
    BY <2>2, <2>3 DEF Surjection, Injection, IsInjective
  <2> QED BY <1>8, <2>4, FS_Surjection
<1>10. Indices(r, A) = S \cup M
  <2>1. ASSUME NEW i \in Indices(r, A) PROVE i \in S \cup M
    <3>1. i \in 1 .. m + n /\ Spot(r[i]) \in A
      BY <1>4 DEF Indices
    <3>2. CASE i <= m
      BY <1>2, <1>4, <1>5, <3>1, <3>2 DEF Indices
    <3>3. CASE ~ (i <= m)
      <4>1. PICK j \in 1 .. n : i = j + m
        <5>1. i - m \in 1 .. n /\ i = (i - m) + m
          BY <3>1, <3>3
        <5> QED BY <5>1
      <4>2. j \in T
        BY <1>3, <1>4, <1>6, <3>1, <4>1 DEF Indices
      <4> QED BY <1>7, <4>1, <4>2
    <3> QED BY <3>2, <3>3
  <2>2. ASSUME NEW i \in S PROVE i \in Indices(r, A)
    <3>1. i \in 1 .. m /\ i \in 1 .. m + n /\ Spot(s[i]) \in A
      BY <1>2, <1>5, <1>8 DEF Indices
    <3> QED BY <1>4, <3>1 DEF Indices
  <2>3. ASSUME NEW i \in M PROVE i \in Indices(r, A)
    <3>1. PICK j \in T : i = j + m
      BY <1>7
    <3>2. j \in 1 .. n /\ i \in 1 .. m + n /\ Spot(t[j]) \in A
      BY <1>3, <1>6, <1>8, <3>1 DEF Indices
    <3> QED BY <1>4, <3>1, <3>2 DEF Indices
  <2> QED BY <2>1, <2>2, <2>3
<1>11. S \cap M = {}
  BY <1>7, <1>8
<1>12. Cardinality(S \cup M) = Cardinality(S) + Cardinality(M)
  <2>1. Cardinality(S \cup M) = Cardinality(S) + Cardinality(M) - Cardinality(S \cap M)
    BY <1>8, <1>9, FS_Union
  <2>2. Cardinality(S \cap M) = 0 /\ Cardinality(S) \in Nat /\ Cardinality(M) \in Nat
    BY <1>8, <1>9, <1>11, FS_EmptySet, FS_CardinalityType
  <2> QED BY <2>1, <2>2
<1> QED BY <1>1, <1>5, <1>6, <1>9, <1>10, <1>12 DEF In

\* One entry.
LEMMA InOne ==
    ASSUME NEW X, NEW e \in X, NEW A
    PROVE  In(<<e>>, A) = One(Spot(e), A)
<1>1. PICK s : s = <<e>>
  OBVIOUS
<1>2. s \in Seq(X) /\ Len(s) = 1 /\ s[1] = e
  BY <1>1
<1>3. Indices(s, A) = IF Spot(e) \in A THEN {1} ELSE {}
  BY <1>2 DEF Indices
<1>4. In(s, A) = IF Spot(e) \in A THEN 1 ELSE 0
  BY <1>3, FS_EmptySet, FS_Singleton DEF In
<1> QED BY <1>1, <1>4 DEF One

\* A queue with one more at its end.
LEMMA InAppend ==
    ASSUME NEW X, NEW s \in Seq(X), NEW e \in X, NEW A
    PROVE  In(Append(s, e), A) = In(s, A) + One(Spot(e), A)
<1>1. PICK t : t = <<e>>
  OBVIOUS
<1>2. t \in Seq(X) /\ In(t, A) = One(Spot(e), A)
  BY <1>1, InOne
<1>3. Append(s, e) = s \o t
  <2>1. Len(t) = 1 /\ t[1] = e /\ t \in Seq(X)
    BY <1>1
  <2>2. /\ s \o t \in Seq(X) /\ Len(s \o t) = Len(s) + 1 /\ Len(s) \in Nat
        /\ \A i \in 1 .. Len(s) + 1 : (s \o t)[i] = IF i <= Len(s) THEN s[i] ELSE t[i - Len(s)]
    <3>1. /\ s \o t \in Seq(X) /\ Len(s \o t) = Len(s) + Len(t)
          /\ \A i \in 1 .. Len(s) + Len(t) : (s \o t)[i] = IF i <= Len(s) THEN s[i] ELSE t[i - Len(s)]
      BY <2>1, ConcatProperties
    <3>2. Len(s) + Len(t) = Len(s) + 1 /\ Len(s) \in Nat
      BY <2>1, LenProperties
    <3> QED BY <3>1, <3>2
  <2>3. /\ Append(s, e) \in Seq(X) /\ Len(Append(s, e)) = Len(s) + 1
        /\ \A i \in 1 .. Len(s) : Append(s, e)[i] = s[i]
        /\ Append(s, e)[Len(s) + 1] = e
    BY AppendProperties
  <2>4. ASSUME NEW i \in 1 .. Len(s) + 1 PROVE Append(s, e)[i] = (s \o t)[i]
    <3>1. CASE i \in 1 .. Len(s)
      BY <2>2, <2>3, <3>1
    <3>2. CASE i = Len(s) + 1
      <4>1. ~ (i <= Len(s)) /\ i - Len(s) = 1
        BY <2>2, <3>2
      <4> QED BY <2>1, <2>2, <2>3, <3>2, <4>1
    <3> QED BY <2>2, <2>4, <3>1, <3>2
  <2> QED BY <2>2, <2>3, <2>4, SeqEqual
<1> QED BY <1>2, <1>3, InBoth

\* A queue without its first.
LEMMA InTail ==
    ASSUME NEW X, NEW s \in Seq(X), s # <<>>, NEW A
    PROVE  In(s, A) = One(Spot(Head(s)), A) + In(Tail(s), A)
<1>1. PICK h \in X : h = Head(s)
  BY Split
<1>2. PICK a : a = <<h>>
  OBVIOUS
<1>3. a \in Seq(X) /\ Tail(s) \in Seq(X) /\ In(a, A) = One(Spot(h), A)
  BY <1>1, <1>2, Split, InOne
<1>4. s = a \o Tail(s)
  BY <1>1, <1>2, Split
<1>5. In(a \o Tail(s), A) = In(a, A) + In(Tail(s), A)
  BY <1>3, InBoth
<1> QED BY <1>1, <1>3, <1>4, <1>5

\* A set with at most one element changed.
LEMMA Shifted ==
    ASSUME NEW S, NEW T, NEW v, NEW U, IsFiniteSet(U), S \subseteq U, T \subseteq U, S \ {v} = T \ {v}
    PROVE  Cardinality(T) = Cardinality(S) - One(v, S) + One(v, T) /\ Cardinality(S) \in Nat /\ Cardinality(T) \in Nat
<1>1. IsFiniteSet(S) /\ IsFiniteSet(T)
  BY FS_Subset
<1>2. Cardinality(S \ {v}) = (IF v \in S THEN Cardinality(S) - 1 ELSE Cardinality(S))
  BY <1>1, FS_RemoveElement
<1>3. Cardinality(T \ {v}) = (IF v \in T THEN Cardinality(T) - 1 ELSE Cardinality(T))
  BY <1>1, FS_RemoveElement
<1>4. Cardinality(S) \in Nat /\ Cardinality(T) \in Nat
  BY <1>1, FS_CardinalityType
<1> QED BY <1>2, <1>3, <1>4 DEF One

\* One machine goes on to another place.
LEMMA HostsMove ==
    ASSUME IsFiniteSet(VMs), NEW v \in VMs, \A u \in VMs \ {v} : stack'[u] = stack[u] /\ reg'[u] = reg[u], NEW A
    PROVE  /\ Cardinality(Hosts(A)') = Cardinality(Hosts(A)) - One(Here(v), A) + One(Here(v)', A)
           /\ Cardinality(Hosts(A)) \in Nat /\ Cardinality(Hosts(A)') \in Nat
<1>1. \A u \in VMs \ {v} : Here(u)' = Here(u)
  BY DEF Here
<1>2. PICK S : S = Hosts(A)
  OBVIOUS
<1>3. PICK T : T = Hosts(A)'
  OBVIOUS
<1>4. S \subseteq VMs /\ T \subseteq VMs /\ S \ {v} = T \ {v}
  BY <1>1, <1>2, <1>3 DEF Hosts
<1>5. One(v, S) = One(Here(v), A) /\ One(v, T) = One(Here(v)', A)
  BY <1>2, <1>3 DEF One, Hosts
<1>6. Cardinality(T) = Cardinality(S) - One(v, S) + One(v, T) /\ Cardinality(S) \in Nat /\ Cardinality(T) \in Nat
  BY <1>4, Shifted
<1> QED BY <1>2, <1>3, <1>5, <1>6

\* Counts of larger sets are larger.
LEMMA AmongMore ==
    ASSUME IsFiniteSet(VMs), NEW X, queue \in Seq(X), semQ \in Seq(X), dependantsQ \in Seq(X)
    PROVE  /\ \A A : Among(A) \in Nat /\ Cardinality(Hosts(A)) \in Nat /\ Queued(A) \in Nat
                     /\ In(queue, A) \in Nat /\ In(semQ, A) \in Nat
           /\ \A A, B : A \subseteq B => Among(A) <= Among(B)
<1>1. ASSUME NEW A
      PROVE  /\ Cardinality(Hosts(A)) \in Nat /\ IsFiniteSet(Hosts(A)) /\ Dependants(A) \in Nat
             /\ In(queue, A) \in Nat /\ In(semQ, A) \in Nat /\ In(dependantsQ, A) \in Nat
  <2>1. Hosts(A) \in SUBSET VMs
    BY DEF Hosts
  <2>2. IsFiniteSet(Hosts(A))
    BY <2>1, FS_Subset
  <2> QED BY <2>2, FS_CardinalityType, InNat DEF Dependants
<1>2. ASSUME NEW A, NEW B, A \subseteq B, NEW s \in Seq(X) PROVE In(s, A) <= In(s, B)
  <2>1. Indices(s, A) \in SUBSET Indices(s, B)
    BY <1>2 DEF Indices
  <2> QED BY <2>1, InNat, FS_Subset DEF In
<1>3. ASSUME NEW A, NEW B, A \subseteq B PROVE Among(A) <= Among(B)
  <2>1. Hosts(A) \in SUBSET Hosts(B)
    BY <1>3 DEF Hosts
  <2>2. Cardinality(Hosts(A)) <= Cardinality(Hosts(B))
    BY <1>1, <2>1, FS_Subset
  <2>3. In(queue, A) <= In(queue, B) /\ In(semQ, A) <= In(semQ, B) /\ In(dependantsQ, A) <= In(dependantsQ, B)
    BY <1>2, <1>3
  <2>4. Dependants(A) <= Dependants(B)
    BY <1>1, <2>3 DEF Dependants
  <2>5. /\ Cardinality(Hosts(A)) \in Nat /\ In(queue, A) \in Nat /\ In(semQ, A) \in Nat /\ Dependants(A) \in Nat
        /\ Cardinality(Hosts(B)) \in Nat /\ In(queue, B) \in Nat /\ In(semQ, B) \in Nat /\ Dependants(B) \in Nat
    BY <1>1
  <2>6. Queued(A) <= Queued(B) /\ Queued(A) \in Nat /\ Queued(B) \in Nat
    BY <2>3, <2>4, <2>5 DEF Queued
  <2> QED BY <2>2, <2>5, <2>6 DEF Among
<1> QED BY <1>1, <1>3 DEF Among, Queued

----------------------------------------------------------------------------
(* Places.                                                                 *)

Family == {Alive(q) : q \in Procs} \cup {Makers(q) : q \in Procs} \cup {Passers, Early, NotGiven}

Passes(a) == a.fn = "wait" /\ a.at \in {"unlock", "return"}

\* Whatever is counted of a place a is counted of b.
Calmer(b, a) ==
    /\ a.of = b.of /\ (~ a.idle => ~ b.idle)
    /\ a.makes # Nothing => b.makes = a.makes
    /\ Passes(a) => Passes(b)
    /\ ~ a.idle => (Computed(b) => Computed(a)) /\ (Given(b) => Given(a))

\* The program goes on, and does not wait: the boot process may force the future, and the filler
\* has not given its dependants away.
Awake(a) == ~ a.idle /\ a.fn # "wait" /\ (a.fn = "force" => a.of = Boot) /\ ~ Given(a)
\* It has suspended itself on the future, and is going to claim it.
Claiming(a) == a.idle /\ a.fn = "force" /\ a.makes = Nothing

\* Whatever work there is in a place b there is in a place a.
Onward(b, a) ==
    /\ a.of = b.of /\ (Awake(b) => Awake(a)) /\ (Claiming(b) => Claiming(a))
    /\ b.makes # Nothing => a.makes = b.makes /\ (Awake(a) => Awake(b))

\* What is counted of the new place is counted of the old one.
LEMMA CalmerCounts ==
    ASSUME SchedulerAssumption, NEW a \in Places, NEW b \in Places, Calmer(b, a), NEW A \in Family
    PROVE  One(a, A) <= One(b, A) /\ One(a, A) \in {0, 1} /\ One(b, A) \in {0, 1}
<1>1. a \in A => b \in A
  <2>1. CASE \E q \in Procs : A = Alive(q)
    BY <2>1 DEF Alive, Calmer
  <2>2. CASE \E q \in Procs : A = Makers(q)
    <3>1. PICK q \in Procs : A = Makers(q)
      BY <2>2
    <3>2. q # Nothing
      BY DEF SchedulerAssumption
    <3> QED BY <3>1, <3>2 DEF Makers, Calmer
  <2>3. CASE A = Passers
    BY <2>3 DEF Passers, Passes, Calmer
  <2>4. CASE A \in {Early, NotGiven}
    BY <2>4 DEF Alive, Early, NotGiven, Calmer
  <2> QED BY <2>1, <2>2, <2>3, <2>4 DEF Family
<1> QED BY <1>1 DEF One

\* The place of a continuation.
LEMMA PlaceIn ==
    ASSUME NEW E, NEW s \in Seq(Held(E)), NEW p \in Procs
    PROVE  /\ Place(s, p) \in Places /\ Place(s, p).of = p /\ Place(s, p).fn = Lead(s).fn /\ Place(s, p).at = Lead(s).at
           /\ Place(s, p).idle = Suspending(Lead(s)) /\ Place(s, p).makes = Runner(s)
<1>1. Lead(s).fn \in Functions_ /\ Lead(s).at \in Points
  <2>1. CASE HasLead(s)
    <3>1. PICK i \in 1 .. Len(s) : IsLead(s, i)
      BY <2>1 DEF HasLead
    <3>2. Lead(s) = s[i] /\ s[i] \in Held(E)
      BY <3>1, LeadIs
    <3> QED BY <3>2 DEF Held
  <2>2. CASE ~ HasLead(s)
    BY <2>2 DEF Lead, Frame, Functions_, Points, Users, Switchers
  <2> QED BY <2>1, <2>2
<1>2. \A f \in Held(E) : Pending(f) => f.who \in Procs
  BY DEF Held, Pending
<1>3. Runner(s) \in Procs \cup {Nothing}
  <2>1. CASE s = <<>>
    BY <2>1 DEF Runner, Peek, Bottom, Frame, Pending
  <2>2. CASE s # <<>>
    <3>1. Peek(s) \in Held(E) /\ Tail(s) \in Seq(Held(E))
      BY <2>2, Split
    <3>2. CASE Tail(s) = <<>>
      <4>1. ~ Pending(Peek(Tail(s)))
        BY <3>2 DEF Peek, Bottom, Frame, Pending
      <4> QED BY <1>2, <3>1, <4>1 DEF Runner
    <3>3. CASE Tail(s) # <<>>
      <4>1. Peek(Tail(s)) \in Held(E)
        BY <3>1, <3>3, Split
      <4> QED BY <1>2, <3>1, <4>1 DEF Runner
    <3> QED BY <3>2, <3>3
  <2> QED BY <2>1, <2>2
<1>4. Suspending(Lead(s)) \in BOOLEAN
  BY DEF Suspending
<1> QED BY <1>1, <1>3, <1>4 DEF Place, Places

\* What a call returns to neither waits nor makes a process.
LEMMA Clear ==
    ASSUME NEW E, NEW p, NEW f \in Held(E), NEW r \in Owned(E, p), Good(f, Peek(r), p), ~ Ended(f), f.fn # "alarm"
    PROVE  Lead(r).fn # "wait" /\ Runner(r) = Nothing
<1>1. r \in Seq(Held(E)) /\ \A i \in 1 .. Len(r) : LiveAt(r, i) => Good(r[i], Under(r, i), p)
  BY DEF Owned
<1>2. Peek(r).fn \notin {"alarm", "run", "wait"}
  BY DEF Good
<1>3. Runner(r) = Nothing
  BY <1>2 DEF Runner, Pending
<1>4. \A g \in Held(E) : Skips(g) => ~ Ended(g)
  BY DEF Held, Skips, Ended, Suspending
<1>5. ASSUME NEW i \in 1 .. Len(r), IsLead(r, i), r[i].fn = "wait" PROVE FALSE
  <2>0. Len(r) \in Nat
    BY <1>1, LenProperties
  <2>1. r # <<>> /\ Peek(r) = r[1]
    <3>1. r # <<>>
      BY <1>1, <1>5, <2>0, EmptySeq
    <3> QED BY <3>1 DEF Peek, Head
  <2>2. i # 1
    BY <1>2, <1>5, <2>1
  <2>3. \A j \in 1 .. i - 1 : j \in 1 .. Len(r) /\ ~ Ended(r[j])
    <3>1. ASSUME NEW j \in 1 .. i - 1 PROVE j \in 1 .. Len(r) /\ Skips(r[j])
      BY <1>5, <2>0 DEF IsLead
    <3> QED BY <1>1, <1>4, <3>1
  <2>4. \A j \in 1 .. i : LiveAt(r, j)
    BY <2>0, <2>3 DEF LiveAt
  <2>5. i - 1 \in 1 .. Len(r) /\ i - 1 \in 1 .. i - 1 /\ i - 1 < Len(r) /\ (i - 1) + 1 = i
    BY <2>0, <2>2
  <2>6. Good(r[i - 1], r[i], p) /\ ~ Ended(r[i - 1])
    BY <1>1, <2>3, <2>4, <2>5 DEF Under
  <2>7. r[i - 1].fn = "alarm"
    BY <1>5, <2>6 DEF Good
  <2>8. i - 1 # 1
    BY <1>2, <2>1, <2>7
  <2>9. i - 2 \in 1 .. Len(r) /\ i - 2 \in 1 .. i - 1 /\ i - 2 < Len(r) /\ (i - 2) + 1 = i - 1
    BY <2>0, <2>2, <2>8
  <2>10. Good(r[i - 2], r[i - 1], p) /\ ~ Ended(r[i - 2])
    <3>1. LiveAt(r, i - 2) /\ Under(r, i - 2) = r[i - 1]
      BY <2>4, <2>9 DEF Under
    <3> QED BY <1>1, <2>3, <2>9, <3>1
  <2> QED BY <2>7, <2>10 DEF Good
<1>6. Lead(r).fn # "wait"
  <2>1. CASE HasLead(r)
    <3>1. PICK i \in 1 .. Len(r) : IsLead(r, i)
      BY <2>1 DEF HasLead
    <3>2. Lead(r) = r[i]
      BY <1>1, <3>1, LeadIs
    <3> QED BY <1>5, <3>1, <3>2
  <2>2. CASE ~ HasLead(r)
    BY <2>2 DEF Lead, Frame
  <2> QED BY <2>1, <2>2
<1> QED BY <1>3, <1>6

\* An entry that a machine has found does as the frame that found it.
LEMMA Uncovered ==
    ASSUME NEW E, Stored(E), NEW p \in Procs, NEW s \in Calm(E, p), AlarmsAlone
    PROVE  /\ Seen(s) \in Seq(Held(E)) /\ s \in Seq(Held(E))
           /\ Calmer(Place(s, p), Place(Seen(s), p)) /\ Calmer(Place(Seen(s), p), Place(s, p))
           /\ Onward(Place(s, p), Place(Seen(s), p)) /\ Onward(Place(Seen(s), p), Place(s, p))
<1>1. s \in Seq(Held(E)) /\ s \in Owned(E, p) /\ \A i \in 1 .. Len(s) : LiveAt(s, i) => Settled(s[i])
  BY DEF Calm, Owned
<1>2. CASE Peek(s).next = Nothing
  <2>1. Seen(s) = s
    BY <1>2 DEF Seen
  <2> QED BY <1>1, <2>1 DEF Calmer, Onward
<1>3. CASE Peek(s).next # Nothing
  <2>1. PICK f : f = Peek(s)
    OBVIOUS
  <2>2. s # <<>>
    BY <1>3 DEF Peek, Bottom, Frame
  <2>3. f \in Held(E) /\ f = s[1] /\ 1 \in 1 .. Len(s)
    <3>1. Len(s) \in Nat \ {0}
      BY <1>1, <2>2, EmptySeq, LenProperties
    <3> QED BY <1>1, <2>1, <2>2, <3>1, Split DEF Peek, Head
  <2>4. Settled(f)
    <3>1. LiveAt(s, 1)
      BY DEF LiveAt
    <3> QED BY <1>1, <2>3, <3>1
  <2>5. PICK n \in E : n = f.next
    BY <1>3, <2>1, <2>3 DEF Held
  <2>6. n.stack \in Seq(Held(E)) /\ Firm(Peek(n.stack)) /\ Seen(s) = n.stack
    BY <1>3, <2>1, <2>4, <2>5 DEF Stored, Settled, Seen
  <2>7. PICK g : g = Peek(n.stack)
    OBVIOUS
  <2>8. n.stack # <<>>
    BY <2>6 DEF Peek, Bottom, Frame, Firm
  <2>9. g \in Held(E) /\ n.stack = <<g>> \o Tail(n.stack) /\ Tail(n.stack) \in Seq(Held(E))
    BY <2>6, <2>7, <2>8, Split
  <2>10. s = <<f>> \o Tail(s) /\ Tail(s) \in Seq(Held(E))
    BY <1>1, <2>1, <2>2, Split
  <2>11. ASSUME NEW h \in Held(E), NEW t \in Seq(Held(E)), Firm(h)
         PROVE  /\ Lead(<<h>> \o t) = h /\ Runner(<<h>> \o t) = Nothing /\ ~ Suspending(h) /\ h.fn \notin {"wait", "force"}
                /\ h.fn # "append" /\ (h.fn = "fill" => h.at = "call")
    <3>1. ~ Skips(h) /\ ~ Pending(h) /\ (h.fn = "alarm" => h.next # Nothing)
      BY <2>11 DEF Firm, Skips, Pending, Held, Switchers
    <3>2. ~ Suspending(h) /\ h.fn \notin {"wait", "force"} /\ h.fn # "append" /\ (h.fn = "fill" => h.at = "call")
      BY <2>11 DEF Firm, Suspending, Held, Switchers
    <3> QED BY <3>1, <3>2, LeadOn, RunnerOn
  <2>12. Firm(f) /\ Firm(g)
    BY <1>3, <2>1, <2>6, <2>7 DEF Firm
  <2>13. Lead(s) = f /\ Runner(s) = Nothing /\ ~ Suspending(f) /\ f.fn \notin {"wait", "force"} /\ f.fn # "append" /\ (f.fn = "fill" => f.at = "call")
    BY <2>3, <2>10, <2>11, <2>12
  <2>14. /\ Lead(n.stack) = g /\ Runner(n.stack) = Nothing /\ ~ Suspending(g) /\ g.fn \notin {"wait", "force"} /\ g.fn # "append"
         /\ (g.fn = "fill" => g.at = "call")
    BY <2>9, <2>11, <2>12
  <2>15. PICK a : a = Place(s, p)
    OBVIOUS
  <2>16. PICK b : b = Place(n.stack, p)
    OBVIOUS
  <2>17. a.of = p /\ ~ a.idle /\ a.makes = Nothing /\ ~ Passes(a) /\ ~ Computed(a) /\ ~ Given(a) /\ Awake(a)
    BY <1>1, <2>13, <2>15, PlaceIn DEF Passes, Computed, Given, Awake
  <2>18. b.of = p /\ ~ b.idle /\ b.makes = Nothing /\ ~ Passes(b) /\ ~ Computed(b) /\ ~ Given(b) /\ Awake(b)
    BY <2>6, <2>14, <2>16, PlaceIn DEF Passes, Computed, Given, Awake
  <2>19. Calmer(a, b) /\ Calmer(b, a)
    BY <2>17, <2>18 DEF Calmer
  <2>20. Onward(a, b) /\ Onward(b, a)
    BY <2>17, <2>18 DEF Onward, Claiming
  <2> QED BY <1>1, <2>6, <2>15, <2>16, <2>19, <2>20
<1> QED BY <1>2, <1>3

----------------------------------------------------------------------------
(* Steps that add nothing to any count.                                    *)

Fewer == \A A \in Family : Among(A)' \in Int /\ Among(A)' <= Among(A)

\* Machine v goes from place b to place a, and some entries come and go.
LEMMA Moves ==
    ASSUME MakersAssumption, NEW E, Whole(E), NEW v \in VMs, \A u \in VMs \ {v} : stack'[u] = stack[u] /\ reg'[u] = reg[u],
           NEW A, Queued(A)' \in Int
    PROVE  /\ Among(A)' = Among(A) - One(Here(v), A) + One(Here(v)', A) + (Queued(A)' - Queued(A))
           /\ Among(A) \in Nat /\ Queued(A) \in Nat
<1>1. Among(A) \in Nat /\ Queued(A) \in Nat
  BY AmongMore DEF MakersAssumption, Whole
<1>2. /\ Cardinality(Hosts(A)') = Cardinality(Hosts(A)) - One(Here(v), A) + One(Here(v)', A)
      /\ Cardinality(Hosts(A)) \in Nat /\ Cardinality(Hosts(A)') \in Nat
  BY HostsMove DEF MakersAssumption
<1>3. Among(A)' = Cardinality(Hosts(A)') + Queued(A)' /\ Among(A) = Cardinality(Hosts(A)) + Queued(A)
  BY DEF Among
<1>4. One(Here(v), A) \in {0, 1} /\ One(Here(v)', A) \in {0, 1}
  BY DEF One
<1> QED BY <1>1, <1>2, <1>3, <1>4

\* The stack of an entry that a machine has found is one.
LEMMA SeenIn ==
    ASSUME NEW E, Stored(E), NEW s \in Seq(Held(E))
    PROVE  Seen(s) \in Seq(Held(E))
<1>1. CASE Peek(s).next # Nothing
  <2>1. s # <<>>
    BY <1>1 DEF Peek, Bottom, Frame
  <2>2. Peek(s) \in Held(E)
    BY <2>1, Split
  <2> QED BY <1>1, <2>2 DEF Seen, Stored, Held
<1>2. CASE Peek(s).next = Nothing
  BY <1>2 DEF Seen
<1> QED BY <1>1, <1>2

\* Whether a stack with frame f on top is about to be left for an entry.
LEMMA SeenOn ==
    ASSUME NEW E, NEW f \in Held(E), NEW r \in Seq(Held(E))
    PROVE  /\ f.next = Nothing => Seen(<<f>> \o r) = <<f>> \o r
           /\ f.next # Nothing => Seen(<<f>> \o r) = f.next.stack
<1>1. Peek(<<f>> \o r) = f
  BY OnTop
<1> QED BY <1>1 DEF Seen

\* The place of a stack with frame f on top.
LEMMA PlaceOn ==
    ASSUME NEW E, NEW p \in Procs, NEW f \in Held(E), NEW r \in Seq(Held(E))
    PROVE  /\ Place(<<f>> \o r, p) \in Places /\ Place(<<f>> \o r, p).of = p
           /\ Place(<<f>> \o r, p).makes = IF Pending(f) THEN f.who
                                           ELSE IF f.fn = "alarm" /\ f.next = Nothing /\ Pending(Peek(r)) THEN Peek(r).who
                                           ELSE Nothing
           /\ Skips(f) => /\ Place(<<f>> \o r, p).fn = Lead(r).fn /\ Place(<<f>> \o r, p).at = Lead(r).at
                          /\ Place(<<f>> \o r, p).idle = Suspending(Lead(r))
           /\ ~ Skips(f) => /\ Place(<<f>> \o r, p).fn = f.fn /\ Place(<<f>> \o r, p).at = f.at
                            /\ Place(<<f>> \o r, p).idle = Suspending(f)
<1>1. PICK t : t = <<f>> \o r
  OBVIOUS
<1>2. t \in Seq(Held(E)) /\ Peek(t) = f
  BY <1>1, OnTop
<1>3. Lead(t) = IF Skips(f) THEN Lead(r) ELSE f
  BY <1>1, LeadOn
<1>4. Runner(t) = IF Pending(f) THEN f.who
                  ELSE IF f.fn = "alarm" /\ f.next = Nothing /\ Pending(Peek(r)) THEN Peek(r).who
                  ELSE Nothing
  BY <1>1, RunnerOn
<1>5. /\ Place(t, p) \in Places /\ Place(t, p).of = p /\ Place(t, p).fn = Lead(t).fn /\ Place(t, p).at = Lead(t).at
      /\ Place(t, p).idle = Suspending(Lead(t)) /\ Place(t, p).makes = Runner(t)
  BY <1>2, PlaceIn
<1> QED BY <1>1, <1>3, <1>4, <1>5

\* A machine that goes on with a calmer stack.
LEMMA Quietly ==
    ASSUME SchedulerAssumption, MakersAssumption, NEW E, Whole(E), reg \in [VMs -> Procs], NEW v \in VMs,
           NEW s \in Seq(Held(E)), Become(v, s), reg' = reg,
           Calmer(Place(Seen(stack[v]), reg[v]), Place(Seen(s), reg[v])), \A A \in Family : Queued(A)' = Queued(A)
    PROVE  Fewer
<1>1. stack[v] \in Seq(Held(E)) /\ reg[v] \in Procs /\ stack \in [VMs -> Seq(Held(E))] /\ Stored(E)
  BY DEF Whole, Active
<1>2. Place(Seen(stack[v]), reg[v]) \in Places /\ Place(Seen(s), reg[v]) \in Places
  BY <1>1, SeenIn, PlaceIn
<1>3. stack'[v] = s /\ \A u \in VMs \ {v} : stack'[u] = stack[u] /\ reg'[u] = reg[u]
  BY <1>1 DEF Become
<1>4. Here(v)' = Place(Seen(s), reg[v]) /\ Here(v) = Place(Seen(stack[v]), reg[v])
  BY <1>3 DEF Here
<1>5. ASSUME NEW A \in Family PROVE Among(A)' \in Int /\ Among(A)' <= Among(A)
  <2>1. One(Here(v)', A) <= One(Here(v), A) /\ One(Here(v), A) \in {0, 1} /\ One(Here(v)', A) \in {0, 1}
    BY <1>2, <1>4, CalmerCounts
  <2>2. Queued(A)' = Queued(A) /\ Queued(A) \in Nat
    BY AmongMore DEF MakersAssumption, Whole
  <2>3. /\ Among(A)' = Among(A) - One(Here(v), A) + One(Here(v)', A) + (Queued(A)' - Queued(A))
        /\ Among(A) \in Nat
    BY <1>3, <2>2, Moves
  <2> QED BY <2>1, <2>2, <2>3
<1> QED BY <1>5 DEF Fewer

\* The queues are as they were.
LEMMA SameQueues ==
    ASSUME Still, log'.delivered = log.delivered
    PROVE  \A A \in Family : Queued(A)' = Queued(A)
BY DEF Still, Queued, Dependants, In, Indices, Spot, Place

\* The frame on top, with h instead of f.
LEMMA CalmTop ==
    ASSUME NEW E, Stored(E), NEW p \in Procs, NEW f \in Held(E), NEW h \in Held(E), NEW r \in Seq(Held(E)),
           h.fn = f.fn, h.next = f.next, h.who = f.who, Suspending(f) => Suspending(h), Pending(h) => Pending(f),
           f.fn = "wait" /\ h.at \in {"unlock", "return"} => f.at \in {"unlock", "return"},
           f.fn = "fill" /\ h.at = "call" => f.at = "call",
           f.fn = "append" /\ f.at \in {"release", "enable"} => h.at \in {"release", "enable"}
    PROVE  Calmer(Place(Seen(<<f>> \o r), p), Place(Seen(<<h>> \o r), p))
<1>1. CASE f.next # Nothing
  <2>1. Seen(<<f>> \o r) = f.next.stack /\ Seen(<<h>> \o r) = f.next.stack
    BY <1>1, SeenOn
  <2> QED BY <2>1 DEF Calmer
<1>2. CASE f.next = Nothing
  <2>1. PICK b : b = Place(<<f>> \o r, p)
    OBVIOUS
  <2>2. PICK a : a = Place(<<h>> \o r, p)
    OBVIOUS
  <2>3. Seen(<<f>> \o r) = <<f>> \o r /\ Seen(<<h>> \o r) = <<h>> \o r
    <3>1. Seen(<<f>> \o r) = <<f>> \o r
      BY <1>2, SeenOn
    <3>2. h.next = Nothing
      BY <1>2
    <3>3. Seen(<<h>> \o r) = <<h>> \o r
      BY <3>2, SeenOn
    <3> QED BY <3>1, <3>3
  <2>4. /\ b.of = p /\ b.makes = (IF Pending(f) THEN f.who ELSE IF f.fn = "alarm" /\ Pending(Peek(r)) THEN Peek(r).who ELSE Nothing)
        /\ (Skips(f) => b.fn = Lead(r).fn /\ b.at = Lead(r).at /\ b.idle = Suspending(Lead(r)))
        /\ (~ Skips(f) => b.fn = f.fn /\ b.at = f.at /\ b.idle = Suspending(f))
    BY <1>2, <2>1, PlaceOn
  <2>5. /\ a.of = p /\ a.makes = (IF Pending(h) THEN h.who ELSE IF h.fn = "alarm" /\ Pending(Peek(r)) THEN Peek(r).who ELSE Nothing)
        /\ (Skips(h) => a.fn = Lead(r).fn /\ a.at = Lead(r).at /\ a.idle = Suspending(Lead(r)))
        /\ (~ Skips(h) => a.fn = h.fn /\ a.at = h.at /\ a.idle = Suspending(h))
    BY <1>2, <2>2, PlaceOn
  <2>6. Skips(h) <=> Skips(f)
    BY DEF Skips
  <2>7. a.makes # Nothing => b.makes = a.makes
    BY <2>4, <2>5 DEF Pending
  <2>8. (~ a.idle => ~ b.idle) /\ (Passes(a) => Passes(b)) /\ (~ a.idle => (Computed(b) => Computed(a)) /\ (Given(b) => Given(a)))
    <3>1. CASE Skips(f)
      BY <2>4, <2>5, <2>6, <3>1 DEF Passes, Computed, Given
    <3>2. CASE ~ Skips(f)
      BY <2>4, <2>5, <2>6, <3>2 DEF Passes, Computed, Given
    <3> QED BY <3>1, <3>2
  <2>9. Calmer(b, a)
    BY <2>4, <2>5, <2>7, <2>8 DEF Calmer
  <2> QED BY <2>1, <2>2, <2>3, <2>9
<1> QED BY <1>1, <1>2

\* A frame that is left for those below it.
LEMMA CalmPop ==
    ASSUME NEW E, Stored(E), AlarmsAlone, NEW p \in Procs, NEW f \in Held(E), NEW r \in Calm(E, p), Good(f, Peek(r), p), ~ Ended(f),
           f.fn # "alarm", f.fn # "fill"
    PROVE  Calmer(Place(Seen(<<f>> \o r), p), Place(Seen(r), p))
<1>1. r \in Seq(Held(E)) /\ r \in Owned(E, p)
  BY DEF Calm, Owned
<1>2. f.next = Nothing /\ ~ Suspending(f)
  BY DEF Ended
<1>3. Lead(r).fn # "wait" /\ Runner(r) = Nothing
  BY <1>1, Clear
<1>4. PICK b : b = Place(<<f>> \o r, p)
  OBVIOUS
<1>5. Seen(<<f>> \o r) = <<f>> \o r
  BY <1>1, <1>2, SeenOn
<1>6. /\ b.of = p
      /\ (Skips(f) => b.fn = Lead(r).fn /\ b.at = Lead(r).at /\ b.idle = Suspending(Lead(r)))
      /\ (~ Skips(f) => b.fn = f.fn /\ b.at = f.at /\ b.idle = Suspending(f))
  BY <1>1, <1>4, PlaceOn
<1>7. PICK c : c = Place(r, p)
  OBVIOUS
<1>8. c.of = p /\ c.fn = Lead(r).fn /\ c.at = Lead(r).at /\ c.idle = Suspending(Lead(r)) /\ c.makes = Nothing
  BY <1>1, <1>3, <1>7, PlaceIn
<1>9. Calmer(b, c)
  <2>1. ~ Passes(c)
    BY <1>3, <1>8 DEF Passes
  <2>2. CASE Skips(f)
    BY <1>6, <1>8, <2>1, <2>2 DEF Calmer, Computed, Given
  <2>3. CASE ~ Skips(f) /\ f.fn # "append"
    BY <1>2, <1>6, <1>8, <2>1, <2>3 DEF Calmer, Computed, Given
  <2>4. CASE f.fn = "append"
    <3>1. Peek(r).fn = "start" /\ Peek(r).next = Nothing
      BY <2>4 DEF Good
    <3>2. r # <<>>
      BY <3>1 DEF Peek, Bottom, Frame
    <3>3. r = <<Peek(r)>> \o Tail(r) /\ Peek(r) \in Held(E) /\ Tail(r) \in Seq(Held(E))
      BY <1>1, <3>2, Split
    <3>4. ~ Skips(Peek(r)) /\ Suspending(Peek(r))
      BY <3>1 DEF Skips, Suspending
    <3>5. Lead(r) = Peek(r)
      BY <3>3, <3>4, LeadOn
    <3>6. c.idle
      BY <1>8, <3>4, <3>5
    <3> QED BY <1>2, <1>6, <1>8, <2>1, <3>6 DEF Calmer
  <2> QED BY <2>2, <2>3, <2>4
<1>10. PICK a : a = Place(Seen(r), p)
  OBVIOUS
<1>11. Calmer(c, a)
  BY <1>7, <1>10, Uncovered
<1>12. Calmer(b, a)
  BY <1>9, <1>11 DEF Calmer
<1> QED BY <1>4, <1>5, <1>10, <1>12

\* A call from the program.
LEMMA CalmPush ==
    ASSUME NEW E, Stored(E), NEW p \in Procs, NEW f \in Held(E), NEW g \in Held(E), NEW r \in Seq(Held(E)),
           f.fn \in {"body", "fill"}, f.at = "call",
           g.next = Nothing, g.fn \in {"pause", "wait", "signal", "force"}, g.at \in {"disable", "acquire", "drain"}
    PROVE  Calmer(Place(Seen(<<f>> \o r), p), Place(Seen(<<g>> \o (<<f>> \o r)), p))
<1>1. PICK s : s = <<f>> \o r
  OBVIOUS
<1>2. s \in Seq(Held(E)) /\ Peek(s) = f
  BY <1>1, OnTop
<1>3. f.next = Nothing /\ ~ Skips(f) /\ ~ Suspending(f) /\ ~ Pending(f)
  BY DEF Held, Switchers, Skips, Suspending, Pending
<1>4. Lead(s) = f
  BY <1>1, <1>3, LeadOn
<1>5. PICK b : b = Place(<<f>> \o r, p)
  OBVIOUS
<1>6. PICK a : a = Place(<<g>> \o s, p)
  OBVIOUS
<1>7. Seen(<<f>> \o r) = <<f>> \o r /\ Seen(<<g>> \o s) = <<g>> \o s
  <2>1. Seen(<<f>> \o r) = <<f>> \o r
    BY <1>3, SeenOn
  <2>2. Seen(<<g>> \o s) = <<g>> \o s
    BY <1>2, SeenOn
  <2> QED BY <2>1, <2>2
<1>8. b.of = p /\ b.fn = f.fn /\ b.at = f.at /\ ~ b.idle
  BY <1>3, <1>5, PlaceOn
<1>9. ~ Suspending(g) /\ ~ Pending(g) /\ g.fn # "alarm"
  BY DEF Suspending, Pending
<1>10. a.of = p /\ a.makes = Nothing /\ ~ Passes(a)
  <2>1. a.of = p /\ a.makes = Nothing
    BY <1>2, <1>6, <1>9, PlaceOn
  <2>2. ~ Passes(a)
    <3>1. CASE Skips(g)
      BY <1>2, <1>4, <1>6, <3>1, PlaceOn DEF Passes
    <3>2. CASE ~ Skips(g)
      BY <1>2, <1>6, <3>2, PlaceOn DEF Passes
    <3> QED BY <3>1, <3>2
  <2> QED BY <2>1, <2>2
<1>11. Calmer(b, a)
  BY <1>8, <1>10 DEF Calmer, Computed, Given
<1> QED BY <1>1, <1>5, <1>6, <1>7, <1>11, Zenon

\* The frame on top goes on to point a.
LEMMA FewerGoTo ==
    ASSUME SchedulerAssumption, MakersAssumption, NEW E, Whole(E), reg \in [VMs -> Procs], NEW v \in VMs, stack[v] # <<>>,
           NEW a \in Points, a = "block" => Top(v).fn = "wait", a = "claim" => Top(v).fn = "force",
           Top(v).next # Nothing => a \in {"release", "enable", "go"},
           Top(v).fn \in Switchers /\ Top(v).next = Nothing => a \in {"disable", "acquire", "inside"},
           Suspending(Top(v)) => Top(v).fn = "start" \/ a = "claim",
           Top(v).fn = "run" /\ a \in {"disable", "acquire", "inside"} => Top(v).at \in {"disable", "acquire", "inside"},
           Top(v).fn = "wait" /\ a \in {"unlock", "return"} => Top(v).at \in {"unlock", "return"},
           Top(v).fn = "fill" /\ a = "call" => Top(v).at = "call",
           Top(v).fn = "append" /\ Top(v).at \in {"release", "enable"} => a \in {"release", "enable"},
           GoTo(v, a), reg' = reg, \A A \in Family : Queued(A)' = Queued(A)
    PROVE  Fewer
<1>1. Top(v) \in Held(E) /\ Rest(v) \in Seq(Held(E)) /\ stack[v] = <<Top(v)>> \o Rest(v) /\ Stored(E) /\ reg[v] \in Procs
  BY OnMachine DEF Whole
<1>2. PICK f : f = Top(v)
  OBVIOUS
<1>3. PICK h : h = [Top(v) EXCEPT !.at = a]
  OBVIOUS
<1>4. /\ h.fn = f.fn /\ h.at = a /\ h.next = f.next /\ h.who = f.who
      /\ h \in [fn : Functions_, at : Points, who : Procs \cup {Nothing}, n : Nat, next : {Nothing} \cup E]
  BY <1>1, <1>2, <1>3 DEF Held
<1>5. h \in Held(E) /\ f \in Held(E)
  BY <1>1, <1>2, <1>4 DEF Held
<1>6. PICK r : r = Rest(v)
  OBVIOUS
<1>7. Suspending(f) => Suspending(h)
  BY <1>2, <1>4, <1>5 DEF Suspending, Held
<1>8. Pending(h) => Pending(f)
  BY <1>2, <1>4 DEF Pending
<1>9. r \in Seq(Held(E))
  BY <1>1, <1>6
<1>10. Calmer(Place(Seen(<<f>> \o r), reg[v]), Place(Seen(<<h>> \o r), reg[v]))
  <2>1. PICK p \in Procs : p = reg[v]
    BY <1>1
  <2>2. /\ Stored(E) /\ f \in Held(E) /\ h \in Held(E) /\ r \in Seq(Held(E))
        /\ h.fn = f.fn /\ h.next = f.next /\ h.who = f.who /\ (Suspending(f) => Suspending(h)) /\ (Pending(h) => Pending(f))
        /\ f.fn = "wait" /\ h.at \in {"unlock", "return"} => f.at \in {"unlock", "return"}
        /\ f.fn = "fill" /\ h.at = "call" => f.at = "call"
        /\ f.fn = "append" /\ f.at \in {"release", "enable"} => h.at \in {"release", "enable"}
    BY <1>1, <1>2, <1>4, <1>5, <1>7, <1>8, <1>9
  <2>3. Calmer(Place(Seen(<<f>> \o r), p), Place(Seen(<<h>> \o r), p))
    BY <2>2, CalmTop
  <2> QED BY <2>1, <2>3
<1>11. PICK s : s = <<h>> \o r
  OBVIOUS
<1>12. s \in Seq(Held(E)) /\ Become(v, s)
  <2>1. s \in Seq(Held(E))
    BY <1>5, <1>9, <1>11, OnTop
  <2>2. Become(v, s)
    BY <1>3, <1>6, <1>11 DEF GoTo
  <2> QED BY <2>1, <2>2
<1>13. stack[v] = <<f>> \o r
  BY <1>1, <1>2, <1>6
<1>14. Calmer(Place(Seen(stack[v]), reg[v]), Place(Seen(s), reg[v]))
  BY <1>10, <1>11, <1>13, Zenon
<1> QED BY <1>12, <1>14, Quietly

\* The frame on top is left.
LEMMA FewerPop ==
    ASSUME SchedulerAssumption, MakersAssumption, AlarmsAlone, NEW E, Whole(E), reg \in [VMs -> Procs], NEW v \in VMs, stack[v] # <<>>,
           ~ Ended(Top(v)), Top(v).fn # "alarm", Top(v).fn # "fill",
           Become(v, Rest(v)), reg' = reg, \A A \in Family : Queued(A)' = Queued(A)
    PROVE  Fewer
<1>1. /\ Top(v) \in Held(E) /\ Rest(v) \in Calm(E, reg[v]) /\ stack[v] = <<Top(v)>> \o Rest(v) /\ Stored(E) /\ reg[v] \in Procs
      /\ Good(Top(v), Peek(Rest(v)), reg[v]) /\ Rest(v) \in Seq(Held(E))
  BY OnMachine DEF Whole
<1>2. PICK f : f = Top(v)
  OBVIOUS
<1>3. PICK r : r = Rest(v)
  OBVIOUS
<1>4. f \in Held(E) /\ r \in Calm(E, reg[v]) /\ Good(f, Peek(r), reg[v]) /\ ~ Ended(f) /\ f.fn # "alarm" /\ f.fn # "fill"
  BY <1>1, <1>2, <1>3
<1>5. Calmer(Place(Seen(<<f>> \o r), reg[v]), Place(Seen(r), reg[v]))
  BY <1>1, <1>4, CalmPop
<1>6. stack[v] = <<f>> \o r
  BY <1>1, <1>2, <1>3
<1>7. Calmer(Place(Seen(stack[v]), reg[v]), Place(Seen(r), reg[v]))
  BY <1>5, <1>6, Zenon
<1>8. r \in Seq(Held(E)) /\ Become(v, r)
  BY <1>1, <1>3
<1> QED BY <1>7, <1>8, Quietly

\* The steps of acquire-scheduler and release-scheduler.
LEMMA FewerScheduler ==
    ASSUME SchedulerAssumption, MakersAssumption, AlarmsAlone, NEW E, Whole(E), reg \in [VMs -> Procs], NEW v \in VMs,
           DisableAlarms(v) \/ AcquireScheduler(v) \/ ReleaseScheduler(v) \/ EnableAlarms(v)
    PROVE  Fewer
<1> USE DEF At, clock, semaphore, future
<1>1. stack[v] # <<>> /\ Top(v).fn \in Users
  BY DEF DisableAlarms, AcquireScheduler, ReleaseScheduler, EnableAlarms, Top
<1>2. Top(v) \in Held(E)
  BY <1>1, OnMachine
<1>3. reg' = reg /\ \A A \in Family : Queued(A)' = Queued(A)
  <2>1. Still /\ log' = log
    BY DEF DisableAlarms, AcquireScheduler, ReleaseScheduler, EnableAlarms, Still
  <2> QED BY <2>1, SameQueues DEF Still
<1>4. Suspending(Top(v)) => Top(v).fn = "start"
  BY <1>1 DEF DisableAlarms, AcquireScheduler, ReleaseScheduler, EnableAlarms, Top, Suspending, Users, Switchers
<1>5. CASE DisableAlarms(v)
  <2>1. Top(v).at = "disable" /\ Top(v).next = Nothing /\ GoTo(v, "acquire") /\ "acquire" \in Points
    BY <1>2, <1>5 DEF DisableAlarms, Top, Held, Points
  <2> QED BY <1>1, <1>3, <1>4, <2>1, FewerGoTo DEF Users, Switchers
<1>6. CASE AcquireScheduler(v)
  <2>1. Top(v).at = "acquire" /\ Top(v).next = Nothing /\ GoTo(v, "inside") /\ "inside" \in Points
    BY <1>2, <1>6 DEF AcquireScheduler, Top, Held, Points
  <2> QED BY <1>1, <1>3, <1>4, <2>1, FewerGoTo DEF Users, Switchers
<1>7. CASE ReleaseScheduler(v)
  <2>1. Top(v).at = "release" /\ (Top(v).fn \in Switchers => Top(v).next # Nothing) /\ GoTo(v, "enable") /\ "enable" \in Points
    BY <1>2, <1>7 DEF ReleaseScheduler, Top, Held, Points
  <2> QED BY <1>1, <1>3, <1>4, <2>1, FewerGoTo DEF Users, Switchers
<1>8. CASE EnableAlarms(v) /\ Top(v).fn \in Switchers
  <2>1. Top(v).at = "enable" /\ Top(v).next # Nothing /\ GoTo(v, "go") /\ "go" \in Points
    BY <1>2, <1>8 DEF EnableAlarms, Top, Held, Points
  <2> QED BY <1>1, <1>3, <1>4, <1>8, <2>1, FewerGoTo DEF Users, Switchers
<1>9. CASE EnableAlarms(v) /\ Top(v).fn \notin Switchers
  <2>1. Become(v, Rest(v)) /\ Top(v).at = "enable"
    BY <1>9 DEF EnableAlarms, Top
  <2>2. ~ Ended(Top(v)) /\ Top(v).fn # "alarm" /\ Top(v).fn # "fill"
    BY <1>1, <1>2, <1>9, <2>1, Ordinary DEF Users, Switchers
  <2> QED BY <1>1, <1>3, <2>1, <2>2, FewerPop
<1> QED BY <1>5, <1>6, <1>7, <1>8, <1>9

\* The machine looks for another process.
LEMMA FewerIdle ==
    ASSUME SchedulerAssumption, MakersAssumption, NEW E, Whole(E), reg \in [VMs -> Procs], NEW v \in VMs,
           NEW r \in Seq(Held(E)), Become(v, <<Frame("start", "disable")>> \o r),
           reg' = reg, \A A \in Family : Queued(A)' = Queued(A)
    PROVE  Fewer
<1>1. PICK e : e = Frame("start", "disable")
  OBVIOUS
<1>2. e \in Held(E) /\ e.fn = "start" /\ e.at = "disable" /\ e.next = Nothing
  BY <1>1, Fresh DEF Points, Switchers
<1>3. ~ Skips(e) /\ Suspending(e) /\ ~ Pending(e)
  BY <1>2 DEF Skips, Suspending, Pending
<1>4. PICK a : a = Place(<<e>> \o r, reg[v])
  OBVIOUS
<1>5. reg[v] \in Procs /\ stack[v] \in Seq(Held(E)) /\ Stored(E)
  BY DEF Whole, Active
<1>6. Seen(<<e>> \o r) = <<e>> \o r
  BY <1>2, OnTop DEF Seen
<1>7. a.of = reg[v] /\ a.makes = Nothing /\ a.idle /\ a.fn = "start"
  BY <1>2, <1>3, <1>4, <1>5, PlaceOn
<1>8. PICK b : b = Place(Seen(stack[v]), reg[v])
  OBVIOUS
<1>9. b.of = reg[v]
  BY <1>5, <1>8, SeenIn, PlaceIn
<1>10. Calmer(b, a)
  BY <1>7, <1>9 DEF Calmer, Passes
<1>11. PICK s : s = <<e>> \o r
  OBVIOUS
<1>12. s \in Seq(Held(E))
  BY <1>2, <1>11, OnTop
<1>13. Become(v, s)
  BY <1>1, <1>11
<1>14. a = Place(Seen(s), reg[v])
  BY <1>4, <1>6, <1>11, Zenon
<1>15. Calmer(Place(Seen(stack[v]), reg[v]), Place(Seen(s), reg[v]))
  BY <1>8, <1>10, <1>14
<1> QED BY <1>12, <1>13, <1>15, Quietly

\* The steps of wait after it has counted, and those of signal.
LEMMA FewerSemaphore ==
    ASSUME SchedulerAssumption, MakersAssumption, AlarmsAlone, NEW E, Whole(E), reg \in [VMs -> Procs], NEW v \in VMs,
           Balanced, value \in Int, log \in Logs,
           ReleaseWait(v) \/ Block(v) \/ WaitReturns(v) \/ Signal(v) \/ ReleaseSignal(v)
    PROVE  Fewer
<1> USE DEF At, clock, semaphore, future
<1>1. stack[v] # <<>> /\ Top(v).fn \in {"wait", "signal"}
  BY DEF ReleaseWait, Block, WaitReturns, Signal, ReleaseSignal, Top
<1>2. Top(v) \in Held(E)
  BY <1>1, OnMachine
<1>3. reg' = reg /\ log'.delivered = log.delivered /\ Top(v).next = Nothing
  <2>1. reg' = reg
    BY DEF ReleaseWait, Block, WaitReturns, Signal, ReleaseSignal, ReleaseMutex
  <2>2. log'.delivered = log.delivered
    BY DEF ReleaseWait, Block, WaitReturns, Signal, ReleaseSignal, ReleaseMutex, Logs
  <2> QED BY <1>1, <1>2, <2>1, <2>2 DEF Held, Switchers
<1>4. ASSUME ~ Signal(v) PROVE \A A \in Family : Queued(A)' = Queued(A)
  <2>1. Still
    BY <1>4 DEF Still, ReleaseWait, Block, WaitReturns, ReleaseSignal, ReleaseMutex
  <2> QED BY <1>3, <2>1, SameQueues
<1>5. CASE ReleaseWait(v)
  <2>1. GoTo(v, "return") /\ Top(v).at = "unlock" /\ Top(v).fn = "wait" /\ "return" \in Points
    BY <1>5 DEF ReleaseWait, ReleaseMutex, Returned, GoTo, Top, Points
  <2>2. ~ Signal(v)
    BY <2>1 DEF Signal, Top
  <2>3. \A A \in Family : Queued(A)' = Queued(A)
    BY <1>4, <2>2
  <2> QED BY <1>1, <1>3, <2>1, <2>3, FewerGoTo DEF Switchers, Suspending
<1>6. CASE Block(v)
  <2>1. Top(v).fn = "wait" /\ Become(v, <<Frame("start", "disable")>> \o Returned(v))
    BY <1>6 DEF Block, ReleaseMutex, Top
  <2>2. Returned(v) \in Seq(Held(E))
    BY <1>1, <2>1, WaitGood
  <2>3. \A A \in Family : Queued(A)' = Queued(A)
    BY <1>4, <2>1 DEF Signal, Top
  <2> QED BY <1>3, <2>1, <2>2, <2>3, FewerIdle
<1>7. CASE WaitReturns(v)
  <2>1. Top(v).fn = "wait" /\ Top(v).at = "return" /\ Become(v, Rest(v))
    BY <1>7 DEF WaitReturns, Top
  <2>2. ~ Ended(Top(v))
    BY <1>2, <2>1, Ordinary DEF Switchers
  <2>3. \A A \in Family : Queued(A)' = Queued(A)
    BY <1>4, <2>1 DEF Signal, Top
  <2> QED BY <1>1, <1>3, <2>1, <2>2, <2>3, FewerPop
<1>8. CASE Signal(v)
  <2>1. GoTo(v, "unlock") /\ Top(v).fn = "signal" /\ Top(v).at = "locked" /\ "unlock" \in Points
    BY <1>8 DEF Signal, Top, Points
  <2>2. queue \in Seq(E) /\ semQ \in Seq(E) /\ dependantsQ \in Seq(E) /\ dependantsQ' = dependantsQ
    BY <1>8 DEF Whole, Signal
  <2>3. ASSUME NEW A \in Family PROVE Queued(A)' = Queued(A)
    <3>0. Queued(A)' = In(queue', A) + In(semQ', A) + (IF log'.delivered THEN 0 ELSE In(dependantsQ', A))
      BY DEF Queued, Dependants, In, Indices, Spot, Place
    <3>1. CASE value' <= 0
      <4>1. semQ # <<>>
        <5>1. value' = value + 1 /\ Len(semQ) # 0
          BY <1>8, <3>1 DEF Signal, Balanced
        <5> QED BY <5>1
      <4>2. Head(semQ) \in E /\ Tail(semQ) \in Seq(E)
        BY <2>2, <4>1, Split
      <4>3. queue' = Append(queue, Head(semQ)) /\ semQ' = Tail(semQ)
        BY <1>8, <3>1 DEF Signal
      <4>4. In(queue', A) = In(queue, A) + One(Spot(Head(semQ)), A)
        BY <2>2, <4>2, <4>3, InAppend
      <4>5. In(semQ, A) = One(Spot(Head(semQ)), A) + In(semQ', A)
        BY <2>2, <4>1, <4>3, InTail
      <4>6. In(queue, A) \in Nat /\ In(semQ', A) \in Nat /\ One(Spot(Head(semQ)), A) \in {0, 1} /\ In(dependantsQ, A) \in Nat
        BY <2>2, <4>2, <4>3, InNat DEF One
      <4> QED BY <1>3, <2>2, <3>0, <4>4, <4>5, <4>6 DEF Queued, Dependants
    <3>2. CASE ~ (value' <= 0)
      <4>1. queue' = queue /\ semQ' = semQ
        BY <1>8, <3>2 DEF Signal
      <4> QED BY <1>3, <2>2, <3>0, <4>1 DEF Queued, Dependants
    <3> QED BY <3>1, <3>2
  <2> QED BY <1>1, <1>3, <2>1, <2>3, FewerGoTo DEF Switchers, Suspending
<1>9. CASE ReleaseSignal(v)
  <2>1. GoTo(v, "release") /\ Top(v).at = "unlock" /\ Top(v).fn = "signal" /\ "release" \in Points
    BY <1>9 DEF ReleaseSignal, ReleaseMutex, GoTo, Top, Points
  <2>2. \A A \in Family : Queued(A)' = Queued(A)
    BY <1>4, <2>1 DEF Signal, Top
  <2> QED BY <1>1, <1>3, <2>1, <2>2, FewerGoTo DEF Switchers, Suspending
<1> QED BY <1>5, <1>6, <1>7, <1>8, <1>9

\* A place that no count is about.
LEMMA Nowhere ==
    ASSUME SchedulerAssumption, NEW a, a.idle, a.makes = Nothing, ~ Passes(a), NEW A \in Family
    PROVE  One(a, A) = 0
<1>1. Nothing \notin Procs
  BY DEF SchedulerAssumption
<1> QED BY <1>1 DEF One, Family, Alive, Makers, Passers, Passes, Early, NotGiven

\* A machine goes on, and an entry is put in a queue or taken out of one.
LEMMA FewerNet ==
    ASSUME MakersAssumption, NEW E, Whole(E), NEW v \in VMs, \A u \in VMs \ {v} : stack'[u] = stack[u] /\ reg'[u] = reg[u],
           \A A \in Family : Queued(A)' \in Int /\ One(Here(v)', A) + Queued(A)' <= One(Here(v), A) + Queued(A)
    PROVE  Fewer
<1>1. ASSUME NEW A \in Family PROVE Among(A)' \in Int /\ Among(A)' <= Among(A)
  <2>1. Queued(A)' \in Int /\ One(Here(v)', A) + Queued(A)' <= One(Here(v), A) + Queued(A)
    OBVIOUS
  <2>2. /\ Among(A)' = Among(A) - One(Here(v), A) + One(Here(v)', A) + (Queued(A)' - Queued(A))
        /\ Among(A) \in Nat /\ Queued(A) \in Nat
    BY <2>1, Moves
  <2>3. One(Here(v), A) \in {0, 1} /\ One(Here(v)', A) \in {0, 1}
    BY DEF One
  <2> QED BY <2>1, <2>2, <2>3
<1> QED BY <1>1 DEF Fewer

\* The place of a machine with an ordinary frame on top.
LEMMA HereIs ==
    ASSUME NEW E, Whole(E), reg \in [VMs -> Procs], NEW v \in VMs, stack[v] # <<>>, Top(v).next = Nothing, ~ Skips(Top(v))
    PROVE  /\ Here(v) \in Places /\ Here(v).of = reg[v] /\ Here(v).fn = Top(v).fn /\ Here(v).at = Top(v).at
           /\ Here(v).idle = Suspending(Top(v)) /\ (~ Pending(Top(v)) /\ Top(v).fn # "alarm" => Here(v).makes = Nothing)
<1>1. PICK f \in Held(E) : f = Top(v)
  BY OnMachine
<1>2. PICK r \in Seq(Held(E)) : r = Rest(v)
  BY OnMachine
<1>3. stack[v] = <<f>> \o r /\ reg[v] \in Procs
  BY <1>1, <1>2, OnMachine
<1>4. PICK p \in Procs : p = reg[v]
  BY <1>3
<1>5. PICK b : b = Place(<<f>> \o r, p)
  OBVIOUS
<1>6. /\ b \in Places /\ b.of = p /\ b.fn = f.fn /\ b.at = f.at /\ b.idle = Suspending(f)
      /\ (~ Pending(f) /\ f.fn # "alarm" => b.makes = Nothing)
  BY <1>1, <1>5, PlaceOn
<1>7. Seen(<<f>> \o r) = <<f>> \o r
  BY <1>1, OnTop DEF Seen
<1>8. Here(v) = b
  BY <1>3, <1>4, <1>5, <1>7 DEF Here
<1> QED BY <1>1, <1>4, <1>6, <1>8

\* A frame h on top of r instead.
LEMMA HereBecomes ==
    ASSUME NEW E, Whole(E), reg' = reg, reg \in [VMs -> Procs], NEW v \in VMs, NEW h \in Held(E), NEW r \in Seq(Held(E)),
           Become(v, <<h>> \o r), h.next = Nothing
    PROVE  /\ Here(v)' \in Places /\ Here(v)'.of = reg[v]
           /\ ~ Pending(h) /\ h.fn # "alarm" => Here(v)'.makes = Nothing
           /\ Pending(h) => Here(v)'.makes = h.who
           /\ ~ Skips(h) => Here(v)'.fn = h.fn /\ Here(v)'.at = h.at /\ Here(v)'.idle = Suspending(h)
           /\ \A u \in VMs \ {v} : stack'[u] = stack[u] /\ reg'[u] = reg[u]
<1>1. PICK p \in Procs : p = reg[v]
  OBVIOUS
<1>2. PICK a : a = Place(<<h>> \o r, p)
  OBVIOUS
<1>3. /\ a \in Places /\ a.of = p /\ (~ Pending(h) /\ h.fn # "alarm" => a.makes = Nothing) /\ (Pending(h) => a.makes = h.who)
      /\ ~ Skips(h) => a.fn = h.fn /\ a.at = h.at /\ a.idle = Suspending(h)
  BY <1>2, PlaceOn
<1>4. Seen(<<h>> \o r) = <<h>> \o r
  BY OnTop DEF Seen
<1>5. stack'[v] = <<h>> \o r /\ \A u \in VMs \ {v} : stack'[u] = stack[u]
  BY DEF Become, Whole, Active
<1>6. Here(v)' = a
  BY <1>1, <1>2, <1>4, <1>5 DEF Here
<1> QED BY <1>1, <1>3, <1>5, <1>6

\* Likewise when h says nothing of what the process does.
LEMMA HereSkips ==
    ASSUME NEW E, Whole(E), reg' = reg, reg \in [VMs -> Procs], NEW v \in VMs, NEW h \in Held(E), NEW r \in Seq(Held(E)),
           Become(v, <<h>> \o r), h.next = Nothing, Skips(h)
    PROVE  Here(v)'.fn = Lead(r).fn /\ Here(v)'.at = Lead(r).at /\ (Here(v)'.idle <=> Suspending(Lead(r)))
<1>1. PICK p \in Procs : p = reg[v]
  OBVIOUS
<1>2. PICK a : a = Place(<<h>> \o r, p)
  OBVIOUS
<1>3. a.fn = Lead(r).fn /\ a.at = Lead(r).at /\ (a.idle <=> Suspending(Lead(r)))
  BY <1>2, PlaceOn
<1>4. Seen(<<h>> \o r) = <<h>> \o r
  BY OnTop DEF Seen
<1>5. stack'[v] = <<h>> \o r
  BY DEF Become, Whole, Active
<1>6. Here(v)' = a
  BY <1>1, <1>2, <1>4, <1>5 DEF Here
<1> QED BY <1>3, <1>6

\* The steps of force, but the one that starts the computation.
LEMMA FewerForce ==
    ASSUME SchedulerAssumption, MakersAssumption, EntriesAreSomething, AlarmsAlone, NEW E, Whole(E), reg \in [VMs -> Procs], NEW v \in VMs,
           log \in Logs, Answered,
           Drain(v) \/ TestFlag(v) \/ ForceReturns(v) \/ ReleaseForce(v) \/ (Claim(v) /\ scheduled)
    PROVE  Fewer
<1> USE DEF At, clock, semaphore, future
<1>1. stack[v] # <<>> /\ Top(v).fn = "force"
  BY DEF Drain, TestFlag, ForceReturns, ReleaseForce, Claim, Top
<1>2. /\ Top(v) \in Held(E) /\ Rest(v) \in Seq(Held(E)) /\ Good(Top(v), Peek(Rest(v)), reg[v])
      /\ (~ Ended(Top(v)) => Rest(v) \in Calm(E, reg[v]))
  BY <1>1, OnMachine
<1>3. Top(v).next = Nothing /\ ~ Skips(Top(v)) /\ ~ Pending(Top(v))
  BY <1>1, <1>2 DEF Held, Good, Switchers, Skips, Pending
<1>4. /\ Here(v) \in Places /\ Here(v).of = reg[v] /\ Here(v).fn = "force" /\ Here(v).makes = Nothing
      /\ Here(v).idle = Suspending(Top(v))
  BY <1>1, <1>3, HereIs
<1>5. reg' = reg /\ log'.delivered = log.delivered
  <2>1. reg' = reg
    BY DEF Drain, TestFlag, ForceReturns, ReleaseForce, Claim, ReleaseMutex
  <2>2. log'.delivered = log.delivered
    BY DEF Drain, TestFlag, ForceReturns, ReleaseForce, Claim, ReleaseMutex, Logs
  <2> QED BY <2>1, <2>2
<1>6. ASSUME dependantsQ' = dependantsQ PROVE \A A \in Family : Queued(A)' = Queued(A)
  <2>1. Still
    BY <1>6 DEF Still, Drain, TestFlag, ForceReturns, ReleaseForce, Claim, ReleaseMutex
  <2> QED BY <1>5, <2>1, SameQueues
<1>7. CASE Drain(v)
  <2>1. Top(v).at = "drain" /\ ~ Ended(Top(v)) /\ dependantsQ' = dependantsQ
    BY <1>1, <1>2, <1>7, Ordinary DEF Drain, Top, Switchers
  <2>2. CASE GoTo(v, "acquire")
    <3>1. "acquire" \in Points /\ \A A \in Family : Queued(A)' = Queued(A)
      BY <1>6, <2>1 DEF Points
    <3> QED BY <1>1, <1>3, <1>5, <2>1, <2>2, <3>1, FewerGoTo DEF Switchers, Suspending
  <2>3. CASE Become(v, <<Frame("pause", "disable"), [Top(v) EXCEPT !.n = @ + 1]>> \o Rest(v))
    <3>1. PICK f : f = Frame("pause", "disable")
      OBVIOUS
    <3>2. PICK g : g = [Top(v) EXCEPT !.n = @ + 1]
      OBVIOUS
    <3>3. f \in Held(E) /\ f.fn = "pause" /\ f.next = Nothing
      BY <3>1, Fresh DEF Points, Switchers
    <3>4. g \in Held(E) /\ g.fn = "force" /\ g.at = "drain"
      BY <1>1, <1>2, <2>1, <3>2, Again
    <3>5. PICK q \in Seq(Held(E)) : q = Rest(v)
      BY <1>2
    <3>6. PICK r : r = <<g>> \o q
      OBVIOUS
    <3>7. r \in Seq(Held(E)) /\ Lead(r) = g
      <4>1. ~ Skips(g)
        BY <3>4 DEF Skips
      <4> QED BY <3>4, <3>5, <3>6, <4>1, OnTop, LeadOn
    <3>8. Become(v, <<f>> \o r)
      <4>1. PICK X : X = Held(E)
        OBVIOUS
      <4>2. f \in X /\ g \in X /\ q \in Seq(X)
        BY <3>3, <3>4, <3>5, <4>1
      <4>3. Become(v, <<f, g>> \o q)
        BY <2>3, <3>1, <3>2, <3>5
      <4>4. Become(v, <<f>> \o (<<g>> \o q))
        BY <4>2, <4>3, BecomePair, Zenon
      <4> QED BY <3>6, <4>4, Zenon
    <3>9. Skips(f) /\ ~ Pending(f) /\ f.fn # "alarm" /\ ~ Suspending(g)
      BY <3>3, <3>4 DEF Skips, Pending, Suspending
    <3>10. /\ Here(v)' \in Places /\ Here(v)'.of = reg[v] /\ Here(v)'.makes = Nothing
           /\ Here(v)'.fn = "force" /\ Here(v)'.at = "drain" /\ ~ Here(v)'.idle
           /\ \A u \in VMs \ {v} : stack'[u] = stack[u] /\ reg'[u] = reg[u]
      <4>1. r \in Seq(Held(E)) /\ f \in Held(E) /\ f.next = Nothing /\ Become(v, <<f>> \o r)
        BY <3>3, <3>7, <3>8
      <4>2. Here(v)' \in Places /\ Here(v)'.of = reg[v] /\ Here(v)'.makes = Nothing
        BY <1>5, <3>9, <4>1, HereBecomes
      <4>3. Here(v)'.fn = Lead(r).fn /\ Here(v)'.at = Lead(r).at /\ (Here(v)'.idle <=> Suspending(Lead(r)))
        BY <1>5, <3>9, <4>1, HereSkips
      <4>4. \A u \in VMs \ {v} : stack'[u] = stack[u] /\ reg'[u] = reg[u]
        BY <1>5, <4>1, HereBecomes
      <4> QED BY <3>4, <3>7, <3>9, <4>2, <4>3, <4>4
    <3>11. Calmer(Here(v), Here(v)')
      <4>1. ~ Here(v).idle
        BY <1>4, <2>1 DEF Ended
      <4> QED BY <1>4, <3>10, <4>1 DEF Calmer, Passes, Computed, Given
    <3>12. ASSUME NEW A \in Family
           PROVE  Queued(A)' \in Int /\ One(Here(v)', A) + Queued(A)' <= One(Here(v), A) + Queued(A)
      <4>1. Queued(A)' = Queued(A) /\ Queued(A) \in Nat
        BY <1>6, <2>1, AmongMore DEF MakersAssumption, Whole
      <4>2. One(Here(v)', A) <= One(Here(v), A) /\ One(Here(v), A) \in {0, 1} /\ One(Here(v)', A) \in {0, 1}
        BY <1>4, <3>10, <3>11, CalmerCounts
      <4> QED BY <4>1, <4>2
    <3> QED BY <3>10, <3>12, FewerNet
  <2> QED BY <1>7, <2>2, <2>3 DEF Drain
<1>8. CASE TestFlag(v) /\ flag
  <2>1. Top(v).at = "locked" /\ GoTo(v, "val") /\ "val" \in Points /\ dependantsQ' = dependantsQ
    BY <1>8 DEF TestFlag, Top, Points
  <2>2. \A A \in Family : Queued(A)' = Queued(A)
    BY <1>6, <2>1
  <2> QED BY <1>1, <1>3, <1>5, <2>1, <2>2, FewerGoTo DEF Switchers, Suspending
<1>9. CASE TestFlag(v) /\ ~ flag
  <2>1. Top(v).at = "locked" /\ GoTo(v, "unlock") /\ dependantsQ' = Append(dependantsQ, Suspended(v))
    BY <1>9 DEF TestFlag, Top
  <2>2. queue' = queue /\ semQ' = semQ /\ ~ log.delivered
    BY <1>9 DEF TestFlag, Answered
  <2>3. PICK h : h = [Top(v) EXCEPT !.at = "unlock"]
    OBVIOUS
  <2>4. h \in Held(E) /\ h.fn = "force" /\ h.at = "unlock" /\ h.next = Nothing
    BY <1>1, <1>2, <1>3, <2>3 DEF Held, Points, Switchers
  <2>5. ~ Skips(h) /\ ~ Pending(h) /\ Suspending(h)
    BY <2>4 DEF Skips, Pending, Suspending
  <2>6. PICK r \in Seq(Held(E)) : r = Rest(v)
    BY <1>2
  <2>7. Become(v, <<h>> \o r)
    BY <2>1, <2>3, <2>6 DEF GoTo
  <2>8. /\ Here(v)'.makes = Nothing /\ Here(v)'.fn = "force" /\ Here(v)'.idle
        /\ \A u \in VMs \ {v} : stack'[u] = stack[u] /\ reg'[u] = reg[u]
    BY <1>5, <2>4, <2>5, <2>7, HereBecomes
  <2>9. PICK D : /\ E \subseteq D /\ Stored(D) /\ Suspended(v) \in D
                 /\ Peek(Suspended(v).stack).fn = "force" /\ Peek(Suspended(v).stack).at = "drain"
                 /\ Lead(Suspended(v).stack) = Peek(Suspended(v).stack) /\ Suspended(v).proc = reg[v]
    BY <1>1, <2>1, SuspendedGood
  <2>10. PICK t \in Seq(Held(D)) : t = Suspended(v).stack
    BY <2>9 DEF Stored
  <2>11. PICK c : c = Spot(Suspended(v))
    OBVIOUS
  <2>12. c \in Places /\ c.of = reg[v] /\ c.fn = "force" /\ c.at = "drain" /\ ~ c.idle /\ c.makes = Nothing
    <3>1. c = Place(t, reg[v])
      BY <2>9, <2>10, <2>11 DEF Spot
    <3>2. Runner(t) = Nothing /\ ~ Suspending(Lead(t)) /\ Lead(t).fn = "force" /\ Lead(t).at = "drain"
      BY <2>9, <2>10 DEF Runner, Pending, Suspending
    <3> QED BY <2>10, <3>1, <3>2, PlaceIn
  <2>13. Calmer(Here(v), c)
    <3>1. ~ Here(v).idle
      BY <1>1, <1>4, <2>1 DEF Suspending
    <3> QED BY <1>4, <2>12, <3>1 DEF Calmer, Passes, Computed, Given
  <2>14. ASSUME NEW A \in Family
         PROVE  Queued(A)' \in Int /\ One(Here(v)', A) + Queued(A)' <= One(Here(v), A) + Queued(A)
    <3>1. Queued(A)' = In(queue', A) + In(semQ', A) + (IF log'.delivered THEN 0 ELSE In(dependantsQ', A))
      BY DEF Queued, Dependants, In, Indices, Spot, Place
    <3>2. queue \in Seq(D) /\ semQ \in Seq(D) /\ dependantsQ \in Seq(D)
      BY <2>9, MoreEntries DEF Whole
    <3>3. In(dependantsQ', A) = In(dependantsQ, A) + One(c, A)
      BY <2>1, <2>9, <2>11, <3>2, InAppend
    <3>4. In(queue, A) \in Nat /\ In(semQ, A) \in Nat /\ In(dependantsQ, A) \in Nat
      BY <3>2, InNat
    <3>5. One(c, A) <= One(Here(v), A) /\ One(c, A) \in {0, 1} /\ One(Here(v), A) \in {0, 1}
      BY <1>4, <2>12, <2>13, CalmerCounts
    <3>6. One(Here(v)', A) = 0
      BY <2>8, Nowhere DEF Passes
    <3> QED BY <1>5, <2>2, <3>1, <3>3, <3>4, <3>5, <3>6 DEF Queued, Dependants
  <2> QED BY <2>8, <2>14, FewerNet
<1>10. CASE ForceReturns(v)
  <2>1. Top(v).at = "val" /\ Become(v, Rest(v)) /\ dependantsQ' = dependantsQ
    BY <1>10 DEF ForceReturns, ReleaseMutex, Top
  <2>2. ~ Ended(Top(v))
    BY <1>1, <1>2, <2>1, Ordinary DEF Switchers
  <2>3. \A A \in Family : Queued(A)' = Queued(A)
    BY <1>6, <2>1
  <2> QED BY <1>1, <1>5, <2>1, <2>2, <2>3, FewerPop
<1>11. CASE ReleaseForce(v)
  <2>1. Top(v).at = "unlock" /\ GoTo(v, "claim") /\ "claim" \in Points /\ dependantsQ' = dependantsQ
    BY <1>11 DEF ReleaseForce, ReleaseMutex, GoTo, Top, Points
  <2>2. \A A \in Family : Queued(A)' = Queued(A)
    BY <1>6, <2>1
  <2> QED BY <1>1, <1>3, <1>5, <2>1, <2>2, FewerGoTo DEF Switchers
<1>12. CASE Claim(v) /\ scheduled
  <2>1. Become(v, <<Frame("start", "disable")>> \o Returned(v)) /\ dependantsQ' = dependantsQ
    BY <1>12 DEF Claim, Returned
  <2>2. Returned(v) \in Seq(Held(E))
    <3>1. PICK h : h = [Top(v) EXCEPT !.at = "return"]
      OBVIOUS
    <3>2. h \in Held(E)
      BY <1>1, <1>2, <1>3, <3>1 DEF Held, Points, Switchers
    <3> QED BY <1>2, <3>1, <3>2, OnTop DEF Returned
  <2>3. \A A \in Family : Queued(A)' = Queued(A)
    BY <1>6, <2>1
  <2> QED BY <1>5, <2>1, <2>2, <2>3, FewerIdle
<1> QED BY <1>7, <1>8, <1>9, <1>10, <1>11, <1>12

\* A machine is counted where it is.
LEMMA Counts ==
    ASSUME MakersAssumption, NEW E, Whole(E), NEW v \in VMs, NEW A, Here(v) \in A
    PROVE  Among(A) >= 1 /\ Among(A) \in Nat
<1>1. Hosts(A) \in SUBSET VMs /\ v \in Hosts(A)
  BY DEF Hosts
<1>2. IsFiniteSet(Hosts(A))
  BY <1>1, FS_Subset DEF MakersAssumption
<1>3. Cardinality(Hosts(A)) \in Nat /\ Cardinality(Hosts(A)) # 0
  BY <1>1, <1>2, FS_CardinalityType, FS_EmptySet
<1>4. Among(A) \in Nat /\ Queued(A) \in Nat
  BY AmongMore DEF MakersAssumption, Whole
<1> QED BY <1>3, <1>4 DEF Among

\* The dependants are given away once: what they were to force the future with goes to the scheduler.
LEMMA Delivers ==
    ASSUME SchedulerAssumption, MakersAssumption, NEW E, Whole(E), reg \in [VMs -> Procs], NEW v \in VMs,
           log \in Logs, Phase, AppendDependants(v)
    PROVE  /\ Here(v) \in NotGiven /\ Here(v) \in Alive(Filler) /\ ~ log.delivered /\ log'.delivered
           /\ \A A : Queued(A)' = Queued(A)
<1> USE DEF At
<1>1. stack[v] # <<>> /\ Top(v).fn = "append" /\ Top(v).at = "inside"
  BY DEF AppendDependants, Top
<1>2. Top(v) \in Held(E) /\ Good(Top(v), Peek(Rest(v)), reg[v])
  BY <1>1, OnMachine
<1>3. Top(v).next = Nothing /\ ~ Skips(Top(v)) /\ ~ Pending(Top(v)) /\ reg[v] = Filler
  BY <1>1, <1>2 DEF Held, Good, Switchers, Skips, Pending
<1>4. /\ Here(v) \in Places /\ Here(v).of = Filler /\ Here(v).fn = "append" /\ Here(v).at = "inside"
      /\ Here(v).idle = Suspending(Top(v))
  BY <1>1, <1>3, HereIs
<1>5. Here(v) \in NotGiven /\ Here(v) \in Alive(Filler)
  BY <1>1, <1>4 DEF NotGiven, Alive, Given, Suspending
<1>6. queue' = queue \o dependantsQ /\ semQ' = semQ /\ dependantsQ' = dependantsQ /\ log'.delivered
  BY DEF AppendDependants, Logs, semaphore, future
<1>7. ~ log.delivered
  <2>1. Among(NotGiven) >= 1 /\ Among(NotGiven) \in Nat
    BY <1>5, Counts
  <2> QED BY <2>1 DEF Phase, Past
<1>8. ASSUME NEW A PROVE Queued(A)' = Queued(A)
  <2>1. Queued(A)' = In(queue', A) + In(semQ', A) + (IF log'.delivered THEN 0 ELSE In(dependantsQ', A))
    BY DEF Queued, Dependants, In, Indices, Spot, Place
  <2>2. queue \in Seq(E) /\ semQ \in Seq(E) /\ dependantsQ \in Seq(E)
    BY DEF Whole
  <2>3. In(queue', A) = In(queue, A) + In(dependantsQ, A)
    BY <1>6, <2>2, InBoth
  <2>4. In(queue, A) \in Nat /\ In(semQ, A) \in Nat /\ In(dependantsQ, A) \in Nat
    BY <2>2, InNat
  <2> QED BY <1>6, <1>7, <2>1, <2>3, <2>4 DEF Queued, Dependants
<1> QED BY <1>5, <1>6, <1>7, <1>8

\* The steps of the filler.
LEMMA FewerFill ==
    ASSUME SchedulerAssumption, MakersAssumption, AlarmsAlone, NEW E, Whole(E), reg \in [VMs -> Procs], NEW v \in VMs,
           log \in Logs, Phase,
           ComputeValue(v) \/ SetValue(v) \/ ReleaseValue(v) \/ AppendDependants(v)
    PROVE  Fewer
<1> USE DEF At, clock, semaphore, future
<1>1. stack[v] # <<>> /\ Top(v).fn \in {"fill", "append"}
  BY DEF ComputeValue, SetValue, ReleaseValue, AppendDependants, Top
<1>2. Top(v) \in Held(E) /\ Rest(v) \in Seq(Held(E)) /\ Good(Top(v), Peek(Rest(v)), reg[v])
  BY <1>1, OnMachine
<1>3. Top(v).next = Nothing /\ ~ Skips(Top(v)) /\ ~ Pending(Top(v)) /\ reg[v] = Filler /\ reg' = reg
  <2>1. reg' = reg
    BY DEF ComputeValue, SetValue, ReleaseValue, AppendDependants, ReleaseMutex
  <2> QED BY <1>1, <1>2, <2>1 DEF Held, Good, Switchers, Skips, Pending
<1>4. /\ Here(v) \in Places /\ Here(v).of = reg[v] /\ Here(v).fn = Top(v).fn /\ Here(v).at = Top(v).at
      /\ Here(v).makes = Nothing /\ Here(v).idle = Suspending(Top(v))
  BY <1>1, <1>3, HereIs
<1>5. ASSUME ~ AppendDependants(v) PROVE \A A \in Family : Queued(A)' = Queued(A)
  <2>1. Still
    BY <1>5 DEF Still, ComputeValue, SetValue, ReleaseValue, ReleaseMutex
  <2>2. log'.delivered = log.delivered
    BY <1>5 DEF ComputeValue, SetValue, ReleaseValue, Logs
  <2> QED BY <2>1, <2>2, SameQueues
<1>6. CASE ComputeValue(v)
  <2>1. Top(v).fn = "fill" /\ Top(v).at = "call" /\ GoTo(v, "acquire") /\ "acquire" \in Points
    BY <1>6 DEF ComputeValue, Top, Points
  <2>2. \A A \in Family : Queued(A)' = Queued(A)
    BY <1>5, <2>1 DEF AppendDependants, Top
  <2> QED BY <1>1, <1>3, <2>1, <2>2, FewerGoTo DEF Switchers, Suspending
<1>7. CASE SetValue(v)
  <2>1. Top(v).fn = "fill" /\ Top(v).at = "locked" /\ GoTo(v, "unlock") /\ "unlock" \in Points
    BY <1>7 DEF SetValue, Top, Points
  <2>2. \A A \in Family : Queued(A)' = Queued(A)
    BY <1>5, <2>1 DEF AppendDependants, Top
  <2> QED BY <1>1, <1>3, <2>1, <2>2, FewerGoTo DEF Switchers, Suspending
<1>8. CASE ReleaseValue(v)
  <2>1. Top(v).fn = "fill" /\ Top(v).at = "unlock" /\ Become(v, <<Frame("append", "disable")>> \o Rest(v))
    BY <1>8 DEF ReleaseValue, ReleaseMutex, Top
  <2>2. PICK h : h = Frame("append", "disable")
    OBVIOUS
  <2>3. h \in Held(E) /\ h.fn = "append" /\ h.at = "disable" /\ h.next = Nothing
    BY <2>2, Fresh DEF Points, Switchers
  <2>4. ~ Skips(h) /\ ~ Pending(h) /\ ~ Suspending(h) /\ h.fn # "alarm"
    BY <2>3 DEF Skips, Pending, Suspending
  <2>5. PICK r \in Seq(Held(E)) : r = Rest(v)
    BY <1>2
  <2>6. Become(v, <<h>> \o r)
    BY <2>1, <2>2, <2>5
  <2>7. Here(v)' \in Places /\ Here(v)'.of = reg[v] /\ Here(v)'.makes = Nothing
    BY <1>3, <2>3, <2>4, <2>6, HereBecomes
  <2>8. /\ Here(v)'.fn = "append" /\ Here(v)'.at = "disable" /\ ~ Here(v)'.idle
        /\ \A u \in VMs \ {v} : stack'[u] = stack[u] /\ reg'[u] = reg[u]
    BY <1>3, <2>3, <2>4, <2>6, HereBecomes
  <2>9. Calmer(Here(v), Here(v)')
    <3>1. ~ Here(v).idle
      BY <1>4, <2>1 DEF Suspending
    <3> QED BY <1>4, <2>1, <2>7, <2>8, <3>1 DEF Calmer, Passes, Computed, Given
  <2>10. ASSUME NEW A \in Family
         PROVE  Queued(A)' \in Int /\ One(Here(v)', A) + Queued(A)' <= One(Here(v), A) + Queued(A)
    <3>1. Queued(A)' = Queued(A) /\ Queued(A) \in Nat
      BY <1>5, <2>1, AmongMore DEF MakersAssumption, Whole, AppendDependants, Top
    <3>2. One(Here(v)', A) <= One(Here(v), A) /\ One(Here(v), A) \in {0, 1} /\ One(Here(v)', A) \in {0, 1}
      BY <1>4, <2>7, <2>9, CalmerCounts
    <3> QED BY <3>1, <3>2
  <2> QED BY <2>8, <2>10, FewerNet
<1>9. CASE AppendDependants(v)
  <2>1. Top(v).fn = "append" /\ Top(v).at = "inside" /\ GoTo(v, "release") /\ "release" \in Points
    BY <1>9 DEF AppendDependants, Top, Points
  <2>4. \A A \in Family : Queued(A)' = Queued(A)
    BY <1>9, Delivers
  <2> QED BY <1>1, <1>3, <2>1, <2>4, FewerGoTo DEF Switchers, Suspending
<1> QED BY <1>6, <1>7, <1>8, <1>9

\* Machine v and the queues count together what queue q and the other queues have counted.
Hands(v, q, A) == One(Here(v)', A) + Queued(A)' = In(q, A) + In(semQ, A) + Dependants(A)

\* A machine that takes the first entry of q is counted where that entry was.
LEMMA TakesHead ==
    ASSUME NEW E, Whole(E), NEW D, E \subseteq D, Stored(D), NEW v \in VMs, stack[v] # <<>>,
           Top(v).fn \in Switchers, NEW q \in Seq(D), q # <<>>, SwitchTo(v, q), reg \in [VMs -> Procs], NEW A
    PROVE  /\ \A u \in VMs \ {v} : stack'[u] = stack[u] /\ reg'[u] = reg[u]
           /\ Queued(A)' \in Int
           /\ Hands(v, q, A)
           /\ In(semQ, A) \in Nat /\ Dependants(A) \in Nat
           /\ Here(v)' = Spot(Head(q)) /\ queue' = Tail(q)
<1>1. PICK e \in D : e = Head(q)
  BY Taking
<1>2. Top(v)'.next = e /\ reg'[v] = e.proc /\ stack'[v] # <<>> /\ e # Nothing
  <2>1. Top(v)'.next = Head(q) /\ reg'[v] = Head(q).proc /\ stack'[v] # <<>>
    BY Taking
  <2>2. e # Nothing
    BY DEF Stored
  <2> QED BY <1>1, <2>1, <2>2
<1>3. Here(v)' = Spot(e)
  <2>1. Peek(stack'[v]) = Head(stack'[v]) /\ Top(v)' = Head(stack'[v])
    BY <1>2 DEF Peek, Top
  <2>2. Seen(stack'[v]) = e.stack
    BY <1>2, <2>1 DEF Seen
  <2>3. Here(v)' = Place(Seen(stack'[v]), reg'[v])
    BY DEF Here
  <2> QED BY <1>2, <2>2, <2>3 DEF Spot
<1>4. \A u \in VMs \ {v} : stack'[u] = stack[u] /\ reg'[u] = reg[u]
  BY DEF SwitchTo, Become, Whole, Active
<1>5. queue' = Tail(q) /\ semQ' = semQ /\ dependantsQ' = dependantsQ /\ log' = log
  BY DEF SwitchTo, semaphore, future
<1>6. Queued(A)' = In(Tail(q), A) + In(semQ, A) + Dependants(A)
  BY <1>5 DEF Queued, Dependants, In, Indices, Spot, Place
<1>7. In(q, A) = One(Spot(e), A) + In(Tail(q), A)
  BY <1>1, InTail
<1>8. In(Tail(q), A) \in Nat /\ In(semQ, A) \in Nat /\ Dependants(A) \in Nat
  <2>1. Tail(q) \in Seq(D) /\ semQ \in Seq(D) /\ dependantsQ \in Seq(D)
    BY Split, MoreEntries DEF Whole
  <2> QED BY <2>1, InNat DEF Dependants
<1>9. One(Spot(e), A) \in {0, 1}
  BY DEF One
<1>10. Here(v)' = Spot(Head(q)) /\ queue' = Tail(q)
  BY <1>1, <1>3, <1>5
<1>11. Queued(A)' \in Int /\ One(Here(v)', A) + Queued(A)' = In(q, A) + In(semQ, A) + Dependants(A)
  BY <1>3, <1>6, <1>7, <1>8, <1>9
<1> QED BY <1>4, <1>8, <1>10, <1>11 DEF Hands

\* What pause and the alarm handler queue is calmer than the process was.
LEMMA CalmPause ==
    ASSUME NEW E, NEW p \in Procs, NEW f \in Held(E), NEW r \in Calm(E, p), Good(f, Peek(r), p), ~ Ended(f),
           f.fn \in {"pause", "alarm"}
    PROVE  /\ Calmer(Place(<<f>> \o r, p), Place(r, p)) /\ Place(r, p) \in Places /\ Seen(<<f>> \o r) = <<f>> \o r
           /\ Onward(Place(<<f>> \o r, p), Place(r, p))
<1>1. r \in Seq(Held(E)) /\ r \in Owned(E, p)
  BY DEF Calm, Owned
<1>2. f.next = Nothing /\ Skips(f) /\ ~ Pending(f)
  BY DEF Ended, Skips, Pending
<1>3. PICK b : b = Place(<<f>> \o r, p)
  OBVIOUS
<1>4. /\ b.of = p /\ b.fn = Lead(r).fn /\ b.at = Lead(r).at /\ b.idle = Suspending(Lead(r))
      /\ b.makes = IF f.fn = "alarm" /\ Pending(Peek(r)) THEN Peek(r).who ELSE Nothing
  BY <1>1, <1>2, <1>3, PlaceOn
<1>5. PICK c : c = Place(r, p)
  OBVIOUS
<1>6. /\ c \in Places /\ c.of = p /\ c.fn = Lead(r).fn /\ c.at = Lead(r).at /\ c.idle = Suspending(Lead(r))
      /\ c.makes = Runner(r)
  BY <1>1, <1>5, PlaceIn
<1>7. c.makes = b.makes
  <2>1. CASE f.fn = "pause"
    BY <1>1, <1>4, <1>6, <2>1, Clear
  <2>2. CASE f.fn = "alarm"
    <3>1. Peek(r).fn # "alarm"
      BY DEF Good
    <3> QED BY <1>4, <1>6, <2>2, <3>1 DEF Runner
  <2> QED BY <2>1, <2>2
<1>8. Calmer(b, c) /\ Onward(b, c)
  <2>1. Calmer(b, c)
    BY <1>4, <1>6, <1>7 DEF Calmer, Passes, Computed, Given
  <2>2. Onward(b, c)
    BY <1>4, <1>6, <1>7 DEF Onward, Awake, Claiming, Given
  <2> QED BY <2>1, <2>2
<1>9. Seen(<<f>> \o r) = <<f>> \o r
  BY <1>1, <1>2, OnTop DEF Seen
<1> QED BY <1>3, <1>5, <1>6, <1>8, <1>9

\* The steps that capture or resume a continuation.
LEMMA FewerSwitch ==
    ASSUME SchedulerAssumption, MakersAssumption, EntriesAreSomething, AlarmsAlone, NeverIdle,
           NEW E, Whole(E), reg \in [VMs -> Procs], NEW v \in VMs, Pause(v) \/ Start(v) \/ Go(v)
    PROVE  Fewer
<1> USE DEF At
<1>1. stack[v] # <<>>
  BY DEF Pause, Start, Go
<1>2. /\ Top(v) \in Held(E) /\ Rest(v) \in Seq(Held(E)) /\ Good(Top(v), Peek(Rest(v)), reg[v])
      /\ (~ Ended(Top(v)) => Rest(v) \in Calm(E, reg[v])) /\ stack[v] = <<Top(v)>> \o Rest(v)
      /\ Peek(stack[v]) = Top(v) /\ reg[v] \in Procs
  BY <1>1, OnMachine
<1>3. CASE Pause(v)
  <2>1. Top(v).fn \in Switchers \ {"start"} /\ Top(v).at = "inside"
    BY <1>3 DEF Pause, Top, Switchers
  <2>2. ~ Ended(Top(v)) /\ Top(v).fn \in {"pause", "alarm"}
    BY <1>2, <2>1 DEF Held, Ended, Suspending, Switchers
  <2>3. PICK D : D = E \cup {Throw(reg[v], Rest(v))}
    OBVIOUS
  <2>4. E \subseteq D /\ Stored(D)
    <3>1. Rest(v) \in Calm(E, reg[v]) /\ reg[v] \in Procs /\ Stored(E)
      BY <1>2, <2>2 DEF Whole
    <3> QED BY <2>3, <3>1, Storing DEF Throw
  <2>5. PICK e \in D : e = Throw(reg[v], Rest(v))
    BY <2>3
  <2>6. PICK q : q = Append(queue, e)
    OBVIOUS
  <2>7. q \in Seq(D) /\ q # <<>> /\ queue \in Seq(D)
    <3>1. queue \in Seq(D)
      BY <2>4, MoreEntries DEF Whole
    <3>2. q \in Seq(D) /\ Len(q) = Len(queue) + 1 /\ Len(queue) \in Nat
      BY <2>6, <3>1, AppendProperties, LenProperties
    <3>3. Len(q) # 0
      BY <3>2
    <3> QED BY <3>1, <3>2, <3>3, EmptySeq
  <2>8. SwitchTo(v, q)
    BY <1>3, <2>5, <2>6 DEF Pause
  <2>9. Calmer(Here(v), Spot(e)) /\ Here(v) \in Places /\ Spot(e) \in Places
    <3>1. PICK f \in Held(E) : f = Top(v)
      BY <1>2
    <3>3. PICK p \in Procs : p = reg[v]
      BY <1>2
    <3>2. PICK r \in Calm(E, p) : r = Rest(v)
      BY <1>2, <2>2, <3>3
    <3>9. Good(f, Peek(r), p) /\ ~ Ended(f) /\ f.fn \in {"pause", "alarm"}
      BY <1>2, <2>2, <3>1, <3>2, <3>3
    <3>4. /\ Calmer(Place(<<f>> \o r, p), Place(r, p)) /\ Place(r, p) \in Places /\ Seen(<<f>> \o r) = <<f>> \o r
          /\ Onward(Place(<<f>> \o r, p), Place(r, p))
      <4>1. f \in Held(E) /\ r \in Calm(E, p) /\ p \in Procs
        OBVIOUS
      <4> QED BY <3>9, <4>1, CalmPause
    <3>5. stack[v] = <<f>> \o r
      BY <1>2, <3>1, <3>2
    <3>6. Here(v) = Place(<<f>> \o r, p)
      BY <3>3, <3>4, <3>5 DEF Here
    <3>7. Spot(e) = Place(r, p)
      BY <2>5, <3>2, <3>3 DEF Spot, Throw
    <3>8. Here(v) \in Places
      <4>1. stack[v] \in Seq(Held(E)) /\ Stored(E)
        BY DEF Whole, Active
      <4> QED BY <1>2, <4>1, SeenIn, PlaceIn DEF Here
    <3> QED BY <3>4, <3>6, <3>7, <3>8
  <2>10. \A u \in VMs \ {v} : stack'[u] = stack[u] /\ reg'[u] = reg[u]
    BY <1>1, <2>1, <2>4, <2>7, <2>8, TakesHead
  <2>11. ASSUME NEW A \in Family
         PROVE  Queued(A)' \in Int /\ One(Here(v)', A) + Queued(A)' <= One(Here(v), A) + Queued(A)
    <3>1. /\ Queued(A)' \in Int /\ One(Here(v)', A) + Queued(A)' = In(q, A) + In(semQ, A) + Dependants(A)
          /\ In(semQ, A) \in Nat /\ Dependants(A) \in Nat
      <4>1. Top(v).fn \in Switchers /\ q \in Seq(D) /\ q # <<>> /\ E \subseteq D /\ Stored(D)
        BY <2>1, <2>4, <2>7
      <4>2. Queued(A)' \in Int /\ One(Here(v)', A) + Queued(A)' = In(q, A) + In(semQ, A) + Dependants(A)
        <5>1. Queued(A)' \in Int /\ Hands(v, q, A)
          BY <1>1, <2>8, <4>1, TakesHead
        <5> QED BY <5>1 DEF Hands
      <4>3. In(semQ, A) \in Nat /\ Dependants(A) \in Nat
        BY <1>1, <2>8, <4>1, TakesHead
      <4> QED BY <4>2, <4>3
    <3>2. In(q, A) = In(queue, A) + One(Spot(e), A) /\ In(queue, A) \in Nat
      BY <2>6, <2>7, InAppend, InNat
    <3>3. One(Spot(e), A) <= One(Here(v), A) /\ One(Spot(e), A) \in {0, 1} /\ One(Here(v), A) \in {0, 1}
      BY <2>9, CalmerCounts
    <3> QED BY <3>1, <3>2, <3>3 DEF Queued
  <2> QED BY <2>10, <2>11, FewerNet
<1>4. CASE Start(v)
  <2>1. Top(v).fn \in Switchers /\ queue # <<>> /\ SwitchTo(v, queue)
    BY <1>4 DEF Start, Top, Switchers, NeverIdle
  <2>2. queue \in Seq(E) /\ Stored(E)
    BY DEF Whole
  <2>3. \A u \in VMs \ {v} : stack'[u] = stack[u] /\ reg'[u] = reg[u]
    BY <1>1, <2>1, <2>2, TakesHead
  <2>4. ASSUME NEW A \in Family
        PROVE  Queued(A)' \in Int /\ One(Here(v)', A) + Queued(A)' <= One(Here(v), A) + Queued(A)
    <3>1. /\ Queued(A)' \in Int /\ One(Here(v)', A) + Queued(A)' = In(queue, A) + In(semQ, A) + Dependants(A)
          /\ In(semQ, A) \in Nat /\ Dependants(A) \in Nat
      <4>1. Queued(A)' \in Int /\ Hands(v, queue, A) /\ In(semQ, A) \in Nat /\ Dependants(A) \in Nat
        BY <1>1, <2>1, <2>2, TakesHead
      <4> QED BY <4>1 DEF Hands
    <3>2. In(queue, A) \in Nat /\ One(Here(v), A) \in {0, 1}
      BY <2>2, InNat DEF One
    <3> QED BY <3>1, <3>2 DEF Queued
  <2> QED BY <2>3, <2>4, FewerNet
<1>5. CASE Go(v)
  <2>1. Top(v).next # Nothing
    BY <1>2, <1>5 DEF Go, Top, Held
  <2>2. PICK n : n = Top(v).next
    OBVIOUS
  <2>3. n \in E /\ n.proc = reg[v] /\ Stored(E)
    BY <1>2, <2>1, <2>2 DEF Held, Good, Whole
  <2>4. n.stack \in Calm(E, reg[v]) /\ (~ n.throw => HasEnd(n.stack)) /\ Seen(stack[v]) = n.stack
    BY <1>2, <2>1, <2>2, <2>3 DEF Stored, Seen
  <2>5. PICK s : s = IF n.throw THEN n.stack ELSE n.stack \o Rest(v)
    OBVIOUS
  <2>6. s \in Calm(E, reg[v]) /\ Place(s, reg[v]) = Place(n.stack, reg[v])
    BY <1>2, <2>4, <2>5, Covers DEF Place
  <2>7. Become(v, s) /\ Still /\ log' = log /\ reg' = reg
    BY <1>5, <2>1, <2>2, <2>5 DEF Go, Still, clock, semaphore, future
  <2>8. s \in Seq(Held(E)) /\ Calmer(Place(s, reg[v]), Place(Seen(s), reg[v]))
    BY <1>2, <2>3, <2>6, Uncovered
  <2>9. Calmer(Place(Seen(stack[v]), reg[v]), Place(Seen(s), reg[v]))
    BY <2>4, <2>6, <2>8
  <2>10. \A A \in Family : Queued(A)' = Queued(A)
    BY <2>7, SameQueues
  <2> QED BY <2>7, <2>8, <2>9, <2>10, Quietly
<1> QED BY <1>3, <1>4, <1>5

\* A step that moves no machine and touches no queue.
LEMMA Unmoved ==
    ASSUME MakersAssumption, NEW E, Whole(E), UNCHANGED <<stack, reg, queue, semQ, dependantsQ>>, log'.delivered = log.delivered
    PROVE  Fewer
<1>1. ASSUME NEW A \in Family PROVE Among(A)' = Among(A) /\ Among(A) \in Nat
  <2>1. Hosts(A)' = Hosts(A) /\ Queued(A)' = Queued(A)
    BY DEF Hosts, Here, Queued, Dependants, In, Indices, Spot, Place
  <2>2. Among(A) \in Nat
    BY AmongMore DEF MakersAssumption, Whole
  <2> QED BY <2>1, <2>2 DEF Among
<1> QED BY <1>1 DEF Fewer

\* A process is interrupted, takes a mutex, or its thousand instructions end.
LEMMA FewerAlarm ==
    ASSUME SchedulerAssumption, MakersAssumption, AlarmsAlone, NEW E, Whole(E), reg \in [VMs -> Procs], NEW v \in VMs,
           Alarm(v) \/ AcquireMutex(v) \/ Tick(v)
    PROVE  Fewer
<1> USE DEF At, clock, semaphore, future
<1>1. stack[v] # <<>>
  BY DEF Alarm, AcquireMutex, Tick
<1>2. Top(v) \in Held(E) /\ Peek(stack[v]) = Top(v) /\ reg[v] \in Procs /\ Stored(E) /\ stack[v] \in Seq(Held(E))
  BY <1>1, OnMachine DEF Whole, Active
<1>3. CASE Alarm(v)
  <2>1. Settled(Top(v))
    BY <1>2, <1>3 DEF Alarm, Whole, Struck
  <2>2. stack[v] \in Calm(E, reg[v])
    BY <1>1, <2>1, OnMachine
  <2>3. PICK f : f = Frame("alarm", "disable")
    OBVIOUS
  <2>4. f \in Held(E) /\ f.fn = "alarm" /\ f.next = Nothing /\ Skips(f) /\ ~ Pending(f)
    BY <2>3, Fresh DEF Points, Switchers, Skips, Pending
  <2>5. PICK p \in Procs : p = reg[v]
    BY <1>2
  <2>6. PICK r \in Seq(Held(E)) : r = stack[v]
    BY <1>2
  <2>7. PICK a : a = Place(<<f>> \o r, p)
    OBVIOUS
  <2>8. /\ a.of = p /\ a.fn = Lead(r).fn /\ a.at = Lead(r).at /\ a.idle = Suspending(Lead(r))
        /\ a.makes = IF Pending(Peek(r)) THEN Peek(r).who ELSE Nothing
    BY <2>4, <2>7, PlaceOn
  <2>9. PICK c : c = Place(r, p)
    OBVIOUS
  <2>10. /\ c.of = p /\ c.fn = Lead(r).fn /\ c.at = Lead(r).at /\ c.idle = Suspending(Lead(r))
         /\ c.makes = Runner(r)
    BY <2>9, PlaceIn
  <2>11. c.makes = a.makes
    <3>1. Peek(r).fn # "alarm"
      BY <1>2, <1>3, <2>6 DEF Alarm
    <3> QED BY <2>8, <2>10, <3>1 DEF Runner
  <2>12. Calmer(c, a)
    BY <2>8, <2>10, <2>11 DEF Calmer, Passes, Computed, Given
  <2>13. Calmer(Place(Seen(r), p), c)
    BY <1>2, <2>2, <2>5, <2>6, <2>9, Uncovered
  <2>14. Calmer(Place(Seen(r), p), a)
    BY <2>12, <2>13 DEF Calmer
  <2>15. PICK s : s = <<f>> \o r
    OBVIOUS
  <2>16. s \in Seq(Held(E)) /\ Seen(s) = s
    BY <2>4, <2>15, OnTop DEF Seen
  <2>17. Become(v, s) /\ Still /\ log' = log /\ reg' = reg
    BY <1>3, <2>3, <2>6, <2>15 DEF Alarm, Still
  <2>18. a = Place(Seen(s), p)
    BY <2>7, <2>15, <2>16
  <2>19. Calmer(Place(Seen(stack[v]), reg[v]), Place(Seen(s), reg[v]))
    BY <2>5, <2>6, <2>14, <2>18
  <2>20. \A A \in Family : Queued(A)' = Queued(A)
    BY <2>17, SameQueues
  <2> QED BY <2>16, <2>17, <2>19, <2>20, Quietly
<1>4. CASE AcquireMutex(v)
  <2>1. /\ (Top(v).fn \in {"wait", "force", "fill"} /\ Top(v).at = "acquire") \/ (Top(v).fn = "signal" /\ Top(v).at = "inside")
        /\ GoTo(v, "locked") /\ "locked" \in Points
    BY <1>4 DEF AcquireMutex, Top, Points
  <2>2. Top(v).next = Nothing
    BY <1>2, <2>1 DEF Held, Switchers
  <2>3. Still /\ log' = log /\ reg' = reg
    BY <1>4 DEF AcquireMutex, Still
  <2>4. \A A \in Family : Queued(A)' = Queued(A)
    BY <2>3, SameQueues
  <2> QED BY <1>1, <2>1, <2>2, <2>3, <2>4, FewerGoTo DEF Switchers, Suspending
<1>5. CASE Tick(v)
  BY <1>5, Unmoved DEF Tick
<1> QED BY <1>3, <1>4, <1>5

\* The program calls an operation other than process-run-fn, pauses or ends.
LEMMA FewerProgram ==
    ASSUME SchedulerAssumption, MakersAssumption, AlarmsAlone, NEW E, Whole(E), reg \in [VMs -> Procs], NEW v \in VMs,
           Finish(v) \/ (Perform(v) /\ \E op \in {"wait", "signal", "force"} : Become(v, <<CallFrame(op)>> \o stack[v]))
    PROVE  Fewer
<1> USE DEF At, clock, semaphore, future, program
<1>1. stack[v] # <<>> /\ Top(v).fn \in {"body", "fill"} /\ Top(v).at = "call"
  BY DEF Perform, Finish, Top
<1>2. /\ Top(v) \in Held(E) /\ Rest(v) \in Seq(Held(E)) /\ stack[v] = <<Top(v)>> \o Rest(v) /\ reg[v] \in Procs
      /\ Stored(E) /\ stack[v] \in Seq(Held(E))
  BY <1>1, OnMachine DEF Whole, Active
<1>3. Still /\ log' = log /\ reg' = reg
  BY DEF Perform, Finish, Still
<1>4. \A A \in Family : Queued(A)' = Queued(A)
  BY <1>3, SameQueues
<1>5. ASSUME NEW g \in Held(E), g.next = Nothing, g.fn \in {"pause", "wait", "signal", "force"}, g.at \in {"disable", "acquire", "drain"},
             Become(v, <<g>> \o stack[v])
      PROVE  Fewer
  <2>1. PICK f \in Held(E) : f = Top(v)
    BY <1>2
  <2>2. PICK r \in Seq(Held(E)) : r = Rest(v)
    BY <1>2
  <2>3. PICK p \in Procs : p = reg[v]
    BY <1>2
  <2>4. f.fn \in {"body", "fill"} /\ f.at = "call"
    BY <1>1, <2>1
  <2>5. Calmer(Place(Seen(<<f>> \o r), p), Place(Seen(<<g>> \o (<<f>> \o r)), p))
    BY <1>2, <1>5, <2>1, <2>2, <2>3, <2>4, CalmPush
  <2>6. PICK t : t = <<f>> \o r
    OBVIOUS
  <2>7. PICK s : s = <<g>> \o t
    OBVIOUS
  <2>8. t = stack[v]
    BY <1>2, <2>1, <2>2, <2>6
  <2>9. s \in Seq(Held(E))
    BY <1>2, <1>5, <2>7, <2>8, OnTop
  <2>10. Become(v, s)
    BY <1>5, <2>7, <2>8
  <2>11. Calmer(Place(Seen(t), p), Place(Seen(s), p))
    BY <2>5, <2>6, <2>7, Zenon
  <2>12. Calmer(Place(Seen(stack[v]), reg[v]), Place(Seen(s), reg[v]))
    BY <2>3, <2>8, <2>11
  <2> QED BY <1>3, <1>4, <2>9, <2>10, <2>12, Quietly
<1>6. CASE Finish(v)
  <2>1. CASE Become(v, Rest(v))
    <3>1. Top(v).fn = "body"
      BY <1>6 DEF Finish, Top
    <3>2. ~ Ended(Top(v))
      BY <1>1, <1>2, Ordinary DEF Switchers
    <3> QED BY <1>1, <1>3, <1>4, <2>1, <3>1, <3>2, FewerPop
  <2>2. CASE Become(v, <<Frame("pause", "disable")>> \o stack[v])
    <3>1. PICK g : g = Frame("pause", "disable")
      OBVIOUS
    <3>2. g \in Held(E) /\ g.next = Nothing /\ g.fn = "pause" /\ g.at = "disable"
      BY <3>1, Fresh DEF Points, Switchers
    <3>3. Become(v, <<g>> \o stack[v])
      BY <2>2, <3>1
    <3> QED BY <1>5, <3>2, <3>3
  <2> QED BY <1>6, <2>1, <2>2 DEF Finish
<1>7. ASSUME NEW op \in {"wait", "signal", "force"}, Become(v, <<CallFrame(op)>> \o stack[v]) PROVE Fewer
  <2>1. PICK g : g = CallFrame(op)
    OBVIOUS
  <2>2. g \in Held(E) /\ g.next = Nothing /\ g.fn \in {"wait", "signal", "force"} /\ g.at \in {"disable", "acquire", "drain"}
    <3>1. CASE op = "wait"
      BY <2>1, <3>1, Fresh DEF CallFrame, Points, Switchers
    <3>2. CASE op = "signal"
      BY <2>1, <3>2, Fresh DEF CallFrame, Points, Switchers
    <3>3. CASE op = "force"
      BY <2>1, <3>3, Fresh DEF CallFrame, Points, Switchers
    <3> QED BY <3>1, <3>2, <3>3
  <2>3. Become(v, <<g>> \o stack[v])
    BY <1>7, <2>1
  <2> QED BY <1>5, <2>2, <2>3
<1> QED BY <1>6, <1>7

----------------------------------------------------------------------------
(* What the counts say.                                                    *)

\* The counts that are about processes.
Kinds == {Alive(q) : q \in Procs} \cup {Makers(q) : q \in Procs} \cup {Early, NotGiven}
FewerKinds == \A A \in Kinds : Among(A)' \in Int /\ Among(A)' <= Among(A)

Tallied == Once /\ Phase /\ Passing

LEMMA OnceKept ==
    ASSUME MakersAssumption, NEW E, Whole(E), FewerKinds, Once, scheduled => scheduled', unborn' \subseteq unborn
    PROVE  Once'
<1>1. ASSUME NEW q \in Procs PROVE Sum(q)' <= 1
  <2>1. Among(Alive(q))' \in Int /\ Among(Alive(q))' <= Among(Alive(q)) /\ Among(Alive(q)) \in Nat
    <3>1. Alive(q) \in Kinds
      BY DEF Kinds
    <3> QED BY <3>1, AmongMore DEF FewerKinds, MakersAssumption, Whole
  <2>2. Among(Makers(q))' \in Int /\ Among(Makers(q))' <= Among(Makers(q)) /\ Among(Makers(q)) \in Nat
    <3>1. Makers(q) \in Kinds
      BY DEF Kinds
    <3> QED BY <3>1, AmongMore DEF FewerKinds, MakersAssumption, Whole
  <2>3. Promised(q)' \in {0, 1} /\ Promised(q) \in {0, 1} /\ Promised(q)' <= Promised(q)
    <3>1. Unmade(q)' => Unmade(q)
      BY DEF Unmade
    <3> QED BY <3>1 DEF Promised
  <2>4. Sum(q) <= 1
    BY DEF Once
  <2> QED BY <2>1, <2>2, <2>3, <2>4 DEF Sum
<1> QED BY <1>1 DEF Once

LEMMA PhaseKept ==
    ASSUME SchedulerAssumption, MakersAssumption, NEW E, Whole(E), FewerKinds, Phase, scheduled => scheduled',
           log'.filled = log.filled, log'.delivered = log.delivered
    PROVE  Phase'
<1>1. ASSUME NEW A \in Kinds, Past(A) PROVE Past(A)'
  <2>1. Makers(Filler) \in Kinds
    BY DEF Kinds, SchedulerAssumption
  <2>2. Among(Makers(Filler))' \in Int /\ Among(Makers(Filler))' <= Among(Makers(Filler)) /\ Among(Makers(Filler)) \in Nat
    BY <2>1, AmongMore DEF FewerKinds, MakersAssumption, Whole
  <2>3. Among(A)' \in Int /\ Among(A)' <= Among(A) /\ Among(A) \in Nat
    BY AmongMore DEF FewerKinds, MakersAssumption, Whole
  <2> QED BY <1>1, <2>2, <2>3 DEF Past
<1>2. Early \in Kinds /\ NotGiven \in Kinds
  BY DEF Kinds
<1> QED BY <1>1, <1>2 DEF Phase

LEMMA PassingKept ==
    ASSUME NEW E, Whole(E), Waits \in Int, Waits' \in Int, Waits' >= Waits, Passing,
           \/ semQ' = semQ
           \/ semQ # <<>> /\ semQ' = Tail(semQ)
           \/ \E e : Spot(e) \in Passers /\ semQ' = Append(semQ, e)
    PROVE  Passing'
<1>1. Waits' >= 0
  BY DEF Passing
<1>2. semQ \in Seq(E) /\ \A i \in 1 .. Len(semQ) : Spot(semQ[i]) \in Passers
  BY DEF Whole, Passing
<1>3. \A i \in 1 .. Len(semQ') : Spot(semQ'[i]) \in Passers
  <2>1. CASE semQ' = semQ
    BY <1>2, <2>1
  <2>2. CASE semQ # <<>> /\ semQ' = Tail(semQ)
    <3>1. Len(semQ') = Len(semQ) - 1 /\ Len(semQ) \in Nat /\ \A i \in 1 .. Len(semQ') : semQ'[i] = semQ[i + 1]
      BY <1>2, <2>2, HeadTailProperties, LenProperties
    <3>2. \A i \in 1 .. Len(semQ') : i + 1 \in 1 .. Len(semQ)
      BY <3>1
    <3> QED BY <1>2, <3>1, <3>2
  <2>3. CASE \E e : Spot(e) \in Passers /\ semQ' = Append(semQ, e)
    <3>1. PICK e : Spot(e) \in Passers /\ semQ' = Append(semQ, e)
      BY <2>3
    <3>2. PICK D : D = E \cup {e}
      OBVIOUS
    <3>3. semQ \in Seq(D) /\ e \in D
      BY <1>2, <3>2, MoreEntries
    <3>4. /\ Len(semQ') = Len(semQ) + 1 /\ Len(semQ) \in Nat
          /\ \A i \in 1 .. Len(semQ) : semQ'[i] = semQ[i]
          /\ semQ'[Len(semQ) + 1] = e
      BY <3>1, <3>3, AppendProperties, LenProperties
    <3>5. ASSUME NEW i \in 1 .. Len(semQ') PROVE Spot(semQ'[i]) \in Passers
      <4>1. i \in 1 .. Len(semQ) \/ i = Len(semQ) + 1
        BY <3>4
      <4> QED BY <1>2, <3>1, <3>4, <4>1
    <3> QED BY <3>5
  <2> QED BY <2>1, <2>2, <2>3
<1> QED BY <1>1, <1>3 DEF Passing

\* A step that adds nothing to any count.
LEMMA QuietKept ==
    ASSUME SchedulerAssumption, MakersAssumption, NEW E, Whole(E), value \in Int, value' \in Int, log \in Logs, log' \in Logs,
           Fewer, Tallied, semQ' = semQ \/ (semQ # <<>> /\ semQ' = Tail(semQ)), scheduled => scheduled', unborn' \subseteq unborn,
           log'.filled = log.filled, log'.delivered = log.delivered, log'.passed = log.passed,
           log'.signals - value' = log.signals - value
    PROVE  Tallied'
<1>1. FewerKinds /\ Among(Passers)' \in Int /\ Among(Passers)' <= Among(Passers)
  BY DEF Fewer, FewerKinds, Kinds, Family
<1>2. Once' /\ Phase'
  BY <1>1, OnceKept, PhaseKept DEF Tallied
<1>3. Passing'
  <2>1. Waits \in Int /\ Waits' \in Int /\ Waits' >= Waits
    <3>1. PICK n \in Int : n = Among(Passers)
      BY AmongMore DEF MakersAssumption, Whole
    <3>2. PICK m \in Int : m = Among(Passers)' /\ m <= n
      BY <1>1, <3>1
    <3>3. PICK s \in Int, u \in Int, p \in Int, w \in Int, y \in Int :
             s = log.signals /\ u = log'.signals /\ p = log.passed /\ w = value /\ y = value'
      BY DEF Logs
    <3>4. Waits = (s - w) - (p + n) /\ Waits' = (u - y) - (p + m)
      BY <3>1, <3>2, <3>3 DEF Waits
    <3>5. u - y = s - w
      BY <3>3
    <3>6. PICK a \in Int : a = s - w
      OBVIOUS
    <3>7. PICK b \in Int, c \in Int : b = p + n /\ c = p + m
      OBVIOUS
    <3>8. u - y = a
      BY <3>5, <3>6
    <3>9. c <= b
      BY <3>2, <3>7
    <3>10. Waits = a - b /\ Waits' = a - c
      BY <3>4, <3>6, <3>7, <3>8
    <3> QED BY <3>9, <3>10
  <2> QED BY <2>1, PassingKept DEF Tallied
<1> QED BY <1>2, <1>3 DEF Tallied

\* A wait passes: it is one of those that have passed, and no longer of those that are to pass.
LEMMA PassingCounts ==
    ASSUME SchedulerAssumption, MakersAssumption, AlarmsAlone, NEW E, Whole(E), reg \in [VMs -> Procs], NEW v \in VMs,
           Balanced, value \in Int, log \in Logs, WaitReturns(v), Tallied
    PROVE  Tallied'
<1> USE DEF At, clock, semaphore, future, program
<1>1. stack[v] # <<>> /\ Top(v).fn = "wait" /\ Top(v).at = "return" /\ Become(v, Rest(v))
  BY DEF WaitReturns, Top
<1>2. /\ Top(v) \in Held(E) /\ Rest(v) \in Seq(Held(E)) /\ Good(Top(v), Peek(Rest(v)), reg[v]) /\ reg[v] \in Procs /\ Stored(E)
  BY <1>1, OnMachine DEF Whole
<1>3. Top(v).next = Nothing /\ ~ Skips(Top(v)) /\ ~ Ended(Top(v))
  BY <1>1, <1>2, Ordinary DEF Held, Switchers, Skips
<1>4. /\ reg' = reg /\ queue' = queue /\ value' = value /\ semQ' = semQ /\ dependantsQ' = dependantsQ
      /\ scheduled' = scheduled /\ unborn' = unborn /\ log'.delivered = log.delivered /\ log'.filled = log.filled
      /\ log'.signals = log.signals /\ log'.passed = log.passed + 1
  BY DEF WaitReturns, Logs
<1>5. Fewer
  BY FewerSemaphore
<1>6. FewerKinds
  BY <1>5 DEF Fewer, FewerKinds, Kinds, Family
<1>7. Once' /\ Phase'
  BY <1>4, <1>6, OnceKept, PhaseKept DEF Tallied
<1>8. One(Here(v), Passers) = 1
  <2>1. Here(v) \in Places /\ Here(v).fn = "wait" /\ Here(v).at = "return"
    BY <1>1, <1>3, HereIs
  <2> QED BY <2>1 DEF One, Passers
<1>9. One(Here(v)', Passers) = 0
  <2>1. PICK f \in Held(E) : f = Top(v)
    BY <1>2
  <2>2. PICK p \in Procs : p = reg[v]
    BY <1>2
  <2>3. PICK r \in Calm(E, p) : r = Rest(v)
    BY <1>1, <1>3, <2>2, OnMachine
  <2>4. r \in Seq(Held(E)) /\ r \in Owned(E, p)
    BY DEF Calm, Owned
  <2>5. Lead(r).fn # "wait"
    BY <1>1, <1>2, <1>3, <2>1, <2>2, <2>3, <2>4, Clear
  <2>6. ~ Passes(Place(r, p))
    BY <2>4, <2>5, PlaceIn DEF Passes
  <2>7. Calmer(Place(r, p), Place(Seen(r), p))
    BY <1>2, Uncovered
  <2>8. ~ Passes(Place(Seen(r), p))
    BY <2>6, <2>7 DEF Calmer
  <2>9. Here(v)' = Place(Seen(r), p)
    <3>1. stack'[v] = r
      BY <1>1, <2>3 DEF Become, Whole, Active
    <3> QED BY <1>4, <2>2, <3>1 DEF Here
  <2> QED BY <2>8, <2>9 DEF One, Passers, Passes
<1>10. Queued(Passers)' = Queued(Passers) /\ Queued(Passers) \in Nat
  <2>1. Still
    BY <1>4 DEF Still
  <2> QED BY <1>4, <2>1, SameQueues, AmongMore DEF Family, MakersAssumption, Whole
<1>11. Among(Passers)' = Among(Passers) - 1 /\ Among(Passers) \in Nat
  <2>1. \A u \in VMs \ {v} : stack'[u] = stack[u] /\ reg'[u] = reg[u]
    BY <1>1, <1>4 DEF Become, Whole, Active
  <2>2. /\ Among(Passers)' = Among(Passers) - One(Here(v), Passers) + One(Here(v)', Passers) + (Queued(Passers)' - Queued(Passers))
        /\ Among(Passers) \in Nat
    BY <1>10, <2>1, Moves
  <2> QED BY <1>8, <1>9, <1>10, <2>2
<1>12. Waits \in Int /\ Waits' \in Int /\ Waits' >= Waits
  <2>1. PICK n \in Int : n = Among(Passers)
    BY <1>11
  <2>2. PICK s \in Int, p \in Int, w \in Int : s = log.signals /\ p = log.passed /\ w = value
    BY DEF Logs
  <2>3. Waits = (s - w) - (p + n) /\ Waits' = (s - w) - ((p + 1) + (n - 1))
    BY <1>4, <1>11, <2>1, <2>2 DEF Waits
  <2> QED BY <2>3
<1> QED BY <1>4, <1>7, <1>12, PassingKept DEF Tallied

\* The body of the future is computed: nobody is before that any more, nor ever will be.
LEMMA FillingCounts ==
    ASSUME SchedulerAssumption, MakersAssumption, AlarmsAlone, NEW E, Whole(E), reg \in [VMs -> Procs], NEW v \in VMs,
           value \in Int, log \in Logs, scheduled \in BOOLEAN, ComputeValue(v), Tallied
    PROVE  Tallied'
<1> USE DEF At, clock, semaphore, future, program
<1>1. stack[v] # <<>> /\ Top(v).fn = "fill" /\ Top(v).at = "call" /\ GoTo(v, "acquire")
  BY DEF ComputeValue, Top
<1>2. /\ Top(v) \in Held(E) /\ Rest(v) \in Seq(Held(E)) /\ Good(Top(v), Peek(Rest(v)), reg[v])
  BY <1>1, OnMachine
<1>3. Top(v).next = Nothing /\ ~ Skips(Top(v)) /\ ~ Pending(Top(v)) /\ reg[v] = Filler
  BY <1>1, <1>2 DEF Held, Good, Switchers, Skips, Pending
<1>4. /\ reg' = reg /\ queue' = queue /\ value' = value /\ semQ' = semQ /\ dependantsQ' = dependantsQ
      /\ scheduled' = scheduled /\ unborn' = unborn /\ log'.delivered = log.delivered /\ log'.filled = log.filled + 1
      /\ log'.signals = log.signals /\ log'.passed = log.passed
  BY DEF ComputeValue, Logs
<1>5. Fewer
  BY FewerFill DEF Tallied
<1>6. FewerKinds /\ Among(Passers)' \in Int /\ Among(Passers)' <= Among(Passers)
  BY <1>5 DEF Fewer, FewerKinds, Kinds, Family
<1>7. Once'
  BY <1>4, <1>6, OnceKept DEF Tallied
<1>8. /\ Here(v) \in Places /\ Here(v).of = Filler /\ Here(v).fn = "fill" /\ Here(v).at = "call" /\ Here(v).makes = Nothing
      /\ ~ Here(v).idle
  <2>1. ~ Suspending(Top(v))
    BY <1>1 DEF Suspending
  <2> QED BY <1>1, <1>3, <2>1, HereIs
<1>9. Here(v) \in Early /\ Here(v) \in NotGiven /\ Here(v) \in Alive(Filler)
  BY <1>8 DEF Early, NotGiven, Alive, Computed, Given
<1>10. Among(Early) >= 1 /\ Among(NotGiven) >= 1 /\ Among(Early) \in Nat /\ Among(NotGiven) \in Nat
  BY <1>9, Counts
<1>11. ~ log.delivered /\ log.filled = 0
  BY <1>10 DEF Tallied, Phase, Past
<1>12. /\ Among(Alive(Filler)) = 1 /\ Among(Makers(Filler)) = 0 /\ scheduled /\ Among(Early) <= 1
  <2>1. Among(Alive(Filler)) >= 1 /\ Among(Alive(Filler)) \in Nat /\ Among(Makers(Filler)) \in Nat
    BY <1>9, Counts, AmongMore DEF MakersAssumption, Whole
  <2>2. Promised(Filler) \in {0, 1}
    BY DEF Promised
  <2>3. Among(Alive(Filler)) + Among(Makers(Filler)) + Promised(Filler) <= 1
    BY DEF Tallied, Once, Sum, SchedulerAssumption
  <2>4. Promised(Filler) = 0 /\ Among(Makers(Filler)) = 0 /\ Among(Alive(Filler)) = 1
    BY <2>1, <2>2, <2>3
  <2>5. scheduled
    BY <2>4 DEF Promised, Unmade
  <2>6. Early \subseteq Alive(Filler)
    BY DEF Early
  <2>7. Among(Early) <= Among(Alive(Filler))
    BY <2>6, AmongMore DEF MakersAssumption, Whole
  <2> QED BY <2>4, <2>5, <2>7
<1>13. Among(Early)' = Among(Early) - 1
  <2>1. PICK h : h = [Top(v) EXCEPT !.at = "acquire"]
    OBVIOUS
  <2>2. h \in Held(E) /\ h.fn = "fill" /\ h.at = "acquire" /\ h.next = Nothing
    BY <1>1, <1>2, <1>3, <2>1 DEF Held, Points, Switchers
  <2>3. ~ Skips(h)
    BY <2>2 DEF Skips
  <2>4. PICK r \in Seq(Held(E)) : r = Rest(v)
    BY <1>2
  <2>5. Become(v, <<h>> \o r)
    BY <1>1, <2>1, <2>4 DEF GoTo
  <2>6. Here(v)'.fn = "fill" /\ Here(v)'.at = "acquire" /\ \A u \in VMs \ {v} : stack'[u] = stack[u] /\ reg'[u] = reg[u]
    <3>0. Whole(E) /\ reg' = reg /\ reg \in [VMs -> Procs] /\ h \in Held(E) /\ Become(v, <<h>> \o r) /\ h.next = Nothing
      BY <1>4, <2>2, <2>5
    <3>1. /\ Here(v)' \in Places /\ Here(v)'.of = reg[v]
          /\ ~ Pending(h) /\ h.fn # "alarm" => Here(v)'.makes = Nothing
          /\ Pending(h) => Here(v)'.makes = h.who
          /\ ~ Skips(h) => Here(v)'.fn = h.fn /\ Here(v)'.at = h.at /\ Here(v)'.idle = Suspending(h)
          /\ \A u \in VMs \ {v} : stack'[u] = stack[u] /\ reg'[u] = reg[u]
      BY <3>0, HereBecomes
    <3>2. \A u \in VMs \ {v} : stack'[u] = stack[u] /\ reg'[u] = reg[u]
      BY <1>4, <2>5 DEF Become, Whole, Active
    <3> QED BY <2>2, <2>3, <3>1, <3>2
  <2>7. One(Here(v)', Early) = 0 /\ One(Here(v), Early) = 1
    BY <1>9, <2>6 DEF One, Early, Computed
  <2>8. Queued(Early)' = Queued(Early) /\ Queued(Early) \in Nat
    <3>1. Still
      BY <1>4 DEF Still
    <3> QED BY <1>4, <3>1, SameQueues, AmongMore DEF Family, MakersAssumption, Whole
  <2>9. Queued(Early)' \in Int
    BY <2>8
  <2>10. Among(Early)' = Among(Early) - One(Here(v), Early) + One(Here(v)', Early) + (Queued(Early)' - Queued(Early))
    BY <2>6, <2>9, Moves
  <2> QED BY <1>10, <2>7, <2>8, <2>10
<1>14. Phase'
  <2>1. Among(Makers(Filler))' \in Int /\ Among(Makers(Filler))' <= 0
    <3>1. Makers(Filler) \in Kinds
      BY DEF Kinds, SchedulerAssumption
    <3> QED BY <1>6, <1>12, <3>1 DEF FewerKinds
  <2>2. Past(Early)'
    BY <1>4, <1>10, <1>12, <1>13, <2>1 DEF Past
  <2> QED BY <1>4, <1>11, <2>2 DEF Phase
<1>15. Waits \in Int /\ Waits' \in Int /\ Waits' >= Waits
  <2>1. PICK n \in Int : n = Among(Passers)
    BY AmongMore DEF MakersAssumption, Whole
  <2>2. PICK m \in Int : m = Among(Passers)' /\ m <= n
    BY <1>6, <2>1
  <2>3. PICK s \in Int, p \in Int, w \in Int : s = log.signals /\ p = log.passed /\ w = value
    BY DEF Logs
  <2>4. Waits = (s - w) - (p + n) /\ Waits' = (s - w) - (p + m)
    BY <1>4, <2>1, <2>2, <2>3 DEF Waits
  <2> QED BY <2>2, <2>4
<1> QED BY <1>4, <1>7, <1>14, <1>15, PassingKept DEF Tallied

\* The dependants are given away: nobody is before that any more, nor ever will be.
LEMMA GivingCounts ==
    ASSUME SchedulerAssumption, MakersAssumption, AlarmsAlone, NEW E, Whole(E), reg \in [VMs -> Procs], NEW v \in VMs,
           value \in Int, log \in Logs, scheduled \in BOOLEAN, AppendDependants(v), Tallied
    PROVE  Tallied'
<1> USE DEF At, clock, semaphore, future, program
<1>1. stack[v] # <<>> /\ Top(v).fn = "append" /\ Top(v).at = "inside" /\ GoTo(v, "release")
  BY DEF AppendDependants, Top
<1>2. /\ Top(v) \in Held(E) /\ Rest(v) \in Seq(Held(E)) /\ Good(Top(v), Peek(Rest(v)), reg[v])
  BY <1>1, OnMachine
<1>3. Top(v).next = Nothing /\ ~ Skips(Top(v)) /\ ~ Pending(Top(v)) /\ reg[v] = Filler
  BY <1>1, <1>2 DEF Held, Good, Switchers, Skips, Pending
<1>4. /\ reg' = reg /\ value' = value /\ semQ' = semQ /\ scheduled' = scheduled /\ unborn' = unborn
      /\ log'.filled = log.filled /\ log'.signals = log.signals /\ log'.passed = log.passed
  BY DEF AppendDependants, Logs
<1>5. Fewer
  BY FewerFill DEF Tallied
<1>6. FewerKinds /\ Among(Passers)' \in Int /\ Among(Passers)' <= Among(Passers)
  BY <1>5 DEF Fewer, FewerKinds, Kinds, Family
<1>7. Once'
  BY <1>4, <1>6, OnceKept DEF Tallied
<1>8. /\ Here(v) \in NotGiven /\ Here(v) \in Alive(Filler) /\ ~ log.delivered /\ log'.delivered
      /\ \A A : Queued(A)' = Queued(A)
  BY Delivers DEF Tallied
<1>9. /\ Among(Makers(Filler)) = 0 /\ scheduled /\ Among(NotGiven) <= 1 /\ Among(NotGiven) >= 1 /\ Among(NotGiven) \in Nat
  <2>1. Among(Alive(Filler)) >= 1 /\ Among(Alive(Filler)) \in Nat /\ Among(Makers(Filler)) \in Nat
    BY <1>8, Counts, AmongMore DEF MakersAssumption, Whole
  <2>2. Promised(Filler) \in {0, 1}
    BY DEF Promised
  <2>3. Among(Alive(Filler)) + Among(Makers(Filler)) + Promised(Filler) <= 1
    BY DEF Tallied, Once, Sum, SchedulerAssumption
  <2>4. Promised(Filler) = 0 /\ Among(Makers(Filler)) = 0 /\ Among(Alive(Filler)) = 1
    BY <2>1, <2>2, <2>3
  <2>5. scheduled
    BY <2>4 DEF Promised, Unmade
  <2>6. NotGiven \subseteq Alive(Filler)
    BY DEF NotGiven
  <2>7. Among(NotGiven) <= Among(Alive(Filler))
    BY <2>6, AmongMore DEF MakersAssumption, Whole
  <2>8. Among(NotGiven) >= 1 /\ Among(NotGiven) \in Nat
    BY <1>8, Counts
  <2> QED BY <2>4, <2>5, <2>7, <2>8
<1>10. Among(NotGiven)' = Among(NotGiven) - 1
  <2>1. PICK h : h = [Top(v) EXCEPT !.at = "release"]
    OBVIOUS
  <2>2. h \in Held(E) /\ h.fn = "append" /\ h.at = "release" /\ h.next = Nothing
    BY <1>1, <1>2, <1>3, <2>1 DEF Held, Points, Switchers
  <2>3. ~ Skips(h)
    BY <2>2 DEF Skips
  <2>4. PICK r \in Seq(Held(E)) : r = Rest(v)
    BY <1>2
  <2>5. Become(v, <<h>> \o r)
    BY <1>1, <2>1, <2>4 DEF GoTo
  <2>6. Here(v)'.fn = "append" /\ Here(v)'.at = "release" /\ \A u \in VMs \ {v} : stack'[u] = stack[u] /\ reg'[u] = reg[u]
    BY <1>4, <2>2, <2>3, <2>5, HereBecomes
  <2>7. One(Here(v)', NotGiven) = 0 /\ One(Here(v), NotGiven) = 1
    BY <1>8, <2>6 DEF One, NotGiven, Given
  <2>8. Queued(NotGiven)' = Queued(NotGiven) /\ Queued(NotGiven) \in Nat
    BY <1>8, AmongMore DEF MakersAssumption, Whole
  <2>9. Queued(NotGiven)' \in Int
    BY <2>8
  <2>10. Among(NotGiven)' = Among(NotGiven) - One(Here(v), NotGiven) + One(Here(v)', NotGiven)
                            + (Queued(NotGiven)' - Queued(NotGiven))
    BY <2>6, <2>9, Moves
  <2> QED BY <1>9, <2>7, <2>8, <2>10
<1>11. Phase'
  <2>1. Among(Makers(Filler))' \in Int /\ Among(Makers(Filler))' <= 0
    <3>1. Makers(Filler) \in Kinds
      BY DEF Kinds, SchedulerAssumption
    <3> QED BY <1>6, <1>9, <3>1 DEF FewerKinds
  <2>2. Past(NotGiven)'
    BY <1>4, <1>9, <1>10, <2>1 DEF Past
  <2>3. log.filled = 1 => Past(Early)'
    <3>1. Early \in Kinds
      BY DEF Kinds
    <3>2. Among(Early)' \in Int /\ Among(Early)' <= Among(Early) /\ Among(Early) \in Nat
      BY <1>6, <3>1, AmongMore DEF FewerKinds, MakersAssumption, Whole
    <3> QED BY <1>4, <2>1, <3>2 DEF Past, Tallied, Phase
  <2> QED BY <1>4, <2>2, <2>3 DEF Phase, Tallied
<1>12. Waits \in Int /\ Waits' \in Int /\ Waits' >= Waits
  <2>1. PICK n \in Int : n = Among(Passers)
    BY AmongMore DEF MakersAssumption, Whole
  <2>2. PICK m \in Int : m = Among(Passers)' /\ m <= n
    BY <1>6, <2>1
  <2>3. PICK s \in Int, p \in Int, w \in Int : s = log.signals /\ p = log.passed /\ w = value
    BY DEF Logs
  <2>4. Waits = (s - w) - (p + n) /\ Waits' = (s - w) - (p + m)
    BY <1>4, <2>1, <2>2, <2>3 DEF Waits
  <2> QED BY <2>2, <2>4
<1> QED BY <1>4, <1>7, <1>11, <1>12, PassingKept DEF Tallied

\* A place of a process, as far as the counts that are about processes go, when it makes nobody.
LEMMA CalmerKinds ==
    ASSUME SchedulerAssumption, NEW a \in Places, NEW b \in Places, a.of = b.of, ~ b.idle, a.makes = Nothing,
           ~ Computed(b), ~ Given(b), NEW A \in Kinds
    PROVE  One(a, A) <= One(b, A) /\ One(a, A) \in {0, 1} /\ One(b, A) \in {0, 1}
<1>1. a \in A => b \in A
  <2>1. CASE \E q \in Procs : A = Alive(q)
    BY <2>1 DEF Alive
  <2>2. CASE \E q \in Procs : A = Makers(q)
    <3>1. PICK q \in Procs : A = Makers(q)
      BY <2>2
    <3>2. q # Nothing
      BY DEF SchedulerAssumption
    <3> QED BY <3>1, <3>2 DEF Makers
  <2>3. CASE A \in {Early, NotGiven}
    BY <2>3 DEF Alive, Early, NotGiven
  <2> QED BY <2>1, <2>2, <2>3 DEF Kinds
<1> QED BY <1>1 DEF One

\* A wait counts: it is one of those that are to pass, and the value says so.
LEMMA WaitingCounts ==
    ASSUME SchedulerAssumption, MakersAssumption, EntriesAreSomething, NEW E, Whole(E), reg \in [VMs -> Procs], NEW v \in VMs,
           value \in Int, log \in Logs, Wait(v), Tallied
    PROVE  Tallied'
<1> USE DEF At, clock, semaphore, future, program
<1>1. stack[v] # <<>> /\ Top(v).fn = "wait" /\ Top(v).at = "locked"
  BY DEF Wait, Top
<1>2. /\ Top(v) \in Held(E) /\ Rest(v) \in Seq(Held(E)) /\ reg[v] \in Procs /\ Stored(E)
      /\ Returned(v) \in Calm(E, reg[v])
  BY <1>1, OnMachine, WaitGood DEF Whole
<1>3. Top(v).next = Nothing /\ ~ Skips(Top(v)) /\ ~ Pending(Top(v)) /\ ~ Suspending(Top(v))
  BY <1>1, <1>2 DEF Held, Switchers, Skips, Pending, Suspending
<1>4. /\ Here(v) \in Places /\ Here(v).of = reg[v] /\ Here(v).fn = "wait" /\ Here(v).at = "locked" /\ ~ Here(v).idle
  BY <1>1, <1>3, HereIs
<1>5. ~ Computed(Here(v)) /\ ~ Given(Here(v)) /\ One(Here(v), Passers) = 0
  BY <1>4 DEF Computed, Given, One, Passers
<1>6. /\ reg' = reg /\ value' = value - 1 /\ queue' = queue /\ dependantsQ' = dependantsQ /\ log' = log
      /\ scheduled' = scheduled /\ unborn' = unborn
  BY DEF Wait
<1>7. ASSUME NEW a \in {"block", "unlock"}, GoTo(v, a)
      PROVE  /\ Here(v)' \in Places /\ Here(v)'.of = reg[v] /\ Here(v)'.makes = Nothing
             /\ Here(v)'.fn = "wait" /\ Here(v)'.at = a /\ (Here(v)'.idle <=> a = "block")
             /\ \A u \in VMs \ {v} : stack'[u] = stack[u] /\ reg'[u] = reg[u]
  <2>1. PICK h : h = [Top(v) EXCEPT !.at = a]
    OBVIOUS
  <2>2. h \in Held(E) /\ h.fn = "wait" /\ h.at = a /\ h.next = Nothing
    BY <1>1, <1>2, <1>3, <2>1 DEF Held, Points, Switchers
  <2>3. ~ Skips(h) /\ ~ Pending(h) /\ (Suspending(h) <=> a = "block")
    BY <2>2 DEF Skips, Pending, Suspending
  <2>4. PICK r \in Seq(Held(E)) : r = Rest(v)
    BY <1>2
  <2>5. Become(v, <<h>> \o r)
    BY <1>7, <2>1, <2>4 DEF GoTo
  <2>6. Here(v)' \in Places /\ Here(v)'.of = reg[v] /\ Here(v)'.makes = Nothing
    BY <1>6, <2>2, <2>3, <2>5, HereBecomes
  <2>7. /\ Here(v)'.fn = "wait" /\ Here(v)'.at = a /\ (Here(v)'.idle <=> a = "block")
        /\ \A u \in VMs \ {v} : stack'[u] = stack[u] /\ reg'[u] = reg[u]
    BY <1>6, <2>2, <2>3, <2>5, HereBecomes
  <2> QED BY <2>6, <2>7
<1>8. ASSUME \A u \in VMs \ {v} : stack'[u] = stack[u] /\ reg'[u] = reg[u],
             \A A \in Kinds : Queued(A)' \in Int /\ One(Here(v)', A) + Queued(A)' <= One(Here(v), A) + Queued(A),
             Queued(Passers)' \in Int, One(Here(v)', Passers) + Queued(Passers)' = 1 + Queued(Passers),
             semQ' = semQ \/ \E e : Spot(e) \in Passers /\ semQ' = Append(semQ, e)
      PROVE  Tallied'
  <2>1. ASSUME NEW A \in Kinds PROVE Among(A)' \in Int /\ Among(A)' <= Among(A)
    <3>1. Queued(A)' \in Int /\ One(Here(v)', A) + Queued(A)' <= One(Here(v), A) + Queued(A)
      BY <1>8
    <3>2. /\ Among(A)' = Among(A) - One(Here(v), A) + One(Here(v)', A) + (Queued(A)' - Queued(A))
          /\ Among(A) \in Nat /\ Queued(A) \in Nat
      BY <1>8, <3>1, Moves
    <3>3. One(Here(v), A) \in {0, 1} /\ One(Here(v)', A) \in {0, 1}
      BY DEF One
    <3> QED BY <3>1, <3>2, <3>3
  <2>2. Once' /\ Phase'
    BY <1>6, <2>1, OnceKept, PhaseKept DEF FewerKinds, Tallied
  <2>3. Among(Passers)' = Among(Passers) + 1 /\ Among(Passers) \in Nat
    <3>1. /\ Among(Passers)' = Among(Passers) - One(Here(v), Passers) + One(Here(v)', Passers) + (Queued(Passers)' - Queued(Passers))
          /\ Among(Passers) \in Nat /\ Queued(Passers) \in Nat
      BY <1>8, Moves
    <3>2. One(Here(v)', Passers) \in {0, 1}
      BY DEF One
    <3> QED BY <1>5, <1>8, <3>1, <3>2
  <2>4. Waits \in Int /\ Waits' \in Int /\ Waits' >= Waits
    <3>1. PICK n \in Int : n = Among(Passers)
      BY <2>3
    <3>2. PICK s \in Int, p \in Int, w \in Int : s = log.signals /\ p = log.passed /\ w = value
      BY DEF Logs
    <3>3. Waits = (s - w) - (p + n) /\ Waits' = (s - (w - 1)) - (p + (n + 1))
      BY <1>6, <2>3, <3>1, <3>2 DEF Waits
    <3> QED BY <3>3
  <2> QED BY <1>8, <2>2, <2>4, PassingKept DEF Tallied
<1>9. CASE value' < 0
  <2>1. PICK e : e = Throw(reg[v], Returned(v))
    OBVIOUS
  <2>2. PICK D : D = E \cup {e}
    OBVIOUS
  <2>3. E \subseteq D /\ Stored(D) /\ e \in D
    BY <1>2, <2>1, <2>2, Storing DEF Throw
  <2>4. semQ' = Append(semQ, e) /\ GoTo(v, "block")
    BY <1>9, <2>1 DEF Wait
  <2>5. /\ Here(v)' \in Places /\ Here(v)'.makes = Nothing /\ Here(v)'.fn = "wait" /\ Here(v)'.at = "block" /\ Here(v)'.idle
        /\ \A u \in VMs \ {v} : stack'[u] = stack[u] /\ reg'[u] = reg[u]
    BY <1>7, <2>4
  <2>6. Spot(e) \in Places /\ Spot(e).of = reg[v] /\ Spot(e).makes = Nothing /\ Spot(e).fn = "wait" /\ Spot(e).at = "return"
    <3>1. PICK h : h = [Top(v) EXCEPT !.at = "return"]
      OBVIOUS
    <3>2. h \in Held(E) /\ h.fn = "wait" /\ h.at = "return" /\ h.next = Nothing
      BY <1>1, <1>2, <1>3, <3>1 DEF Held, Points, Switchers
    <3>3. ~ Skips(h) /\ ~ Pending(h)
      BY <3>2 DEF Skips, Pending
    <3>4. PICK r \in Seq(Held(E)) : r = Rest(v)
      BY <1>2
    <3>5. PICK p \in Procs : p = reg[v]
      BY <1>2
    <3>6. Spot(e) = Place(<<h>> \o r, p)
      BY <2>1, <3>1, <3>4, <3>5 DEF Spot, Throw, Returned
    <3> QED BY <3>2, <3>3, <3>5, <3>6, PlaceOn
  <2>7. Spot(e) \in Passers
    BY <2>6 DEF Passers
  <2>8. queue \in Seq(D) /\ semQ \in Seq(D) /\ dependantsQ \in Seq(D)
    BY <2>3, MoreEntries DEF Whole
  <2>9. ASSUME NEW A PROVE Queued(A)' = Queued(A) + One(Spot(e), A) /\ Queued(A) \in Nat
    <3>1. Queued(A)' = In(queue', A) + In(semQ', A) + (IF log'.delivered THEN 0 ELSE In(dependantsQ', A))
      BY DEF Queued, Dependants, In, Indices, Spot, Place
    <3>2. In(semQ', A) = In(semQ, A) + One(Spot(e), A)
      BY <2>3, <2>4, <2>8, InAppend
    <3>3. In(queue, A) \in Nat /\ In(semQ, A) \in Nat /\ In(dependantsQ, A) \in Nat /\ One(Spot(e), A) \in {0, 1}
      BY <2>8, InNat DEF One
    <3> QED BY <1>6, <3>1, <3>2, <3>3 DEF Queued, Dependants
  <2>10. ASSUME NEW A \in Kinds
         PROVE  Queued(A)' \in Int /\ One(Here(v)', A) + Queued(A)' <= One(Here(v), A) + Queued(A)
    <3>1. One(Here(v)', A) = 0
      BY <2>5, Nowhere DEF Passes, Kinds, Family
    <3>2. One(Spot(e), A) <= One(Here(v), A) /\ One(Spot(e), A) \in {0, 1} /\ One(Here(v), A) \in {0, 1}
      BY <1>4, <1>5, <2>6, CalmerKinds
    <3> QED BY <2>9, <3>1, <3>2
  <2>11. Queued(Passers)' \in Int /\ One(Here(v)', Passers) + Queued(Passers)' = 1 + Queued(Passers)
    <3>1. One(Here(v)', Passers) = 0 /\ One(Spot(e), Passers) = 1
      BY <2>5, <2>7 DEF One, Passers
    <3>2. Queued(Passers)' = Queued(Passers) + One(Spot(e), Passers) /\ Queued(Passers) \in Nat
      BY <2>9
    <3> QED BY <3>1, <3>2
  <2> QED BY <1>8, <2>4, <2>5, <2>7, <2>10, <2>11
<1>10. CASE ~ (value' < 0)
  <2>1. semQ' = semQ /\ GoTo(v, "unlock")
    BY <1>10 DEF Wait
  <2>2. /\ Here(v)' \in Places /\ Here(v)'.of = reg[v] /\ Here(v)'.makes = Nothing /\ Here(v)'.fn = "wait" /\ Here(v)'.at = "unlock"
        /\ \A u \in VMs \ {v} : stack'[u] = stack[u] /\ reg'[u] = reg[u]
    BY <1>7, <2>1
  <2>3. ASSUME NEW A PROVE Queued(A)' = Queued(A) /\ Queued(A) \in Nat
    <3>1. Queued(A)' = Queued(A)
      BY <1>6, <2>1 DEF Queued, Dependants, In, Indices, Spot, Place
    <3> QED BY <3>1, AmongMore DEF MakersAssumption, Whole
  <2>4. ASSUME NEW A \in Kinds
        PROVE  Queued(A)' \in Int /\ One(Here(v)', A) + Queued(A)' <= One(Here(v), A) + Queued(A)
    <3>1. One(Here(v)', A) <= One(Here(v), A) /\ One(Here(v)', A) \in {0, 1} /\ One(Here(v), A) \in {0, 1}
      BY <1>4, <1>5, <2>2, CalmerKinds
    <3>2. Queued(A)' = Queued(A) /\ Queued(A) \in Nat
      BY <2>3
    <3> QED BY <3>1, <3>2
  <2>5. Queued(Passers)' \in Int /\ One(Here(v)', Passers) + Queued(Passers)' = 1 + Queued(Passers)
    <3>1. One(Here(v)', Passers) = 1
      BY <2>2 DEF One, Passers
    <3>2. Queued(Passers)' = Queued(Passers) /\ Queued(Passers) \in Nat
      BY <2>3
    <3> QED BY <3>1, <3>2
  <2> QED BY <1>8, <2>1, <2>2, <2>4, <2>5
<1> QED BY <1>9, <1>10

\* Somebody sets out to make process q, who could still be made.
LEMMA MakingCounts ==
    ASSUME SchedulerAssumption, MakersAssumption, NEW E, Whole(E), NEW v \in VMs, NEW q \in Procs,
           value \in Int, log \in Logs, Tallied, Still, log' = log, value' = value,
           \A u \in VMs \ {v} : stack'[u] = stack[u] /\ reg'[u] = reg[u],
           Here(v) \in Places, Here(v)' \in Places, Here(v)'.of = Here(v).of, Here(v)'.makes = q, ~ Here(v)'.idle => ~ Here(v).idle,
           ~ Passes(Here(v)'), ~ Computed(Here(v)), ~ Given(Here(v)),
           Unmade(q), ~ Unmade(q)', \A p \in Procs \ {q} : Unmade(p)' => Unmade(p),
           scheduled => scheduled', q = Filler => ~ scheduled
    PROVE  Tallied'
<1>1. \A A : Queued(A)' = Queued(A) /\ Queued(A) \in Nat
  <2>1. ASSUME NEW A PROVE Queued(A)' = Queued(A)
    BY DEF Still, Queued, Dependants, In, Indices, Spot, Place
  <2> QED BY <2>1, AmongMore DEF MakersAssumption, Whole
<1>2. ASSUME NEW A
      PROVE  Among(A)' = Among(A) - One(Here(v), A) + One(Here(v)', A) /\ Among(A) \in Nat
             /\ One(Here(v), A) \in {0, 1} /\ One(Here(v)', A) \in {0, 1}
  <2>1. Queued(A)' = Queued(A) /\ Queued(A) \in Nat
    BY <1>1
  <2>2. Queued(A)' \in Int
    BY <2>1
  <2>3. Among(A)' = Among(A) - One(Here(v), A) + One(Here(v)', A) + (Queued(A)' - Queued(A)) /\ Among(A) \in Nat
    BY <2>2, Moves
  <2>4. One(Here(v), A) \in {0, 1} /\ One(Here(v)', A) \in {0, 1}
    BY DEF One
  <2> QED BY <2>1, <2>3, <2>4
<1>3. ASSUME NEW A, Here(v)' \in A => Here(v) \in A PROVE Among(A)' \in Int /\ Among(A)' <= Among(A)
  <2>1. One(Here(v)', A) <= One(Here(v), A)
    BY <1>3 DEF One
  <2> QED BY <1>2, <2>1
<1>4. ASSUME NEW p \in Procs PROVE Among(Alive(p))' \in Int /\ Among(Alive(p))' <= Among(Alive(p))
  BY <1>3 DEF Alive
<1>5. ASSUME NEW p \in Procs \ {q} PROVE Among(Makers(p))' \in Int /\ Among(Makers(p))' <= Among(Makers(p))
  BY <1>3 DEF Makers
<1>6. Among(Passers)' \in Int /\ Among(Passers)' <= Among(Passers)
  BY <1>3 DEF Passers, Passes
<1>7. Among(Early)' \in Int /\ Among(Early)' <= Among(Early) /\ Among(NotGiven)' \in Int /\ Among(NotGiven)' <= Among(NotGiven)
  BY <1>3 DEF Early, NotGiven, Alive
<1>8. Once'
  <2>1. ASSUME NEW p \in Procs PROVE Sum(p)' <= 1
    <3>1. Sum(p) <= 1
      BY DEF Tallied, Once
    <3>2. Promised(p) \in {0, 1} /\ Promised(p)' \in {0, 1}
      BY DEF Promised
    <3>3. Among(Alive(p)) \in Nat /\ Among(Makers(p)) \in Nat
      BY <1>2
    <3>4. CASE p = q
      <4>1. Promised(p) = 1 /\ Promised(p)' = 0
        BY <3>4 DEF Promised
      <4>2. Among(Makers(p))' \in Int /\ Among(Makers(p))' <= Among(Makers(p)) + 1
        BY <1>2
      <4> QED BY <1>4, <3>1, <3>3, <4>1, <4>2 DEF Sum
    <3>5. CASE p # q
      <4>1. Promised(p)' <= Promised(p)
        BY <3>5 DEF Promised
      <4> QED BY <1>4, <1>5, <3>1, <3>2, <3>3, <3>5, <4>1 DEF Sum
    <3> QED BY <3>4, <3>5
  <2> QED BY <2>1 DEF Once
<1>9. Phase'
  <2>1. CASE q = Filler
    <3>1. ~ scheduled
      BY <2>1
    <3> QED BY <3>1 DEF Phase, Past, Tallied
  <2>2. CASE q # Filler
    <3>1. Among(Makers(Filler))' \in Int /\ Among(Makers(Filler))' <= Among(Makers(Filler))
      BY <1>5, <2>2 DEF SchedulerAssumption
    <3>2. Among(Makers(Filler)) \in Nat /\ Among(Early) \in Nat /\ Among(NotGiven) \in Nat
      BY <1>2
    <3>3. Past(Early) => Past(Early)'
      BY <1>7, <3>1, <3>2 DEF Past
    <3>4. Past(NotGiven) => Past(NotGiven)'
      BY <1>7, <3>1, <3>2 DEF Past
    <3> QED BY <3>3, <3>4 DEF Phase, Tallied
  <2> QED BY <2>1, <2>2
<1>10. Waits \in Int /\ Waits' \in Int /\ Waits' >= Waits
  <2>1. PICK n \in Int : n = Among(Passers)
    BY <1>2
  <2>2. PICK m \in Int : m = Among(Passers)' /\ m <= n
    BY <1>6, <2>1
  <2>3. PICK s \in Int, p \in Int, w \in Int : s = log.signals /\ p = log.passed /\ w = value
    BY DEF Logs
  <2>4. Waits = (s - w) - (p + n) /\ Waits' = (s - w) - (p + m)
    BY <2>1, <2>2, <2>3 DEF Waits
  <2> QED BY <2>2, <2>4
<1>11. semQ' = semQ
  BY DEF Still
<1> QED BY <1>8, <1>9, <1>10, <1>11, PassingKept DEF Tallied

\* The first to claim the future sets out to make the process that computes it.
LEMMA ClaimCounts ==
    ASSUME SchedulerAssumption, MakersAssumption, NEW E, Whole(E), reg \in [VMs -> Procs], NEW v \in VMs,
           value \in Int, log \in Logs, Claim(v), ~ scheduled, Tallied
    PROVE  Tallied'
<1> USE DEF At, clock, semaphore, future, program
<1>1. stack[v] # <<>> /\ Top(v).fn = "force" /\ Top(v).at = "claim"
  BY DEF Claim, Top
<1>2. Top(v) \in Held(E) /\ Rest(v) \in Seq(Held(E)) /\ reg[v] \in Procs
  BY <1>1, OnMachine
<1>3. PICK e : e = Frame("start", "disable")
  OBVIOUS
<1>4. e \in Held(E) /\ e.fn = "start" /\ e.at = "disable" /\ e.next = Nothing
  BY <1>3, Fresh DEF Points, Switchers
<1>5. PICK f : f = RunFn(Filler)
  OBVIOUS
<1>6. f \in Held(E) /\ f.fn = "run" /\ f.at = "disable" /\ f.next = Nothing /\ f.who = Filler
  BY <1>5, Newborn DEF SchedulerAssumption, RunFn, Frame
<1>7. PICK r \in Seq(Held(E)) : r = Returned(v)
  <2>1. Top(v).next = Nothing
    BY <1>1, <1>2 DEF Held, Switchers
  <2>2. [Top(v) EXCEPT !.at = "return"] \in Held(E)
    BY <1>1, <1>2, <2>1 DEF Held, Points, Switchers
  <2> QED BY <1>2, <2>2, OnTop DEF Returned
<1>8. PICK s : s = <<e>> \o r
  OBVIOUS
<1>9. s \in Seq(Held(E)) /\ Lead(s) = e
  <2>1. ~ Skips(e)
    BY <1>4 DEF Skips
  <2> QED BY <1>4, <1>8, <2>1, OnTop, LeadOn
<1>10. Become(v, <<f>> \o s)
  <2>1. PICK X : X = Held(E)
    OBVIOUS
  <2>2. f \in X /\ e \in X /\ r \in Seq(X)
    BY <1>4, <1>6, <1>7, <2>1
  <2>3. Become(v, (<<f>> \o <<e>>) \o r)
    BY <1>3, <1>5, <1>7 DEF Claim
  <2>4. Become(v, <<f>> \o (<<e>> \o r))
    BY <2>2, <2>3, BecomePair, Zenon
  <2> QED BY <1>8, <2>4, Zenon
<1>11. Still /\ log' = log /\ value' = value /\ scheduled' /\ reg' = reg /\ unborn' = unborn
  BY DEF Claim, Still
<1>12. Skips(f) /\ Pending(f) /\ Suspending(e)
  BY <1>4, <1>6 DEF Skips, Pending, Suspending
<1>13. /\ Here(v)' \in Places /\ Here(v)'.of = reg[v] /\ Here(v)'.makes = Filler
       /\ \A u \in VMs \ {v} : stack'[u] = stack[u] /\ reg'[u] = reg[u]
  BY <1>6, <1>9, <1>10, <1>11, <1>12, HereBecomes
<1>14. Here(v)'.fn = "start" /\ Here(v)'.idle
  BY <1>4, <1>6, <1>9, <1>10, <1>11, <1>12, HereSkips
<1>15. /\ Here(v) \in Places /\ Here(v).of = reg[v] /\ Here(v).fn = "force"
  <2>1. Top(v).next = Nothing /\ ~ Skips(Top(v))
    BY <1>1, <1>2 DEF Held, Switchers, Skips
  <2> QED BY <1>1, <2>1, HereIs
<1>16. Unmade(Filler) /\ ~ Unmade(Filler)' /\ \A p \in Procs \ {Filler} : Unmade(p)' => Unmade(p)
  BY <1>11 DEF Unmade
<1>17. ~ Passes(Here(v)') /\ ~ Computed(Here(v)) /\ ~ Given(Here(v))
  BY <1>14, <1>15 DEF Passes, Computed, Given
<1> QED BY <1>11, <1>13, <1>14, <1>15, <1>16, <1>17, MakingCounts DEF SchedulerAssumption

\* The program sets out to make a process.
LEMMA PerformCounts ==
    ASSUME SchedulerAssumption, MakersAssumption, NEW E, Whole(E), reg \in [VMs -> Procs], world \in Worlds, NEW v \in VMs,
           value \in Int, log \in Logs, Tallied, Perform(v),
           NEW q \in Procs, q \in world.makes[Top(v).who], Top(v).who \in Procs, q \in unborn, unborn' = unborn \ {q},
           Become(v, <<RunFn(q)>> \o stack[v])
    PROVE  Tallied'
<1> USE DEF At, clock, semaphore, future
<1>1. stack[v] # <<>> /\ Top(v).fn \in {"body", "fill"} /\ Top(v).at = "call"
  BY DEF Perform, Top
<1>2. Top(v) \in Held(E) /\ Rest(v) \in Seq(Held(E)) /\ stack[v] = <<Top(v)>> \o Rest(v) /\ reg[v] \in Procs
  BY <1>1, OnMachine
<1>3. Top(v).next = Nothing /\ ~ Skips(Top(v)) /\ ~ Suspending(Top(v))
  BY <1>1, <1>2 DEF Held, Switchers, Skips, Suspending
<1>4. PICK f : f = RunFn(q)
  OBVIOUS
<1>5. f \in Held(E) /\ f.fn = "run" /\ f.at = "disable" /\ f.next = Nothing /\ f.who = q
  BY <1>4, Newborn DEF RunFn, Frame
<1>6. PICK s \in Seq(Held(E)) : s = stack[v]
  BY DEF Whole, Active
<1>7. Lead(s) = Top(v)
  <2>1. PICK g \in Held(E) : g = Top(v)
    BY <1>2
  <2>2. PICK r \in Seq(Held(E)) : r = Rest(v)
    BY <1>2
  <2>3. s = <<g>> \o r
    BY <1>2, <1>6, <2>1, <2>2
  <2>4. Lead(<<g>> \o r) = g
    BY <1>3, <2>1, LeadOn
  <2> QED BY <2>1, <2>3, <2>4
<1>8. Become(v, <<f>> \o s)
  BY <1>4, <1>6
<1>9. Still /\ log' = log /\ value' = value /\ scheduled' = scheduled /\ reg' = reg
  BY DEF Perform, Still
<1>10. Skips(f) /\ Pending(f)
  BY <1>5 DEF Skips, Pending
<1>11. /\ Here(v)' \in Places /\ Here(v)'.of = reg[v] /\ Here(v)'.makes = q
       /\ \A u \in VMs \ {v} : stack'[u] = stack[u] /\ reg'[u] = reg[u]
  BY <1>5, <1>6, <1>8, <1>9, <1>10, HereBecomes
<1>12. Here(v)'.fn = Top(v).fn /\ Here(v)'.at = Top(v).at
  BY <1>5, <1>6, <1>7, <1>8, <1>9, <1>10, HereSkips
<1>13. /\ Here(v) \in Places /\ Here(v).of = reg[v] /\ Here(v).fn = Top(v).fn /\ Here(v).at = Top(v).at /\ ~ Here(v).idle
  BY <1>1, <1>3, HereIs
<1>14. q # Filler /\ \A u \in VMs \ {Main} : q # Busy[u]
  BY DEF MakersAssumption
<1>15. Unmade(q) /\ ~ Unmade(q)' /\ \A p \in Procs \ {q} : Unmade(p)' => Unmade(p)
  BY <1>9, <1>14 DEF Unmade
<1>16. ~ Passes(Here(v)') /\ ~ Computed(Here(v)) /\ ~ Given(Here(v))
  BY <1>1, <1>12, <1>13 DEF Passes, Computed, Given
<1> QED BY <1>9, <1>11, <1>13, <1>14, <1>15, <1>16, MakingCounts

\* The process is made: it is an entry of the scheduler's queue.
LEMMA RunningCounts ==
    ASSUME SchedulerAssumption, MakersAssumption, EntriesAreSomething, AlarmsAlone, NEW E, Whole(E), reg \in [VMs -> Procs], NEW v \in VMs,
           value \in Int, log \in Logs, ProcessRunFn(v), Tallied
    PROVE  Tallied'
<1> USE DEF At, clock, semaphore, future, program
<1>1. stack[v] # <<>> /\ Top(v).fn = "run" /\ Top(v).at = "inside"
  BY DEF ProcessRunFn, Top
<1>2. Top(v) \in Held(E) /\ Rest(v) \in Seq(Held(E)) /\ stack[v] = <<Top(v)>> \o Rest(v) /\ reg[v] \in Procs /\ Stored(E)
  BY <1>1, OnMachine DEF Whole
<1>3. Top(v).next = Nothing /\ Skips(Top(v)) /\ Pending(Top(v)) /\ Top(v).who \in Procs
  BY <1>1, <1>2 DEF Held, Switchers, Skips, Pending
<1>4. PICK w \in Procs : w = Top(v).who
  BY <1>3
<1>5. PICK e : e = Call(w, Thunk(w))
  OBVIOUS
<1>6. /\ reg' = reg /\ queue' = Append(queue, e) /\ semQ' = semQ /\ dependantsQ' = dependantsQ /\ log' = log /\ value' = value
      /\ scheduled' = scheduled /\ unborn' = unborn /\ GoTo(v, "release")
  BY <1>4, <1>5 DEF ProcessRunFn
<1>7. PICK D : D = E \cup {e}
  OBVIOUS
<1>8. /\ E \subseteq D /\ Stored(D) /\ e \in D
  <2>1. Thunk(w) \in Calm(E, w) /\ HasEnd(Thunk(w))
    BY Newborn
  <2> QED BY <1>2, <1>5, <1>7, <2>1, Storing DEF Call
<1>9. /\ Spot(e) \in Places /\ Spot(e).of = w /\ Spot(e).makes = Nothing /\ ~ Spot(e).idle /\ Spot(e).fn \in {"body", "fill"}
  <2>1. PICK t \in Seq(Held(E)) : t = Thunk(w)
    BY Newborn DEF Calm, Owned
  <2>2. Lead(t).fn \in {"body", "fill"} /\ Lead(t).at = "call" /\ Peek(t) = Lead(t) /\ Lead(t).next = Nothing
    <3>1. /\ Lead(Thunk(w)) = Thunk(w)[1] /\ Peek(Thunk(w)) = Thunk(w)[1] /\ Thunk(w)[1].next = Nothing
          /\ Thunk(w)[1].at = "call"
      BY <1>4, Newborn
    <3>2. Thunk(w)[1].fn = IF w = Filler THEN "fill" ELSE "body"
      BY <1>4, Newborn
    <3> QED BY <2>1, <3>1, <3>2
  <2>3. Runner(t) = Nothing /\ ~ Suspending(Lead(t))
    BY <2>2 DEF Runner, Pending, Suspending
  <2>4. Spot(e) = Place(t, w)
    BY <1>5, <2>1 DEF Spot, Call
  <2> QED BY <2>2, <2>3, <2>4, PlaceIn
<1>10. /\ Here(v) \in Places /\ Here(v).of = reg[v] /\ Here(v).makes = w
       /\ Here(v).fn = Lead(Rest(v)).fn /\ Here(v).at = Lead(Rest(v)).at /\ (Here(v).idle <=> Suspending(Lead(Rest(v))))
  <2>1. PICK f \in Held(E) : f = Top(v)
    BY <1>2
  <2>2. PICK r \in Seq(Held(E)) : r = Rest(v)
    BY <1>2
  <2>3. PICK p \in Procs : p = reg[v]
    BY <1>2
  <2>4. Seen(<<f>> \o r) = <<f>> \o r
    BY <1>3, <2>1, SeenOn
  <2>5. stack[v] = <<f>> \o r
    BY <1>2, <2>1, <2>2
  <2>6. Here(v) = Place(<<f>> \o r, p)
    BY <2>3, <2>4, <2>5 DEF Here
  <2>7. PICK b : b = Place(<<f>> \o r, p)
    OBVIOUS
  <2>8. /\ b \in Places /\ b.of = p /\ b.makes = w /\ b.fn = Lead(r).fn /\ b.at = Lead(r).at
        /\ (b.idle <=> Suspending(Lead(r)))
    BY <1>3, <1>4, <2>1, <2>7, PlaceOn
  <2> QED BY <2>2, <2>3, <2>6, <2>7, <2>8
<1>11. PICK h : h = [Top(v) EXCEPT !.at = "release"]
  OBVIOUS
<1>12. h \in Held(E) /\ h.fn = "run" /\ h.at = "release" /\ h.next = Nothing
  BY <1>1, <1>2, <1>3, <1>11 DEF Held, Points, Switchers
<1>13. Skips(h) /\ ~ Pending(h)
  BY <1>12 DEF Skips, Pending
<1>14. PICK r \in Seq(Held(E)) : r = Rest(v)
  BY <1>2
<1>15. Become(v, <<h>> \o r)
  BY <1>6, <1>11, <1>14 DEF GoTo
<1>16. /\ Here(v)' \in Places /\ Here(v)'.of = reg[v] /\ Here(v)'.makes = Nothing
       /\ \A u \in VMs \ {v} : stack'[u] = stack[u] /\ reg'[u] = reg[u]
  <2>1. Here(v)' \in Places /\ Here(v)'.of = reg[v]
    BY <1>6, <1>12, <1>15, HereBecomes
  <2>2. ~ Pending(h) /\ h.fn # "alarm" => Here(v)'.makes = Nothing
    BY <1>6, <1>12, <1>15, HereBecomes
  <2>3. \A u \in VMs \ {v} : stack'[u] = stack[u] /\ reg'[u] = reg[u]
    BY <1>6, <1>15 DEF Become, Whole, Active
  <2> QED BY <1>12, <1>13, <2>1, <2>2, <2>3
<1>17. Here(v)'.fn = Here(v).fn /\ Here(v)'.at = Here(v).at /\ (Here(v)'.idle <=> Here(v).idle)
  <2>1. Here(v)'.fn = Lead(r).fn /\ Here(v)'.at = Lead(r).at /\ (Here(v)'.idle <=> Suspending(Lead(r)))
    BY <1>6, <1>12, <1>13, <1>15, HereSkips
  <2> QED BY <1>10, <1>14, <2>1
<1>18. ASSUME NEW A
       PROVE  /\ Among(A)' = Among(A) - One(Here(v), A) + One(Here(v)', A) + One(Spot(e), A) /\ Among(A) \in Nat
              /\ One(Here(v), A) \in {0, 1} /\ One(Here(v)', A) \in {0, 1} /\ One(Spot(e), A) \in {0, 1}
  <2>1. Queued(A)' = In(queue', A) + In(semQ', A) + (IF log'.delivered THEN 0 ELSE In(dependantsQ', A))
    BY DEF Queued, Dependants, In, Indices, Spot, Place
  <2>2. queue \in Seq(D) /\ semQ \in Seq(D) /\ dependantsQ \in Seq(D)
    BY <1>8, MoreEntries DEF Whole
  <2>3. In(queue', A) = In(queue, A) + One(Spot(e), A)
    BY <1>6, <1>8, <2>2, InAppend
  <2>4. In(queue, A) \in Nat /\ In(semQ, A) \in Nat /\ In(dependantsQ, A) \in Nat
    BY <2>2, InNat
  <2>5. One(Here(v), A) \in {0, 1} /\ One(Here(v)', A) \in {0, 1} /\ One(Spot(e), A) \in {0, 1}
    BY DEF One
  <2>6. Queued(A)' = Queued(A) + One(Spot(e), A) /\ Queued(A) \in Nat
    <3>1. Dependants(A) \in Nat
      BY <2>4 DEF Dependants
    <3>2. Queued(A)' = In(queue', A) + In(semQ, A) + Dependants(A)
      BY <1>6, <2>1 DEF Dependants
    <3>3. Queued(A) = In(queue, A) + In(semQ, A) + Dependants(A)
      BY DEF Queued
    <3> QED BY <2>3, <2>4, <2>5, <3>1, <3>2, <3>3
  <2>7. Queued(A)' \in Int
    BY <2>5, <2>6
  <2>8. Among(A)' = Among(A) - One(Here(v), A) + One(Here(v)', A) + (Queued(A)' - Queued(A)) /\ Among(A) \in Nat
    BY <1>16, <2>7, Moves
  <2> QED BY <2>5, <2>6, <2>8
<1>19. ASSUME NEW A, Here(v)' \in A => Here(v) \in A, Spot(e) \notin A PROVE Among(A)' \in Int /\ Among(A)' <= Among(A)
  <2>1. One(Here(v)', A) <= One(Here(v), A) /\ One(Spot(e), A) = 0
    BY <1>19 DEF One
  <2>2. /\ Among(A)' = Among(A) - One(Here(v), A) + One(Here(v)', A) + One(Spot(e), A) /\ Among(A) \in Nat
        /\ One(Here(v), A) \in {0, 1} /\ One(Here(v)', A) \in {0, 1}
    BY <1>18
  <2> QED BY <2>1, <2>2
<1>20. w # Nothing
  BY DEF SchedulerAssumption
<1>21. ASSUME NEW q \in Procs PROVE Here(v)' \notin Makers(q) /\ Spot(e) \notin Makers(q)
  BY <1>9, <1>16 DEF Makers, SchedulerAssumption
<1>22. Once'
  <2>1. ASSUME NEW q \in Procs PROVE Sum(q)' <= 1
    <3>1. Sum(q) <= 1 /\ Promised(q)' = Promised(q) /\ Promised(q) \in {0, 1}
      BY <1>6 DEF Tallied, Once, Promised, Unmade
    <3>2. Among(Alive(q)) \in Nat /\ Among(Makers(q)) \in Nat
      BY <1>18
    <3>3. CASE q = w
      <4>1. Here(v)' \in Alive(q) => Here(v) \in Alive(q)
        BY <1>10, <1>16, <1>17 DEF Alive
      <4>2. One(Here(v)', Alive(q)) <= One(Here(v), Alive(q))
        BY <4>1 DEF One
      <4>3. Among(Alive(q))' \in Int /\ Among(Alive(q))' <= Among(Alive(q)) + 1
        BY <1>18, <4>2
      <4>4. One(Here(v), Makers(q)) = 1 /\ One(Here(v)', Makers(q)) = 0 /\ One(Spot(e), Makers(q)) = 0
        BY <1>10, <1>21, <3>3 DEF One, Makers
      <4>5. Among(Makers(q))' = Among(Makers(q)) - 1
        BY <1>18, <3>2, <4>4
      <4> QED BY <3>1, <3>2, <4>3, <4>5 DEF Sum
    <3>4. CASE q # w
      <4>1. Spot(e) \notin Alive(q) /\ (Here(v)' \in Alive(q) => Here(v) \in Alive(q))
        BY <1>9, <1>10, <1>16, <1>17, <3>4 DEF Alive
      <4>2. Among(Alive(q))' \in Int /\ Among(Alive(q))' <= Among(Alive(q))
        BY <1>19, <4>1
      <4>3. Among(Makers(q))' \in Int /\ Among(Makers(q))' <= Among(Makers(q))
        BY <1>19, <1>21
      <4> QED BY <3>1, <3>2, <4>2, <4>3 DEF Sum
    <3> QED BY <3>3, <3>4
  <2> QED BY <2>1 DEF Once
<1>23. Phase'
  <2>1. CASE w = Filler
    <3>1. Here(v) \in Makers(Filler)
      BY <1>10, <2>1 DEF Makers
    <3>2. Among(Makers(Filler)) >= 1 /\ Among(Makers(Filler)) \in Nat
      BY <3>1, Counts
    <3>3. log.filled # 1 /\ ~ log.delivered
      BY <3>2 DEF Tallied, Phase, Past
    <3> QED BY <1>6, <3>3 DEF Phase, Tallied
  <2>2. CASE w # Filler
    <3>1. Among(Makers(Filler))' \in Int /\ Among(Makers(Filler))' <= Among(Makers(Filler)) /\ Among(Makers(Filler)) \in Nat
      BY <1>18, <1>19, <1>21 DEF SchedulerAssumption
    <3>2. Spot(e) \notin Early /\ Spot(e) \notin NotGiven
      BY <1>9, <2>2 DEF Early, NotGiven, Alive
    <3>3. (Here(v)' \in Early => Here(v) \in Early) /\ (Here(v)' \in NotGiven => Here(v) \in NotGiven)
      BY <1>10, <1>16, <1>17 DEF Early, NotGiven, Alive, Computed, Given
    <3>4. /\ Among(Early)' \in Int /\ Among(Early)' <= Among(Early) /\ Among(Early) \in Nat
          /\ Among(NotGiven)' \in Int /\ Among(NotGiven)' <= Among(NotGiven) /\ Among(NotGiven) \in Nat
      BY <1>18, <1>19, <3>2, <3>3
    <3>5. Past(Early) => Past(Early)'
      BY <1>6, <3>1, <3>4 DEF Past
    <3>6. Past(NotGiven) => Past(NotGiven)'
      BY <1>6, <3>1, <3>4 DEF Past
    <3> QED BY <1>6, <3>5, <3>6 DEF Phase, Tallied
  <2> QED BY <2>1, <2>2
<1>24. Among(Passers)' \in Int /\ Among(Passers)' <= Among(Passers) /\ Among(Passers) \in Nat
  <2>1. Spot(e) \notin Passers /\ (Here(v)' \in Passers => Here(v) \in Passers)
    BY <1>9, <1>10, <1>17 DEF Passers
  <2> QED BY <1>18, <1>19, <2>1
<1>25. Waits \in Int /\ Waits' \in Int /\ Waits' >= Waits
  <2>1. PICK n \in Int : n = Among(Passers)
    BY <1>24
  <2>2. PICK m \in Int : m = Among(Passers)' /\ m <= n
    BY <1>24, <2>1
  <2>3. PICK s \in Int, p \in Int, y \in Int : s = log.signals /\ p = log.passed /\ y = value
    BY DEF Logs
  <2>4. Waits = (s - y) - (p + n) /\ Waits' = (s - y) - (p + m)
    BY <1>6, <2>1, <2>2, <2>3 DEF Waits
  <2>5. PICK a \in Int : a = s - y
    OBVIOUS
  <2>6. PICK b \in Int, c \in Int : b = p + n /\ c = p + m
    OBVIOUS
  <2>7. c <= b
    BY <2>2, <2>6
  <2>8. Waits = a - b /\ Waits' = a - c
    BY <2>4, <2>5, <2>6
  <2>9. a - b \in Int /\ a - c \in Int /\ a - c >= a - b
    BY <2>7
  <2> QED BY <2>8, <2>9
<1> QED BY <1>6, <1>22, <1>23, <1>25, PassingKept DEF Tallied

----------------------------------------------------------------------------
(* The counts are right when the world boots and after each step.          *)

\* The machine that boots runs the boot process, any other makes its busy-work.
LEMMA StartPlaces ==
    ASSUME SchedulerAssumption, Init, NEW v \in VMs
    PROVE  \/ v = Main /\ Here(v).of = Boot /\ ~ Here(v).idle /\ Here(v).makes = Nothing /\ Here(v).fn = "body"
           \/ /\ v # Main /\ Here(v).idle /\ Here(v).fn = "start"
              /\ Here(v).makes = IF v \in world.machines THEN Busy[v] ELSE Nothing
<1>0. /\ reg[v] = Boot /\ Boot \in Procs
      /\ \/ v # Main /\ v \notin world.machines /\ stack[v] = <<>>
         \/ v = Main /\ stack[v] = <<Body(Boot)>>
         \/ v # Main /\ v \in world.machines /\ stack[v] = StartBusyWork(v)
  BY DEF Init, SchedulerAssumption
<1>a. PICK E : E = {}
  OBVIOUS
<1>b. PICK x : x = <<>>
  OBVIOUS
<1>c. x \in Seq(Held(E))
  BY <1>b
<1>1. PICK z \in Seq(Held(E)) : z = <<>>
  BY <1>b, <1>c
<1>2. Peek(z) = Bottom /\ Seen(z) = z /\ Len(z) = 0 /\ ~ HasLead(z)
  BY <1>1 DEF Peek, Seen, Bottom, Frame, HasLead
<1>3. CASE v # Main /\ v \notin world.machines /\ stack[v] = <<>>
  <2>1. Lead(z).fn = "start" /\ Suspending(Lead(z)) /\ Runner(z) = Nothing
    <3>1. Lead(z).fn = "start" /\ Suspending(Lead(z))
      <4>1. PICK f : f = Frame("start", "disable")
        OBVIOUS
      <4>2. f.fn = "start" /\ f.next = Nothing
        BY <4>1 DEF Frame
      <4>3. Suspending(f)
        BY <4>2 DEF Suspending
      <4>4. Lead(z) = f
        BY <1>2, <4>1 DEF Lead
      <4> QED BY <4>2, <4>3, <4>4
    <3>2. Peek(z).fn = ""
      <4>1. PICK f : f = Frame("", "")
        OBVIOUS
      <4>2. f.fn = ""
        BY <4>1 DEF Frame
      <4> QED BY <1>2, <4>1, <4>2 DEF Bottom
    <3> QED BY <3>1, <3>2 DEF Runner, Pending
  <2>2. Here(v) = Place(z, Boot)
    BY <1>0, <1>1, <1>2, <1>3 DEF Here
  <2>3. Here(v).idle /\ Here(v).makes = Nothing /\ Here(v).fn = "start"
    BY <2>1, <2>2 DEF Place
  <2> QED BY <1>3, <2>3
<1>4. CASE v = Main /\ stack[v] = <<Body(Boot)>>
  <2>1. PICK f \in Held(E) : f = Body(Boot)
    BY <1>0, Newborn
  <2>2. f.fn = "body" /\ f.at = "call" /\ f.next = Nothing
    BY <2>1 DEF Body, Frame
  <2>3. ~ Skips(f) /\ ~ Pending(f) /\ ~ Suspending(f)
    BY <2>2 DEF Skips, Pending, Suspending
  <2>4. PICK s : s = <<f>> \o z
    OBVIOUS
  <2>5. s = stack[v]
    <3>1. s \in Seq(Held(E)) /\ Len(s) = 1 /\ s[1] = f
      BY <1>1, <1>2, <2>1, <2>4, OnTop
    <3>2. PICK u : u = <<f>>
      OBVIOUS
    <3>3. u \in Seq(Held(E)) /\ Len(u) = 1 /\ u[1] = f
      BY <2>1, <3>2
    <3>4. s = u
      BY <3>1, <3>3, SeqEqual
    <3> QED BY <1>4, <2>1, <3>2, <3>4
  <2>6. Seen(<<f>> \o z) = <<f>> \o z
    BY <1>1, <2>1, <2>2, SeenOn
  <2>7. PICK p \in Procs : p = Boot
    BY <1>0
  <2>8. PICK b : b = Place(<<f>> \o z, p)
    OBVIOUS
  <2>c. z \in Seq(Held(E)) /\ f \in Held(E) /\ p \in Procs
    BY <1>1, <2>1, <2>7
  <2>9. b.of = p /\ b.makes = Nothing /\ b.fn = "body" /\ ~ b.idle
    <3>1. /\ b.of = p
          /\ b.makes = IF Pending(f) THEN f.who
                       ELSE IF f.fn = "alarm" /\ f.next = Nothing /\ Pending(Peek(z)) THEN Peek(z).who
                       ELSE Nothing
      BY <2>c, <2>8, PlaceOn
    <3>2. b.fn = f.fn
      BY <2>c, <2>3, <2>8, PlaceOn
    <3>3. b.idle = Suspending(f)
      BY <2>c, <2>3, <2>8, PlaceOn
    <3>4. b.makes = Nothing
      BY <2>2, <2>3, <3>1
    <3> QED BY <2>2, <2>3, <3>1, <3>2, <3>3, <3>4
  <2>10. Here(v) = b
    BY <1>0, <2>4, <2>5, <2>6, <2>7, <2>8 DEF Here
  <2> QED BY <1>4, <2>7, <2>9, <2>10
<1>5. CASE v # Main /\ v \in world.machines /\ stack[v] = StartBusyWork(v)
  <2>1. PICK w \in Procs : w = Busy[v]
    BY <1>5 DEF SchedulerAssumption
  <2>2. PICK f \in Held(E) : f = RunFn(w)
    BY <2>1, Newborn
  <2>3. f.fn = "run" /\ f.at = "disable" /\ f.next = Nothing /\ f.who = w
    BY <2>2 DEF RunFn, Frame
  <2>4. PICK g : g = Frame("start", "disable")
    OBVIOUS
  <2>5. g \in Held(E) /\ g.fn = "start" /\ g.next = Nothing
    BY <2>4, Fresh DEF Points, Switchers
  <2>6. Skips(f) /\ Pending(f) /\ ~ Skips(g) /\ Suspending(g)
    BY <2>3, <2>5 DEF Skips, Pending, Suspending
  <2>a. PICK y : y = <<g>>
    OBVIOUS
  <2>b. y \in Seq(Held(E))
    BY <2>5, <2>a
  <2>7. PICK r \in Seq(Held(E)) : r = <<g>>
    BY <2>a, <2>b
  <2>8. Len(r) = 1 /\ r[1] = g /\ IsLead(r, 1)
    BY <2>5, <2>6, <2>7 DEF IsLead
  <2>9. Lead(r) = g
    <3>1. 1 \in 1 .. Len(r)
      BY <2>8
    <3> QED BY <2>7, <2>8, <3>1, LeadIs
  <2>10. <<f>> \o r = stack[v]
    <3>1. PICK s : s = <<f>> \o r
      OBVIOUS
    <3>2. PICK u : u = <<f, g>>
      OBVIOUS
    <3>3. s \in Seq(Held(E)) /\ Len(s) = Len(r) + 1 /\ s[1] = f /\ \A i \in 1 .. Len(r) : s[i + 1] = r[i]
      BY <2>2, <2>7, <2>8, <3>1, OnTop
    <3>4. Len(s) = 2 /\ s[2] = g
      BY <2>8, <3>3
    <3>5. u \in Seq(Held(E)) /\ Len(u) = 2 /\ u[1] = f /\ u[2] = g
      BY <2>2, <2>5, <3>2
    <3>6. s = u
      <4>1. Len(s) = Len(u) /\ \A i \in 1 .. Len(s) : s[i] = u[i]
        <5>1. Len(s) = 2 /\ s[1] = u[1] /\ s[2] = u[2] /\ Len(u) = 2
          BY <3>3, <3>4, <3>5
        <5>2. ASSUME NEW i \in 1 .. Len(s) PROVE s[i] = u[i]
          <6>1. i = 1 \/ i = 2
            BY <5>1
          <6> QED BY <5>1, <6>1
        <5> QED BY <5>1, <5>2
      <4> QED BY <3>3, <3>5, <4>1, SeqEqual
    <3> QED BY <1>5, <2>1, <2>2, <2>4, <3>1, <3>2, <3>6 DEF StartBusyWork
  <2>11. Seen(<<f>> \o r) = <<f>> \o r
    BY <2>2, <2>3, <2>7, SeenOn
  <2>12. PICK p \in Procs : p = Boot
    BY <1>0
  <2>13. PICK b : b = Place(<<f>> \o r, p)
    OBVIOUS
  <2>c. r \in Seq(Held(E)) /\ f \in Held(E) /\ p \in Procs
    BY <2>2, <2>7, <2>12
  <2>14. b.makes = w /\ b.fn = Lead(r).fn /\ b.idle = Suspending(Lead(r))
    <3>1. b.makes = IF Pending(f) THEN f.who
                    ELSE IF f.fn = "alarm" /\ f.next = Nothing /\ Pending(Peek(r)) THEN Peek(r).who
                    ELSE Nothing
      BY <2>c, <2>13, PlaceOn
    <3>2. b.fn = Lead(r).fn
      BY <2>c, <2>6, <2>13, PlaceOn
    <3>3. b.idle = Suspending(Lead(r))
      BY <2>c, <2>6, <2>13, PlaceOn
    <3> QED BY <2>3, <2>6, <3>1, <3>2, <3>3
  <2>15. Here(v) = b
    BY <1>0, <2>10, <2>11, <2>12, <2>13 DEF Here
  <2> QED BY <1>5, <2>1, <2>5, <2>6, <2>9, <2>14, <2>15
<1> QED BY <1>0, <1>3, <1>4, <1>5

\* At the start the counts are right.
LEMMA TalliedInit ==
    ASSUME SchedulerAssumption, MakersAssumption, Init
    PROVE  Tallied
<1>1. ASSUME NEW v \in VMs
      PROVE  \/ v = Main /\ Here(v).of = Boot /\ ~ Here(v).idle /\ Here(v).makes = Nothing /\ Here(v).fn = "body"
             \/ v # Main /\ Here(v).idle /\ Here(v).makes \in {Busy[v], Nothing} /\ Here(v).fn = "start"
  BY StartPlaces
<1>2. ASSUME NEW A PROVE Among(A) = Cardinality(Hosts(A)) /\ Cardinality(Hosts(A)) \in Nat
  <2>1. PICK z : z = <<>>
    OBVIOUS
  <2>2. Indices(z, A) = {}
    BY <2>1 DEF Indices
  <2>3. In(z, A) = 0
    BY <2>2, FS_EmptySet DEF In
  <2>4. Queued(A) = 0
    BY <2>1, <2>3 DEF Init, Queued, Dependants
  <2>5. Hosts(A) \in SUBSET VMs
    BY DEF Hosts
  <2>6. IsFiniteSet(Hosts(A))
    BY <2>5, FS_Subset DEF MakersAssumption
  <2>7. Cardinality(Hosts(A)) \in Nat
    BY <2>6, FS_CardinalityType
  <2> QED BY <2>4, <2>7 DEF Among
<1>3. Nothing \notin Procs /\ Boot \in Procs /\ Filler \in Procs /\ Boot # Filler
  BY DEF SchedulerAssumption, MakersAssumption
<1>4. ASSUME NEW q \in Procs, q # Boot PROVE Among(Alive(q)) = 0
  <2>1. Hosts(Alive(q)) = {}
    BY <1>1, <1>4 DEF Hosts, Alive
  <2> QED BY <1>2, <2>1, FS_EmptySet
<1>5. Among(Alive(Boot)) <= 1
  <2>1. Hosts(Alive(Boot)) \in SUBSET {Main}
    BY <1>1 DEF Hosts, Alive
  <2>2. IsFiniteSet({Main}) /\ Cardinality({Main}) = 1
    BY FS_Singleton
  <2>3. Cardinality(Hosts(Alive(Boot))) <= Cardinality({Main})
    BY <2>1, <2>2, FS_Subset
  <2> QED BY <1>2, <2>2, <2>3
<1>6. ASSUME NEW q \in Procs, \A v \in VMs \ {Main} : Busy[v] # q PROVE Among(Makers(q)) = 0
  <2>1. Hosts(Makers(q)) = {}
    BY <1>1, <1>3, <1>6 DEF Hosts, Makers
  <2> QED BY <1>2, <2>1, FS_EmptySet
<1>7. ASSUME NEW q \in Procs, NEW u \in VMs \ {Main}, Busy[u] = q PROVE Among(Makers(q)) <= 1
  <2>1. Hosts(Makers(q)) \in SUBSET {u}
    <3>1. ASSUME NEW v \in Hosts(Makers(q)) PROVE v = u
      <4>1. v \in VMs /\ Here(v).makes = q
        BY DEF Hosts, Makers
      <4>2. v # Main /\ Busy[v] = q
        BY <1>1, <1>3, <4>1
      <4> QED BY <1>7, <4>1, <4>2 DEF MakersAssumption
    <3> QED BY <3>1
  <2>2. IsFiniteSet({u}) /\ Cardinality({u}) = 1
    BY FS_Singleton
  <2>3. Cardinality(Hosts(Makers(q))) <= Cardinality({u})
    BY <2>1, <2>2, FS_Subset
  <2> QED BY <1>2, <2>2, <2>3
<1>8. Once
  <2>1. ASSUME NEW q \in Procs PROVE Sum(q) <= 1
    <3>1. Promised(q) \in {0, 1} /\ Among(Alive(q)) \in Nat /\ Among(Makers(q)) \in Nat
      BY <1>2 DEF Promised
    <3>2. CASE q = Boot
      <4>1. Promised(q) = 0
        BY <1>3, <3>2 DEF Promised, Unmade, Init
      <4>2. Among(Makers(q)) = 0
        BY <1>6, <3>2 DEF MakersAssumption
      <4> QED BY <1>5, <3>1, <3>2, <4>1, <4>2 DEF Sum
    <3>3. CASE q # Boot /\ \A v \in VMs \ {Main} : Busy[v] # q
      <4>1. Among(Alive(q)) = 0 /\ Among(Makers(q)) = 0
        BY <1>4, <1>6, <3>3
      <4> QED BY <3>1, <4>1 DEF Sum
    <3>4. CASE q # Boot /\ ~ \A v \in VMs \ {Main} : Busy[v] # q
      <4>1. PICK u \in VMs \ {Main} : Busy[u] = q
        BY <3>4
      <4>2. Among(Alive(q)) = 0 /\ Among(Makers(q)) <= 1
        BY <1>4, <1>7, <3>4, <4>1
      <4>3. q # Filler
        BY <4>1 DEF MakersAssumption
      <4>4. Promised(q) = 0
        BY <4>1, <4>3 DEF Promised, Unmade
      <4> QED BY <3>1, <4>2, <4>4 DEF Sum
    <3> QED BY <3>2, <3>3, <3>4
  <2> QED BY <2>1 DEF Once
<1>9. Phase
  BY DEF Phase, Init
<1>10. Passing
  <2>1. Hosts(Passers) = {}
    BY <1>1 DEF Hosts, Passers
  <2>2. Among(Passers) = 0
    BY <1>2, <2>1, FS_EmptySet
  <2>3. Waits = 0
    BY <2>2 DEF Waits, Init
  <2>4. Len(semQ) = 0
    BY DEF Init
  <2> QED BY <2>3, <2>4 DEF Passing
<1> QED BY <1>8, <1>9, <1>10 DEF Tallied

\* No step makes them wrong, while start finds an entry.
LEMMA TalliedNext ==
    ASSUME SchedulerAssumption, MakersAssumption, EntriesAreSomething, AlarmsAlone,
           IInv, IInv', NeverIdle, Continuing, Tallied, [Next]_vars
    PROVE  Tallied'
<1>1. PICK E : Whole(E)
  BY DEF Continuing
<1>2. /\ reg \in [VMs -> Procs] /\ world \in Worlds /\ value \in Int /\ Balanced /\ log \in Logs /\ Answered
      /\ scheduled \in BOOLEAN
  BY DEF IInv, Base
<1>3. value' \in Int /\ log' \in Logs
  BY DEF IInv, Base
<1>4. Phase
  BY DEF Tallied
<1>5. ASSUME Fewer, value' = value, semQ' = semQ, scheduled => scheduled', unborn' = unborn,
             log'.filled = log.filled, log'.delivered = log.delivered, log'.passed = log.passed, log'.signals = log.signals
      PROVE  Tallied'
  <2>1. log'.signals - value' = log.signals - value
    BY <1>5
  <2>2. unborn' \subseteq unborn
    BY <1>5
  <2> QED BY <1>1, <1>2, <1>3, <1>5, <2>1, <2>2, QuietKept
<1>6. ASSUME NEW v \in VMs, Step(v) \/ Tick(v) PROVE Tallied'
  <2>1. CASE DisableAlarms(v) \/ AcquireScheduler(v) \/ ReleaseScheduler(v) \/ EnableAlarms(v)
    <3>1. Fewer
      BY <1>1, <1>2, <2>1, FewerScheduler
    <3> QED BY <1>5, <2>1, <3>1 DEF DisableAlarms, AcquireScheduler, ReleaseScheduler, EnableAlarms, semaphore, future, program
  <2>2. CASE Pause(v) \/ Start(v) \/ Go(v)
    <3>1. Fewer
      BY <1>1, <1>2, <2>2, FewerSwitch
    <3> QED BY <1>5, <2>2, <3>1 DEF Pause, Start, Go, SwitchTo, semaphore, future, program
  <2>3. CASE ProcessRunFn(v)
    BY <1>1, <1>2, <2>3, RunningCounts
  <2>4. CASE Alarm(v) \/ AcquireMutex(v) \/ Tick(v)
    <3>1. Fewer
      BY <1>1, <1>2, <2>4, FewerAlarm
    <3> QED BY <1>5, <2>4, <3>1 DEF Alarm, AcquireMutex, Tick, semaphore, future, program
  <2>5. CASE Wait(v)
    BY <1>1, <1>2, <2>5, WaitingCounts
  <2>6. CASE ReleaseWait(v) \/ Block(v) \/ ReleaseSignal(v)
    <3>1. Fewer
      BY <1>1, <1>2, <2>6, FewerSemaphore
    <3> QED BY <1>5, <2>6, <3>1 DEF ReleaseWait, Block, ReleaseSignal, ReleaseMutex, semaphore, future, program
  <2>7. CASE WaitReturns(v)
    BY <1>1, <1>2, <2>7, PassingCounts
  <2>8. CASE Signal(v)
    <3>1. Fewer
      BY <1>1, <1>2, <2>8, FewerSemaphore
    <3>2. semQ' = semQ \/ (semQ # <<>> /\ semQ' = Tail(semQ))
      <4>1. CASE value' <= 0
        <5>1. Len(semQ) # 0
          BY <1>2, <2>8, <4>1 DEF Signal, Balanced
        <5> QED BY <2>8, <4>1, <5>1 DEF Signal
      <4>2. CASE ~ (value' <= 0)
        BY <2>8, <4>2 DEF Signal
      <4> QED BY <4>1, <4>2
    <3>3. /\ value' = value + 1 /\ log'.signals = log.signals + 1 /\ log'.filled = log.filled
          /\ log'.delivered = log.delivered /\ log'.passed = log.passed /\ scheduled' = scheduled /\ unborn' \subseteq unborn
      BY <1>2, <2>8 DEF Signal, Logs, future, program
    <3>4. log'.signals - value' = log.signals - value
      <4>1. PICK s \in Int, w \in Int : s = log.signals /\ w = value
        BY <1>2 DEF Logs
      <4> QED BY <3>3, <4>1
    <3> QED BY <1>1, <1>2, <1>3, <3>1, <3>2, <3>3, <3>4, QuietKept
  <2>9. CASE Drain(v) \/ TestFlag(v) \/ ForceReturns(v) \/ ReleaseForce(v) \/ (Claim(v) /\ scheduled)
    <3>1. Fewer
      BY <1>1, <1>2, <2>9, FewerForce
    <3>2. /\ log'.filled = log.filled /\ log'.delivered = log.delivered /\ log'.passed = log.passed
          /\ log'.signals = log.signals
      <4>1. CASE ForceReturns(v)
        BY <1>2, <4>1 DEF ForceReturns, Logs
      <4>2. CASE ~ ForceReturns(v)
        BY <2>9, <4>2 DEF Drain, TestFlag, ReleaseForce, Claim
      <4> QED BY <4>1, <4>2
    <3>3. value' = value /\ semQ' = semQ /\ (scheduled => scheduled') /\ unborn' = unborn
      BY <2>9 DEF Drain, TestFlag, ForceReturns, ReleaseForce, Claim, ReleaseMutex, semaphore, future, program
    <3> QED BY <1>5, <3>1, <3>2, <3>3
  <2>10. CASE Claim(v) /\ ~ scheduled
    BY <1>1, <1>2, <2>10, ClaimCounts
  <2>11. CASE ForceFallsThrough(v)
    BY <1>1, <1>2, <2>11, WholeForce
  <2>12. CASE ComputeValue(v)
    BY <1>1, <1>2, <2>12, FillingCounts
  <2>13. CASE SetValue(v) \/ ReleaseValue(v)
    <3>1. Fewer
      BY <1>1, <1>2, <1>4, <2>13, FewerFill
    <3> QED BY <1>5, <2>13, <3>1 DEF SetValue, ReleaseValue, ReleaseMutex, semaphore, future, program
  <2>14. CASE AppendDependants(v)
    BY <1>1, <1>2, <2>14, GivingCounts
  <2>15. CASE Perform(v)
    <3>1. stack[v] # <<>> /\ Top(v).fn \in {"body", "fill"}
      BY <2>15 DEF Perform, At, Top
    <3>2. Top(v).who = reg[v] /\ reg[v] \in Procs
      BY <1>1, <1>2, <3>1, OnMachine DEF Good
    <3>3. PICK p \in Procs : p = Top(v).who
      BY <3>2
    <3>4. CASE \E op \in world.calls[p] \ {"run"} : Become(v, <<CallFrame(op)>> \o stack[v]) /\ UNCHANGED unborn
      <4>1. \E op \in {"wait", "signal", "force"} : Become(v, <<CallFrame(op)>> \o stack[v])
        BY <1>2, <3>4 DEF SchedulerAssumption, Operations
      <4>2. Fewer
        BY <1>1, <1>2, <2>15, <4>1, FewerProgram
      <4> QED BY <1>5, <2>15, <3>4, <4>2 DEF Perform, semaphore, future
    <3>5. CASE \E q \in world.makes[p] \cap unborn : unborn' = unborn \ {q} /\ Become(v, <<RunFn(q)>> \o stack[v])
      <4>1. PICK q \in world.makes[p] \cap unborn : unborn' = unborn \ {q} /\ Become(v, <<RunFn(q)>> \o stack[v])
        BY <3>5
      <4>2. q \in Procs
        BY <1>2, <3>3 DEF SchedulerAssumption
      <4> QED BY <1>1, <1>2, <2>15, <3>3, <4>1, <4>2, PerformCounts
    <3> QED BY <2>15, <3>3, <3>4, <3>5 DEF Perform
  <2>16. CASE Finish(v)
    <3>1. Fewer
      BY <1>1, <1>2, <2>16, FewerProgram
    <3> QED BY <1>5, <2>16, <3>1 DEF Finish, semaphore, future, program
  <2> QED BY <1>6, <2>1, <2>2, <2>3, <2>4, <2>5, <2>6, <2>7, <2>8, <2>9, <2>10, <2>11, <2>12, <2>13, <2>14, <2>15, <2>16 DEF Step
<1>7. CASE UNCHANGED vars
  <2>1. UNCHANGED <<stack, reg, queue, semQ, dependantsQ, log, value, scheduled, unborn>>
    BY <1>7 DEF vars, semaphore, future, program
  <2>2. Fewer
    BY <1>1, <2>1, Unmoved
  <2> QED BY <1>5, <2>1, <2>2
<1> QED BY <1>6, <1>7 DEF Next

----------------------------------------------------------------------------
(* What the counts say of the properties.                                  *)

\* The frame that says what a process does is one of its stack.
LEMMA LeadHeld ==
    ASSUME NEW E, NEW s \in Seq(Held(E)), HasLead(s)
    PROVE  Lead(s) \in Held(E)
<1>1. PICK i \in 1 .. Len(s) : IsLead(s, i)
  BY DEF HasLead
<1>2. Lead(s) = s[i]
  BY <1>1, LeadIs
<1> QED BY <1>2

\* Where a process goes on, it is alive; so is it where it is about to be found.
LEMMA Occupies ==
    ASSUME NEW E, Stored(E), NEW s \in Seq(Held(E)), NEW p \in Procs, Occupied(s)
    PROVE  Place(s, p) \in Alive(p) /\ Place(Seen(s), p) \in Alive(p)
<1>1. PICK f : f = Lead(s)
  OBVIOUS
<1>2. PICK g : g = IF f.next = Nothing THEN f ELSE Lead(f.next.stack)
  OBVIOUS
<1>3. ~ Suspending(g)
  BY <1>1, <1>2 DEF Occupied
<1>4. ~ Suspending(f)
  <2>1. CASE f.next = Nothing
    BY <1>2, <1>3, <2>1
  <2>2. CASE f.next # Nothing
    <3>1. HasLead(s)
      <4>1. CASE ~ HasLead(s)
        <5>1. f = Frame("start", "disable")
          BY <1>1, <4>1 DEF Lead
        <5> QED BY <2>2, <5>1 DEF Frame
      <4> QED BY <4>1
    <3>2. f \in Held(E)
      BY <1>1, <3>1, LeadHeld
    <3>3. f.at \in {"release", "enable", "go"}
      BY <2>2, <3>2 DEF Held
    <3> QED BY <2>2, <3>3 DEF Suspending
  <2> QED BY <2>1, <2>2
<1>5. Place(s, p) \in Alive(p)
  <2>1. Place(s, p) \in Places /\ Place(s, p).of = p /\ Place(s, p).idle = Suspending(f)
    BY <1>1, PlaceIn
  <2> QED BY <1>4, <2>1 DEF Alive
<1>6. Place(Seen(s), p) \in Alive(p)
  <2>1. CASE Peek(s).next = Nothing
    BY <1>5, <2>1 DEF Seen
  <2>2. CASE Peek(s).next # Nothing
    <3>1. s # <<>>
      <4>1. Bottom.next = Nothing
        BY DEF Bottom, Frame
      <4> QED BY <2>2, <4>1 DEF Peek
    <3>2. Len(s) \in Nat /\ 1 \in 1 .. Len(s) /\ Peek(s) = s[1]
      BY <3>1, EmptySeq DEF Peek
    <3>3. IsLead(s, 1)
      BY <2>2, <3>2 DEF IsLead, Skips
    <3>4. f = Peek(s)
      BY <1>1, <3>2, <3>3, LeadIs
    <3>5. Seen(s) = f.next.stack /\ g = Lead(Seen(s))
      BY <1>2, <2>2, <3>4 DEF Seen
    <3>6. Seen(s) \in Seq(Held(E))
      BY SeenIn
    <3>7. PICK t \in Seq(Held(E)) : t = Seen(s)
      BY <3>6
    <3>8. Place(t, p) \in Places /\ Place(t, p).of = p /\ Place(t, p).idle = Suspending(Lead(t))
      BY <3>7, PlaceIn
    <3>9. ~ Suspending(Lead(t))
      BY <1>3, <3>5, <3>7
    <3> QED BY <3>7, <3>8, <3>9 DEF Alive
  <2> QED BY <2>1, <2>2
<1> QED BY <1>5, <1>6

\* The entries of a queue that hold process q are among those where it is alive.
LEMMA HoldsAlive ==
    ASSUME SchedulerAssumption, NEW E, Stored(E), NEW z \in Seq(E), NEW q \in Procs
    PROVE  Cardinality(Holding(z, q)) \in Nat /\ Cardinality(Holding(z, q)) <= In(z, Alive(q)) /\ In(z, Alive(q)) \in Nat
<1>1. Holding(z, q) \in SUBSET Indices(z, Alive(q))
  <2>1. ASSUME NEW i \in Holding(z, q) PROVE i \in Indices(z, Alive(q))
    <3>1. i \in 1 .. Len(z) /\ z[i] \in E /\ z[i].proc = q /\ Occupied(z[i].stack)
      BY DEF Holding
    <3>2. z[i].stack \in Seq(Held(E)) /\ z[i].proc \in Procs
      BY <3>1 DEF Stored
    <3>3. Place(z[i].stack, z[i].proc) \in Alive(z[i].proc)
      BY <3>1, <3>2, Occupies
    <3> QED BY <3>1, <3>3 DEF Indices, Spot
  <2> QED BY <2>1
<1>2. IsFiniteSet(Indices(z, Alive(q))) /\ In(z, Alive(q)) \in Nat
  BY InNat
<1>3. IsFiniteSet(Holding(z, q)) /\ Cardinality(Holding(z, q)) <= Cardinality(Indices(z, Alive(q)))
  BY <1>1, <1>2, FS_Subset
<1>4. Cardinality(Holding(z, q)) \in Nat
  BY <1>3, FS_CardinalityType
<1> QED BY <1>2, <1>3, <1>4 DEF In

\* So are the machines that run it among those where it is alive.
LEMMA RunsAlive ==
    ASSUME SchedulerAssumption, MakersAssumption, NEW E, Whole(E), reg \in [VMs -> Procs], NEW q \in Procs
    PROVE  Cardinality(RunningOn(q)) \in Nat /\ Cardinality(RunningOn(q)) <= Cardinality(Hosts(Alive(q)))
           /\ Cardinality(Hosts(Alive(q))) \in Nat
<1>1. RunningOn(q) \in SUBSET Hosts(Alive(q))
  <2>1. ASSUME NEW v \in RunningOn(q) PROVE v \in Hosts(Alive(q))
    <3>1. v \in VMs /\ reg[v] = q /\ Occupied(stack[v])
      BY DEF RunningOn
    <3>2. stack[v] \in Seq(Held(E)) /\ reg[v] \in Procs /\ Stored(E)
      BY <3>1 DEF Whole, Active
    <3>3. Place(Seen(stack[v]), reg[v]) \in Alive(reg[v])
      BY <3>1, <3>2, Occupies
    <3> QED BY <3>1, <3>3 DEF Hosts, Here
  <2> QED BY <2>1
<1>2. Hosts(Alive(q)) \in SUBSET VMs
  BY DEF Hosts
<1>3. IsFiniteSet(Hosts(Alive(q)))
  BY <1>2, FS_Subset DEF MakersAssumption
<1>4. IsFiniteSet(RunningOn(q)) /\ Cardinality(RunningOn(q)) <= Cardinality(Hosts(Alive(q)))
  BY <1>1, <1>3, FS_Subset
<1> QED BY <1>3, <1>4, FS_CardinalityType

----------------------------------------------------------------------------
(* The theorems.                                                           *)

\* While start finds an entry, the counts are right.
LEMMA Tallies ==
    ASSUME SchedulerAssumption, MakersAssumption, EntriesAreSomething, AlarmsAlone
    PROVE  Spec /\ []NeverIdle => [](IInv /\ Continuing /\ Tallied)
<1>1. Init => Tallied
  BY TalliedInit
<1>2. IInv /\ IInv' /\ NeverIdle /\ Continuing /\ Tallied /\ [Next]_vars => Tallied'
  BY TalliedNext
<1> QED BY <1>1, <1>2, Invariance, Continuations, PTL DEF Spec

\* While start finds an entry to run, a process goes on in one place only: on one machine, or as one entry of
\* one queue, whichever machines suspend it, queue it and resume it.
THEOREM RunsInOnePlace ==
    ASSUME SchedulerAssumption, MakersAssumption, EntriesAreSomething, AlarmsAlone
    PROVE  Spec /\ []NeverIdle => []RunsOnce
<1>1. ASSUME IInv, Continuing, Tallied PROVE RunsOnce
  <2>1. PICK E : Whole(E)
    BY <1>1 DEF Continuing
  <2>2. reg \in [VMs -> Procs]
    BY <1>1 DEF IInv, Base
  <2>3. ASSUME NEW q \in Procs
        PROVE  Cardinality(RunningOn(q)) + Cardinality(Holding(queue, q)) + Cardinality(Holding(semQ, q))
                 + (IF log.delivered THEN 0 ELSE Cardinality(Holding(dependantsQ, q))) <= 1
    <3>1. Stored(E) /\ queue \in Seq(E) /\ semQ \in Seq(E) /\ dependantsQ \in Seq(E)
      BY <2>1 DEF Whole
    <3>2. PICK r \in Nat, h \in Nat : /\ r = Cardinality(RunningOn(q)) /\ h = Cardinality(Hosts(Alive(q))) /\ r <= h
      BY <2>1, <2>2, RunsAlive
    <3>3. PICK a \in Nat, b \in Nat : a = Cardinality(Holding(queue, q)) /\ b = In(queue, Alive(q)) /\ a <= b
      BY <3>1, HoldsAlive
    <3>4. PICK c \in Nat, d \in Nat : c = Cardinality(Holding(semQ, q)) /\ d = In(semQ, Alive(q)) /\ c <= d
      BY <3>1, HoldsAlive
    <3>5. PICK x \in Nat, y \in Nat : x = Cardinality(Holding(dependantsQ, q)) /\ y = In(dependantsQ, Alive(q)) /\ x <= y
      BY <3>1, HoldsAlive
    <3>6. Among(Alive(q)) = h + (b + d + (IF log.delivered THEN 0 ELSE y))
      BY <3>2, <3>3, <3>4, <3>5 DEF Among, Queued, Dependants
    <3>7. Among(Alive(q)) <= 1
      <4>1. Among(Alive(q)) \in Nat /\ Among(Makers(q)) \in Nat
        BY <2>1, AmongMore DEF MakersAssumption, Whole
      <4>2. Promised(q) \in {0, 1}
        BY DEF Promised
      <4>3. Sum(q) <= 1
        BY <1>1 DEF Tallied, Once
      <4>4. Sum(q) = Among(Alive(q)) + Among(Makers(q)) + Promised(q)
        BY DEF Sum
      <4> QED BY <4>1, <4>2, <4>3, <4>4
    <3> QED BY <3>2, <3>3, <3>4, <3>5, <3>6, <3>7
  <2> QED BY <2>3 DEF RunsOnce
<1> QED BY <1>1, Tallies, PTL

\* While start finds an entry to run, the body of a future is run at most once: the filler is made by the
\* process that has claimed the future, and no entry of it is run twice.
THEOREM FilledAtMostOnce ==
    ASSUME SchedulerAssumption, MakersAssumption, EntriesAreSomething, AlarmsAlone
    PROVE  Spec /\ []NeverIdle => []FilledOnce
<1>1. Tallied => FilledOnce
  BY DEF Tallied, Phase, FilledOnce
<1> QED BY <1>1, Tallies, PTL

\* Both: the future is computed once, and whoever forces it gets what was computed.
THEOREM FutureAnswers ==
    ASSUME SchedulerAssumption, MakersAssumption, EntriesAreSomething, AlarmsAlone
    PROVE  Spec /\ []NeverIdle => []FutureAnswersOnce
<1>1. FilledOnce /\ ForceGivesValue => FutureAnswersOnce
  BY DEF FutureAnswersOnce
<1> QED BY <1>1, FilledAtMostOnce, ForceReturnsValue, PTL

\* While start finds an entry to run, no process passes a semaphore without a signal: those that have passed,
\* those that wait in its queue and those that are to pass are as many as have waited.
THEOREM WaitersPassOnSignals ==
    ASSUME SchedulerAssumption, MakersAssumption, EntriesAreSomething, AlarmsAlone
    PROVE  Spec /\ []NeverIdle => []WaitersSignalled
<1>1. ASSUME IInv, Continuing, Tallied PROVE WaitersSignalled
  <2>1. PICK E : Whole(E)
    BY <1>1 DEF Continuing
  <2>2. log \in Logs /\ value \in Int /\ Balanced
    BY <1>1 DEF IInv, Base
  <2>3. Len(semQ) \in Nat /\ In(semQ, Passers) = Len(semQ)
    <3>1. Len(semQ) \in Nat
      BY <2>1, LenProperties DEF Whole
    <3>2. Indices(semQ, Passers) = 1 .. Len(semQ)
      BY <1>1 DEF Tallied, Passing, Indices
    <3>3. Cardinality(1 .. Len(semQ)) = Len(semQ)
      <4>1. PICK n \in Nat : n = Len(semQ)
        BY <3>1
      <4>2. PICK o \in Int : o = 1
        OBVIOUS
      <4>3. Cardinality(o .. n) = IF o > n THEN 0 ELSE n - o + 1
        BY <4>1, FS_Interval
      <4> QED BY <4>1, <4>2, <4>3
    <3> QED BY <3>1, <3>2, <3>3 DEF In
  <2>4. In(queue, Passers) \in Nat /\ Dependants(Passers) \in Nat
    BY <2>1, InNat DEF Whole, Dependants
  <2>5. Cardinality(Hosts(Passers)) \in Nat
    <3>1. Hosts(Passers) \in SUBSET VMs
      BY DEF Hosts
    <3>2. IsFiniteSet(Hosts(Passers))
      BY <3>1, FS_Subset DEF MakersAssumption
    <3> QED BY <3>2, FS_CardinalityType
  <2>6. PICK n \in Nat : n = Among(Passers) /\ n >= Len(semQ)
    <3>1. PICK l \in Nat, h \in Nat, a \in Nat, d \in Nat :
            l = Len(semQ) /\ h = Cardinality(Hosts(Passers)) /\ a = In(queue, Passers) /\ d = Dependants(Passers)
      BY <2>3, <2>4, <2>5
    <3>2. Among(Passers) = h + (a + l + d)
      BY <2>3, <3>1 DEF Among, Queued
    <3> QED BY <3>1, <3>2
  <2>7. PICK s \in Int, p \in Int, y \in Int : s = log.signals /\ p = log.passed /\ y = value
    BY <2>2 DEF Logs
  <2>8. (s - y) - (p + n) >= 0
    BY <1>1, <2>6, <2>7 DEF Tallied, Passing, Waits
  <2>9. n + y >= 0
    BY <2>2, <2>3, <2>6, <2>7 DEF Balanced
  <2>10. p <= s
    BY <2>8, <2>9
  <2> QED BY <2>7, <2>10 DEF WaitersSignalled
<1> QED BY <1>1, Tallies, PTL

----------------------------------------------------------------------------
(* That there is always another process.                                   *)

\* The process that keeps a machine busy.
Own(v) == IF v = Main THEN Boot ELSE Busy[v]
\* Such a process comes back to the queue for ever.  It calls nothing that might suspend it, but
\* that the boot process may force the future; then the body of the future does not suspend itself.
Unblocked(q) == world.calls[q] \subseteq IF q = Boot THEN {"run", "signal", "force"} ELSE {"run", "signal"}
IdleWork == /\ \A v \in world.machines : Own(v) \in Idlers /\ Unblocked(Own(v))
            /\ Unblocked(Filler)
Steady   == {Own(v) : v \in world.machines}

\* A place keeps at most one process going: its own, or, while that waits or has suspended
\* itself, the one that it is about to make.  Nothing stands for the filler that is to be claimed.
Serving(a, q) == IF Awake(a) THEN a.of = q ELSE a.makes = q /\ (q = Nothing => Claiming(a))
Someone       == Procs \cup {Nothing}

Entered(q) == \E i \in 1 .. Len(queue) : Serving(Spot(queue[i]), q)
Kept(q)    == Entered(q) \/ \E v \in VMs : Serving(Here(v), q)
\* The boot process has suspended itself on the future.
Delegated  == ~ log.delivered /\ \E i \in 1 .. Len(dependantsQ) : Serving(Spot(dependantsQ[i]), Boot)
\* The work of every machine is kept going; if the boot process is not, the filler is, or is to be claimed.
AllWork    ==
    /\ \A q \in Steady : Kept(q) \/ (q = Boot /\ Delegated)
    /\ scheduled /\ ~ log.delivered => Kept(Filler)
    /\ Delegated /\ ~ scheduled => Kept(Nothing)

LEMMA SteadyIs ==
    ASSUME SchedulerAssumption, MakersAssumption, IdleWork, world \in Worlds, NEW q \in Steady
    PROVE  q \in Procs /\ q # Filler /\ q # Nothing /\ q \in Idlers /\ Unblocked(q)
<1>1. PICK v \in world.machines : q = Own(v)
  BY DEF Steady
<1>2. v \in VMs
  BY DEF SchedulerAssumption
<1>3. q \in Procs /\ q # Filler
  <2>1. CASE v = Main
    BY <1>1, <2>1 DEF Own, SchedulerAssumption, MakersAssumption
  <2>2. CASE v # Main
    BY <1>1, <1>2, <2>2 DEF Own, SchedulerAssumption, MakersAssumption
  <2> QED BY <2>1, <2>2
<1> QED BY <1>1, <1>3 DEF IdleWork, SchedulerAssumption

\* Whom a place serves the place that it goes on to serves too.
LEMMA ServesOn ==
    ASSUME NEW a, NEW b, Onward(b, a), NEW q, Serving(b, q)
    PROVE  Serving(a, q)
<1>1. CASE Awake(b)
  BY <1>1 DEF Onward, Serving
<1>2. CASE ~ Awake(b) /\ q # Nothing
  BY <1>2 DEF Onward, Serving
<1>3. CASE ~ Awake(b) /\ q = Nothing
  <2>1. Claiming(a)
    BY <1>3 DEF Onward, Serving
  <2> QED BY <1>3, <2>1 DEF Serving, Claiming, Awake
<1> QED BY <1>1, <1>2, <1>3

\* An entry is added to the scheduler's queue.
LEMMA EntersLast ==
    ASSUME NEW X, queue \in Seq(X), NEW e \in X, queue' = Append(queue, e), NEW q
    PROVE  (Entered(q) => Entered(q)') /\ (Serving(Spot(e), q) => Entered(q)')
<1>1. /\ queue' \in Seq(X) /\ Len(queue') = Len(queue) + 1 /\ Len(queue) \in Nat
      /\ \A i \in 1 .. Len(queue) : queue'[i] = queue[i]
      /\ queue'[Len(queue) + 1] = e
  BY AppendProperties, LenProperties
<1>2. ASSUME NEW i \in 1 .. Len(queue), Serving(Spot(queue[i]), q) PROVE Entered(q)'
  <2>1. i \in 1 .. Len(queue') /\ queue'[i] = queue[i]
    BY <1>1
  <2>2. Serving(Spot(queue'[i]), q)
    BY <1>2, <2>1
  <2> QED BY <2>1, <2>2 DEF Entered, Spot
<1>3. ASSUME Serving(Spot(e), q) PROVE Entered(q)'
  <2>1. Len(queue) + 1 \in 1 .. Len(queue')
    BY <1>1
  <2> QED BY <1>1, <1>3, <2>1 DEF Entered, Spot
<1> QED BY <1>2, <1>3 DEF Entered

\* Several entries are.
LEMMA EnterLast ==
    ASSUME NEW X, queue \in Seq(X), NEW z \in Seq(X), queue' = queue \o z, NEW q, Entered(q)
    PROVE  Entered(q)'
<1>1. /\ queue' \in Seq(X) /\ Len(queue') = Len(queue) + Len(z) /\ Len(queue) \in Nat /\ Len(z) \in Nat
      /\ \A i \in 1 .. Len(queue) : queue'[i] = queue[i]
  BY ConcatProperties, LenProperties
<1>2. PICK i \in 1 .. Len(queue) : Serving(Spot(queue[i]), q)
  BY DEF Entered
<1>3. i \in 1 .. Len(queue') /\ queue'[i] = queue[i]
  BY <1>1
<1> QED BY <1>2, <1>3 DEF Entered, Spot

\* The first one is taken.
LEMMA LeavesFirst ==
    ASSUME NEW X, NEW z \in Seq(X), z # <<>>, queue' = Tail(z), NEW q, NEW i \in 1 .. Len(z), Serving(Spot(z[i]), q)
    PROVE  Serving(Spot(Head(z)), q) \/ Entered(q)'
<1>1. /\ Len(z) \in Nat \ {0} /\ Len(Tail(z)) = Len(z) - 1 /\ Head(z) = z[1]
      /\ \A j \in 1 .. Len(Tail(z)) : Tail(z)[j] = z[j + 1]
  BY EmptySeq, HeadTailProperties
<1>2. CASE i = 1
  BY <1>1, <1>2
<1>3. CASE i # 1
  <2>1. i - 1 \in 1 .. Len(Tail(z)) /\ (i - 1) + 1 = i
    BY <1>1, <1>3
  <2>2. Tail(z)[i - 1] = z[i]
    BY <1>1, <2>1
  <2>3. i - 1 \in 1 .. Len(queue') /\ Serving(Spot(queue'[i - 1]), q)
    BY <2>1, <2>2
  <2> QED BY <2>3 DEF Entered, Spot
<1> QED BY <1>2, <1>3

\* A step of machine v.
LEMMA StillKept ==
    ASSUME NEW v \in VMs, \A u \in VMs \ {v} : stack'[u] = stack[u] /\ reg'[u] = reg[u], NEW q,
           Entered(q) => Kept(q)', Serving(Here(v), q) => Kept(q)', Kept(q)
    PROVE  Kept(q)'
<1>1. CASE Entered(q)
  BY <1>1
<1>2. CASE Serving(Here(v), q)
  BY <1>2
<1>3. ASSUME NEW u \in VMs \ {v}, Serving(Here(u), q) PROVE Kept(q)'
  <2>1. Here(u)' = Here(u)
    BY DEF Here
  <2>2. Serving(Here(u), q)'
    BY <1>3, <2>1 DEF Serving, Awake, Given, Claiming
  <2> QED BY <2>2 DEF Kept
<1> QED BY <1>1, <1>2, <1>3 DEF Kept

\* A machine that goes on with stack s, in a place that serves whom it has served.
LEMMA GoesOnward ==
    ASSUME SchedulerAssumption, NEW E, Whole(E), reg \in [VMs -> Procs], NEW v \in VMs, NEW s \in Seq(Held(E)),
           Become(v, s), reg' = reg, Onward(Place(Seen(stack[v]), reg[v]), Place(Seen(s), reg[v])),
           NEW q, Entered(q) => Kept(q)', Kept(q)
    PROVE  Kept(q)'
<1>1. stack \in [VMs -> Seq(Held(E))]
  BY DEF Whole, Active
<1>2. stack'[v] = s /\ \A u \in VMs \ {v} : stack'[u] = stack[u] /\ reg'[u] = reg[u]
  BY <1>1 DEF Become
<1>3. Here(v)' = Place(Seen(s), reg[v]) /\ Here(v) = Place(Seen(stack[v]), reg[v])
  BY <1>2 DEF Here
<1>4. ASSUME Serving(Here(v), q) PROVE Kept(q)'
  <2>1. Serving(Here(v)', q)
    BY <1>3, <1>4, ServesOn
  <2> QED BY <2>1 DEF Kept, Serving, Awake, Given, Claiming
<1> QED BY <1>2, <1>4, StillKept

\* The frame on top, with h instead of f.
LEMMA OnwardTop ==
    ASSUME NEW E, NEW p \in Procs, NEW f \in Held(E), NEW h \in Held(E), NEW r \in Seq(Held(E)),
           h.fn = f.fn, h.next = f.next, h.who = f.who, Pending(f) <=> Pending(h),
           Suspending(h) => Suspending(f) \/ f.fn = "wait", f.fn = "force" /\ Suspending(f) => Suspending(h),
           f.fn = "append" /\ h.at \in {"release", "enable"} => f.at \in {"release", "enable"}
    PROVE  Onward(Place(Seen(<<f>> \o r), p), Place(Seen(<<h>> \o r), p))
<1>1. CASE f.next # Nothing
  <2>1. Seen(<<f>> \o r) = f.next.stack /\ Seen(<<h>> \o r) = f.next.stack
    BY <1>1, SeenOn
  <2> QED BY <2>1 DEF Onward
<1>2. CASE f.next = Nothing
  <2>1. PICK b : b = Place(<<f>> \o r, p)
    OBVIOUS
  <2>2. PICK a : a = Place(<<h>> \o r, p)
    OBVIOUS
  <2>3. Seen(<<f>> \o r) = <<f>> \o r /\ Seen(<<h>> \o r) = <<h>> \o r
    <3>1. Seen(<<f>> \o r) = <<f>> \o r
      BY <1>2, SeenOn
    <3>2. h.next = Nothing
      BY <1>2
    <3>3. Seen(<<h>> \o r) = <<h>> \o r
      BY <3>2, SeenOn
    <3> QED BY <3>1, <3>3
  <2>4. /\ b.of = p /\ b.makes = (IF Pending(f) THEN f.who ELSE IF f.fn = "alarm" /\ Pending(Peek(r)) THEN Peek(r).who ELSE Nothing)
        /\ (Skips(f) => b.fn = Lead(r).fn /\ b.at = Lead(r).at /\ b.idle = Suspending(Lead(r)))
        /\ (~ Skips(f) => b.fn = f.fn /\ b.at = f.at /\ b.idle = Suspending(f))
    BY <1>2, <2>1, PlaceOn
  <2>5. /\ a.of = p /\ a.makes = (IF Pending(h) THEN h.who ELSE IF h.fn = "alarm" /\ Pending(Peek(r)) THEN Peek(r).who ELSE Nothing)
        /\ (Skips(h) => a.fn = Lead(r).fn /\ a.at = Lead(r).at /\ a.idle = Suspending(Lead(r)))
        /\ (~ Skips(h) => a.fn = h.fn /\ a.at = h.at /\ a.idle = Suspending(h))
    BY <1>2, <2>2, PlaceOn
  <2>6. Skips(h) <=> Skips(f)
    BY DEF Skips
  <2>7. a.makes = b.makes /\ (b.makes # Nothing => Skips(f))
    <3>1. Pending(f) \/ f.fn = "alarm" => Skips(f)
      BY <1>2 DEF Skips, Pending
    <3>2. a.makes = b.makes
      BY <2>4, <2>5
    <3> QED BY <2>4, <3>1, <3>2
  <2>8. CASE Skips(f)
    <3>1. a.fn = b.fn /\ a.at = b.at /\ a.idle = b.idle /\ a.of = b.of
      BY <2>4, <2>5, <2>6, <2>8
    <3>2. Onward(b, a)
      BY <2>7, <3>1 DEF Onward, Awake, Given, Claiming
    <3> QED BY <2>1, <2>2, <2>3, <3>2
  <2>9. CASE ~ Skips(f)
    <3>0. a.fn = b.fn /\ a.of = b.of /\ b.fn = f.fn /\ b.at = f.at /\ a.at = h.at
      BY <2>4, <2>5, <2>6, <2>9
    <3>1. Awake(b) => Awake(a)
      BY <2>4, <2>5, <2>6, <2>9, <3>0 DEF Awake, Given
    <3>2. b.makes = Nothing
      BY <2>7, <2>9
    <3>3. Claiming(b) => Claiming(a)
      BY <2>4, <2>5, <2>6, <2>7, <2>9, <3>0 DEF Claiming
    <3>4. Onward(b, a)
      BY <3>0, <3>1, <3>2, <3>3 DEF Onward
    <3> QED BY <2>1, <2>2, <2>3, <3>4
  <2> QED BY <2>8, <2>9
<1> QED BY <1>1, <1>2

\* The frame on top goes on to point a.
LEMMA KeptGoTo ==
    ASSUME SchedulerAssumption, NEW E, Whole(E), reg \in [VMs -> Procs], NEW v \in VMs, stack[v] # <<>>,
           NEW a \in Points, a \notin {"block", "claim"}, Top(v).fn = "force" => a # "unlock" /\ Top(v).at \notin {"unlock", "claim"},
           Top(v).fn = "append" => a \notin {"release", "enable"},
           Top(v).next # Nothing => a \in {"release", "enable", "go"},
           Top(v).fn \in Switchers /\ Top(v).next = Nothing => a \in {"disable", "acquire", "inside"},
           Top(v).fn = "run" => (Pending(Top(v)) <=> a \in {"disable", "acquire", "inside"}),
           GoTo(v, a), reg' = reg, NEW q, Entered(q) => Kept(q)', Kept(q)
    PROVE  Kept(q)'
<1>1. Top(v) \in Held(E) /\ Rest(v) \in Seq(Held(E)) /\ stack[v] = <<Top(v)>> \o Rest(v) /\ Stored(E) /\ reg[v] \in Procs
  BY OnMachine DEF Whole
<1>2. PICK f : f = Top(v)
  OBVIOUS
<1>3. PICK h : h = [Top(v) EXCEPT !.at = a]
  OBVIOUS
<1>4. /\ h.fn = f.fn /\ h.at = a /\ h.next = f.next /\ h.who = f.who
      /\ h \in [fn : Functions_, at : Points, who : Procs \cup {Nothing}, n : Nat, next : {Nothing} \cup E]
  BY <1>1, <1>2, <1>3 DEF Held
<1>5. h \in Held(E) /\ f \in Held(E)
  BY <1>1, <1>2, <1>4 DEF Held
<1>6. PICK r : r = Rest(v)
  OBVIOUS
<1>7. /\ Suspending(h) => Suspending(f) \/ f.fn = "wait"
      /\ f.fn = "force" /\ Suspending(f) => Suspending(h)
      /\ f.fn = "append" /\ h.at \in {"release", "enable"} => f.at \in {"release", "enable"}
  BY <1>1, <1>2, <1>4 DEF Suspending, Held
<1>8. Pending(f) <=> Pending(h)
  BY <1>2, <1>4 DEF Pending
<1>9. r \in Seq(Held(E))
  BY <1>1, <1>6
<1>10. Onward(Place(Seen(<<f>> \o r), reg[v]), Place(Seen(<<h>> \o r), reg[v]))
  BY <1>1, <1>4, <1>5, <1>7, <1>8, <1>9, OnwardTop
<1>11. PICK s : s = <<h>> \o r
  OBVIOUS
<1>12. s \in Seq(Held(E)) /\ Become(v, s)
  <2>1. s \in Seq(Held(E))
    BY <1>5, <1>9, <1>11, OnTop
  <2>2. Become(v, s)
    BY <1>3, <1>6, <1>11 DEF GoTo
  <2> QED BY <2>1, <2>2
<1>13. stack[v] = <<f>> \o r
  BY <1>1, <1>2, <1>6
<1>14. Onward(Place(Seen(stack[v]), reg[v]), Place(Seen(s), reg[v]))
  BY <1>10, <1>11, <1>13, Zenon
<1> QED BY <1>12, <1>14, GoesOnward

\* A call of process-run-fn, signal or force returns.
LEMMA KeptPop ==
    ASSUME SchedulerAssumption, AlarmsAlone, NEW E, Whole(E), reg \in [VMs -> Procs], NEW v \in VMs, stack[v] # <<>>,
           Top(v).fn \in {"run", "signal", "force"}, ~ Suspending(Top(v)), ~ Pending(Top(v)),
           Become(v, Rest(v)), reg' = reg, NEW q, Entered(q) => Kept(q)', Kept(q)
    PROVE  Kept(q)'
<1>1. /\ Top(v) \in Held(E) /\ stack[v] = <<Top(v)>> \o Rest(v) /\ Stored(E) /\ reg[v] \in Procs
      /\ Good(Top(v), Peek(Rest(v)), reg[v]) /\ Rest(v) \in Seq(Held(E)) /\ (~ Ended(Top(v)) => Rest(v) \in Calm(E, reg[v]))
  BY OnMachine DEF Whole
<1>2. PICK f \in Held(E) : f = Top(v)
  BY <1>1
<1>3. PICK p \in Procs : p = reg[v]
  BY <1>1
<1>4. ~ Ended(f) /\ f.next = Nothing /\ ~ Pending(f) /\ ~ Suspending(f) /\ f.fn # "alarm"
  BY <1>2 DEF Held, Ended, Switchers
<1>5. PICK r \in Calm(E, p) : r = Rest(v)
  BY <1>1, <1>2, <1>3, <1>4
<1>6. r \in Seq(Held(E)) /\ r \in Owned(E, p) /\ Good(f, Peek(r), p)
  BY <1>1, <1>2, <1>3, <1>5 DEF Calm, Owned
<1>7. PICK b : b = Place(<<f>> \o r, p)
  OBVIOUS
<1>8. PICK c : c = Place(r, p)
  OBVIOUS
<1>9. Seen(<<f>> \o r) = <<f>> \o r
  BY <1>4, <1>6, SeenOn
<1>10. b.of = p /\ b.makes = Nothing
  BY <1>4, <1>6, <1>7, PlaceOn
<1>11. c.of = p /\ c.fn = Lead(r).fn /\ c.at = Lead(r).at /\ c.idle = Suspending(Lead(r)) /\ c.makes = Nothing
  <2>1. Runner(r) = Nothing
    BY <1>4, <1>6, Clear
  <2> QED BY <1>6, <1>8, <2>1, PlaceIn
<1>12. (Awake(b) => Awake(c)) /\ (Claiming(b) => Claiming(c))
  <2>1. CASE f.fn = "run"
    <3>1. Skips(f)
      BY <1>4, <2>1 DEF Skips
    <3>2. b.fn = Lead(r).fn /\ b.at = Lead(r).at /\ b.idle = Suspending(Lead(r))
      BY <1>6, <1>7, <3>1, PlaceOn
    <3> QED BY <1>10, <1>11, <3>2 DEF Awake, Given, Claiming
  <2>2. CASE f.fn \in {"signal", "force"}
    <3>1. PICK g : g = Peek(r)
      OBVIOUS
    <3>2. Firm(g)
      BY <1>6, <2>2, <3>1 DEF Good
    <3>3. r # <<>>
      BY <3>1, <3>2 DEF Peek, Bottom, Frame, Firm
    <3>4. g \in Held(E) /\ r = <<g>> \o Tail(r) /\ Tail(r) \in Seq(Held(E))
      <4>1. r \in Seq(Held(E)) /\ r # <<>>
        BY <1>6, <3>3
      <4>2. r = <<Head(r)>> \o Tail(r) /\ Head(r) \in Held(E) /\ Tail(r) \in Seq(Held(E)) /\ Peek(r) = Head(r)
        BY <4>1, Split
      <4>3. g = Head(r)
        BY <3>1, <4>2
      <4> QED BY <4>2, <4>3
    <3>5. ~ Skips(g) /\ ~ Suspending(g) /\ g.fn \notin {"wait", "force", "append"}
      BY <3>2, <3>4 DEF Firm, Held, Switchers, Skips, Suspending
    <3>6. Lead(r) = g
      BY <3>4, <3>5, LeadOn
    <3>7. Awake(c)
      BY <1>11, <3>5, <3>6 DEF Awake, Given
    <3>8. ~ b.idle
      <4>1. ~ Skips(f)
        BY <2>2 DEF Skips
      <4> QED BY <1>4, <1>6, <1>7, <4>1, PlaceOn
    <3> QED BY <3>7, <3>8 DEF Claiming
  <2> QED BY <1>2, <2>1, <2>2
<1>13. PICK a : a = Place(Seen(r), p)
  OBVIOUS
<1>14. Onward(c, a)
  BY <1>1, <1>5, <1>8, <1>13, Uncovered
<1>15. Onward(b, a)
  BY <1>10, <1>11, <1>12, <1>14 DEF Onward
<1>16. stack[v] = <<f>> \o r
  BY <1>1, <1>2, <1>5
<1>17. Onward(Place(Seen(stack[v]), reg[v]), Place(Seen(r), reg[v]))
  BY <1>3, <1>7, <1>9, <1>13, <1>15, <1>16
<1>18. Become(v, r)
  BY <1>5
<1> QED BY <1>6, <1>17, <1>18, GoesOnward

\* Whom a machine does not serve.
LEMMA ServesNobody ==
    ASSUME SchedulerAssumption, NEW E, Whole(E), reg \in [VMs -> Procs], NEW v \in VMs, stack[v] # <<>>,
           Top(v).next = Nothing, NEW q \in Someone,
           \/ Top(v).fn \in {"wait", "start"} \/ (Top(v).fn = "append" /\ Top(v).at \in {"release", "enable"})
           \/ Top(v).fn \in {"fill", "append"} /\ q # Filler
           \/ Top(v).fn = "force" /\ IF Suspending(Top(v)) THEN q # Nothing ELSE q # Boot
    PROVE  ~ Serving(Here(v), q)
<1>1. Top(v).fn \in {"wait", "start", "fill", "append", "force"}
  OBVIOUS
<1>2. ~ Skips(Top(v)) /\ ~ Pending(Top(v)) /\ Top(v).fn # "alarm"
  BY <1>1 DEF Skips, Pending
<1>3. /\ Here(v).of = reg[v] /\ Here(v).fn = Top(v).fn /\ Here(v).at = Top(v).at /\ Here(v).idle = Suspending(Top(v))
      /\ Here(v).makes = Nothing
  BY <1>2, HereIs
<1>4. Nothing \notin Procs
  BY DEF SchedulerAssumption
<1>5. CASE Top(v).fn \in {"wait", "start"}
  <2>1. Top(v).fn = "start" => Here(v).idle
    BY <1>3 DEF Suspending
  <2> QED BY <1>3, <1>5, <2>1 DEF Serving, Awake, Claiming
<1>6. CASE Top(v).fn = "append" /\ Top(v).at \in {"release", "enable"}
  BY <1>3, <1>6 DEF Serving, Awake, Given, Claiming
<1>7. CASE Top(v).fn \in {"fill", "append"} /\ q # Filler
  <2>1. reg[v] = Filler
    BY <1>7, OnMachine DEF Good
  <2> QED BY <1>3, <1>7, <2>1 DEF Serving, Claiming
<1>8. CASE Top(v).fn = "force" /\ Suspending(Top(v)) /\ q # Nothing
  BY <1>3, <1>8 DEF Serving, Awake
<1>9. CASE Top(v).fn = "force" /\ ~ Suspending(Top(v)) /\ q # Boot
  BY <1>3, <1>9 DEF Serving, Awake, Claiming
<1> QED BY <1>5, <1>6, <1>7, <1>8, <1>9

\* The queue stays as it is.
LEMMA StillEntered ==
    ASSUME queue' = queue, NEW q
    PROVE  Entered(q) => Kept(q)'
BY DEF Kept, Entered, Spot

\* A process that waits keeps nobody going.
LEMMA KeptWaiting ==
    ASSUME SchedulerAssumption, NEW E, Whole(E), reg \in [VMs -> Procs], NEW v \in VMs,
           Wait(v) \/ ReleaseWait(v) \/ Block(v) \/ WaitReturns(v), NEW q \in Someone, Kept(q)
    PROVE  Kept(q)'
<1> USE DEF At
<1>1. stack[v] # <<>> /\ Top(v).fn = "wait"
  BY DEF Wait, ReleaseWait, Block, WaitReturns, Top
<1>2. Top(v).next = Nothing
  BY <1>1, OnMachine DEF Held, Switchers
<1>3. ~ Serving(Here(v), q)
  BY <1>1, <1>2, ServesNobody
<1>4. reg' = reg /\ queue' = queue /\ \E s : Become(v, s)
  BY DEF Wait, ReleaseWait, Block, WaitReturns, ReleaseMutex, GoTo
<1>5. \A u \in VMs \ {v} : stack'[u] = stack[u] /\ reg'[u] = reg[u]
  BY <1>4 DEF Become, Whole, Active
<1>6. Entered(q) => Kept(q)'
  BY <1>4, StillEntered
<1> QED BY <1>3, <1>5, <1>6, StillKept

\* A process that forces the future, until it suspends itself.
LEMMA KeptForce ==
    ASSUME SchedulerAssumption, EntriesAreSomething, AlarmsAlone, NEW E, Whole(E), reg \in [VMs -> Procs], NEW v \in VMs,
           Drain(v) \/ (TestFlag(v) /\ flag) \/ ForceReturns(v) \/ ReleaseForce(v) \/ ForceFallsThrough(v),
           NEW q, Kept(q)
    PROVE  Kept(q)'
<1> USE DEF At
<1>1. stack[v] # <<>> /\ Top(v).fn = "force"
  BY DEF Drain, TestFlag, ForceReturns, ReleaseForce, ForceFallsThrough, Top
<1>2. Top(v) \in Held(E) /\ Rest(v) \in Seq(Held(E)) /\ stack[v] = <<Top(v)>> \o Rest(v) /\ reg[v] \in Procs /\ Stored(E)
  BY <1>1, OnMachine DEF Whole
<1>3. Top(v).next = Nothing /\ ~ Skips(Top(v)) /\ ~ Pending(Top(v))
  BY <1>1, <1>2 DEF Held, Switchers, Skips, Pending
<1>4. reg' = reg /\ queue' = queue
  BY DEF Drain, TestFlag, ForceReturns, ReleaseForce, ForceFallsThrough, ReleaseMutex
<1>5. Entered(q) => Kept(q)'
  BY <1>4, StillEntered
<1>6. CASE Drain(v)
  <2>1. Top(v).at = "drain"
    BY <1>6 DEF Drain, Top
  <2>2. CASE GoTo(v, "acquire")
    <3>1. "acquire" \in Points
      BY DEF Points
    <3> QED BY <1>1, <1>3, <1>4, <1>5, <2>1, <2>2, <3>1, KeptGoTo DEF Switchers
  <2>3. CASE Become(v, <<Frame("pause", "disable"), [Top(v) EXCEPT !.n = @ + 1]>> \o Rest(v))
    <3>1. PICK f : f = Frame("pause", "disable")
      OBVIOUS
    <3>2. PICK g : g = [Top(v) EXCEPT !.n = @ + 1]
      OBVIOUS
    <3>3. f \in Held(E) /\ f.fn = "pause" /\ f.next = Nothing
      BY <3>1, Fresh DEF Points, Switchers
    <3>4. g \in Held(E) /\ g.fn = "force" /\ g.at = "drain"
      BY <1>1, <1>2, <2>1, <3>2, Again
    <3>5. PICK z \in Seq(Held(E)) : z = Rest(v)
      BY <1>2
    <3>6. PICK r : r = <<g>> \o z
      OBVIOUS
    <3>7. r \in Seq(Held(E)) /\ Lead(r) = g
      <4>1. ~ Skips(g)
        BY <3>4 DEF Skips
      <4> QED BY <3>4, <3>5, <3>6, <4>1, OnTop, LeadOn
    <3>8. Become(v, <<f>> \o r)
      <4>1. PICK X : X = Held(E)
        OBVIOUS
      <4>2. f \in X /\ g \in X /\ z \in Seq(X)
        BY <3>3, <3>4, <3>5, <4>1
      <4>3. Become(v, <<f, g>> \o z)
        BY <2>3, <3>1, <3>2, <3>5
      <4>4. Become(v, <<f>> \o (<<g>> \o z))
        BY <4>2, <4>3, BecomePair, Zenon
      <4> QED BY <3>6, <4>4, Zenon
    <3>9. Skips(f) /\ ~ Pending(f) /\ f.fn # "alarm" /\ ~ Suspending(g)
      BY <3>3, <3>4 DEF Skips, Pending, Suspending
    <3>10. /\ Here(v)'.of = reg[v] /\ Here(v)'.makes = Nothing
           /\ \A u \in VMs \ {v} : stack'[u] = stack[u] /\ reg'[u] = reg[u]
      BY <1>4, <3>3, <3>7, <3>8, <3>9, HereBecomes
    <3>11. Here(v)'.fn = "force" /\ Here(v)'.at = "drain" /\ ~ Here(v)'.idle
      <4>1. Here(v)'.fn = Lead(r).fn /\ Here(v)'.at = Lead(r).at /\ (Here(v)'.idle <=> Suspending(Lead(r)))
        BY <1>4, <3>3, <3>7, <3>8, <3>9, HereSkips
      <4> QED BY <3>4, <3>7, <3>9, <4>1
    <3>12. Here(v).of = reg[v] /\ Here(v).fn = "force" /\ Here(v).at = "drain" /\ Here(v).makes = Nothing /\ ~ Here(v).idle
      <4>1. ~ Suspending(Top(v))
        BY <1>1, <1>3, <2>1 DEF Suspending
      <4> QED BY <1>1, <1>3, <2>1, <4>1, HereIs
    <3>13. ASSUME Serving(Here(v), q) PROVE Kept(q)'
      <4>1. Serving(Here(v)', q)
        BY <3>10, <3>11, <3>12, <3>13 DEF Serving, Awake, Given, Claiming
      <4> QED BY <4>1 DEF Kept, Serving, Awake, Given, Claiming
    <3> QED BY <1>5, <3>10, <3>13, StillKept
  <2> QED BY <1>6, <2>2, <2>3 DEF Drain
<1>7. CASE TestFlag(v) /\ flag
  <2>1. Top(v).at = "locked" /\ GoTo(v, "val") /\ "val" \in Points
    BY <1>7 DEF TestFlag, Top, Points
  <2> QED BY <1>1, <1>3, <1>4, <1>5, <2>1, KeptGoTo DEF Switchers
<1>8. CASE ForceReturns(v)
  <2>1. Top(v).at = "val" /\ Become(v, Rest(v))
    BY <1>8 DEF ForceReturns, ReleaseMutex, Top
  <2>2. ~ Suspending(Top(v))
    BY <1>1, <2>1 DEF Suspending
  <2> QED BY <1>1, <1>3, <1>4, <1>5, <2>1, <2>2, KeptPop
<1>9. CASE ReleaseForce(v)
  <2>1. Top(v).at = "unlock" /\ GoTo(v, "claim")
    BY <1>9 DEF ReleaseForce, ReleaseMutex, GoTo, Top
  <2>2. PICK f \in Held(E) : f = Top(v)
    BY <1>2
  <2>3. PICK h : h = [Top(v) EXCEPT !.at = "claim"]
    OBVIOUS
  <2>4. h \in Held(E) /\ h.fn = "force" /\ h.at = "claim" /\ h.next = Nothing /\ h.who = f.who /\ f.fn = "force" /\ f.next = Nothing
    BY <1>1, <1>2, <1>3, <2>2, <2>3 DEF Held, Points, Switchers
  <2>5. PICK r \in Seq(Held(E)) : r = Rest(v)
    BY <1>2
  <2>6. PICK p \in Procs : p = reg[v]
    BY <1>2
  <2>7. Suspending(f) /\ Suspending(h) /\ ~ Pending(f) /\ ~ Pending(h)
    BY <1>1, <2>1, <2>2, <2>4 DEF Suspending, Pending
  <2>8. Onward(Place(Seen(<<f>> \o r), p), Place(Seen(<<h>> \o r), p))
    BY <2>4, <2>7, OnwardTop
  <2>9. PICK s : s = <<h>> \o r
    OBVIOUS
  <2>10. s \in Seq(Held(E)) /\ Become(v, s)
    <3>1. s \in Seq(Held(E))
      BY <2>4, <2>9, OnTop
    <3>2. Become(v, s)
      BY <2>1, <2>3, <2>5, <2>9 DEF GoTo
    <3> QED BY <3>1, <3>2
  <2>11. stack[v] = <<f>> \o r
    BY <1>2, <2>2, <2>5
  <2>12. Onward(Place(Seen(stack[v]), reg[v]), Place(Seen(s), reg[v]))
    BY <2>6, <2>8, <2>9, <2>11, Zenon
  <2> QED BY <1>4, <1>5, <2>10, <2>12, GoesOnward
<1>10. ~ ForceFallsThrough(v)
  BY WholeForce
<1> QED BY <1>6, <1>7, <1>8, <1>9, <1>10

\* A process suspends itself on the future: its entry keeps it going, and it is going to claim the filler.
LEMMA KeptTest ==
    ASSUME SchedulerAssumption, EntriesAreSomething, NEW E, Whole(E), reg \in [VMs -> Procs], NEW v \in VMs,
           TestFlag(v), ~ flag, ~ log.delivered
    PROVE  /\ \A q \in Someone : Kept(q) => Kept(q)' \/ (q = Boot /\ Delegated')
           /\ Delegated => Delegated'
           /\ Kept(Nothing)'
<1> USE DEF At, clock, semaphore
<1>1. stack[v] # <<>> /\ Top(v).fn = "force" /\ Top(v).at = "locked"
  BY DEF TestFlag, Top
<1>2. Top(v) \in Held(E) /\ Rest(v) \in Seq(Held(E)) /\ reg[v] \in Procs
  BY <1>1, OnMachine
<1>3. Top(v).next = Nothing /\ ~ Skips(Top(v)) /\ ~ Pending(Top(v)) /\ ~ Suspending(Top(v))
  BY <1>1, <1>2 DEF Held, Switchers, Skips, Pending, Suspending
<1>4. GoTo(v, "unlock") /\ dependantsQ' = Append(dependantsQ, Suspended(v)) /\ reg' = reg /\ queue' = queue /\ log' = log
  BY DEF TestFlag
<1>5. PICK h : h = [Top(v) EXCEPT !.at = "unlock"]
  OBVIOUS
<1>6. h \in Held(E) /\ h.fn = "force" /\ h.at = "unlock" /\ h.next = Nothing
  BY <1>1, <1>2, <1>3, <1>5 DEF Held, Points, Switchers
<1>7. ~ Skips(h) /\ ~ Pending(h) /\ Suspending(h)
  BY <1>6 DEF Skips, Pending, Suspending
<1>8. PICK r \in Seq(Held(E)) : r = Rest(v)
  BY <1>2
<1>9. Become(v, <<h>> \o r)
  BY <1>4, <1>5, <1>8 DEF GoTo
<1>10. /\ Here(v)'.makes = Nothing /\ Here(v)'.fn = "force" /\ Here(v)'.idle
       /\ \A u \in VMs \ {v} : stack'[u] = stack[u] /\ reg'[u] = reg[u]
  <2>1. h \in Held(E) /\ h.next = Nothing /\ ~ Pending(h) /\ ~ Skips(h) /\ h.fn # "alarm" /\ Suspending(h) /\ reg' = reg
    BY <1>4, <1>6, <1>7
  <2>2. reg' = reg /\ reg \in [VMs -> Procs] /\ Whole(E) /\ h \in Held(E) /\ r \in Seq(Held(E)) /\ Become(v, <<h>> \o r) /\ h.next = Nothing
    BY <1>8, <1>9, <2>1
  <2> HIDE DEF At, clock, semaphore
  <2>3. /\ Here(v)' \in Places /\ Here(v)'.of = reg[v]
        /\ ~ Pending(h) /\ h.fn # "alarm" => Here(v)'.makes = Nothing
        /\ Pending(h) => Here(v)'.makes = h.who
        /\ ~ Skips(h) => Here(v)'.fn = h.fn /\ Here(v)'.at = h.at /\ Here(v)'.idle = Suspending(h)
        /\ \A u \in VMs \ {v} : stack'[u] = stack[u] /\ reg'[u] = reg[u]
    BY <2>2, HereBecomes
  <2> QED BY <1>6, <2>1, <2>3
<1>11. Kept(Nothing)'
  <2>1. Serving(Here(v)', Nothing)
    BY <1>10 DEF Serving, Awake, Claiming
  <2> QED BY <2>1 DEF Kept, Serving, Awake, Given, Claiming
<1>12. PICK D : /\ E \subseteq D /\ Stored(D) /\ Suspended(v) \in D
                /\ Peek(Suspended(v).stack).fn = "force" /\ Peek(Suspended(v).stack).at = "drain"
                /\ Lead(Suspended(v).stack) = Peek(Suspended(v).stack) /\ Suspended(v).proc = reg[v]
  BY <1>1, SuspendedGood
<1>13. PICK t \in Seq(Held(D)) : t = Suspended(v).stack
  BY <1>12 DEF Stored
<1>14. PICK c : c = Spot(Suspended(v))
  OBVIOUS
<1>15. c.of = reg[v] /\ c.fn = "force" /\ c.at = "drain" /\ ~ c.idle
  <2>1. c = Place(t, reg[v])
    BY <1>12, <1>13, <1>14 DEF Spot
  <2>2. ~ Suspending(Lead(t)) /\ Lead(t).fn = "force" /\ Lead(t).at = "drain"
    BY <1>12, <1>13 DEF Suspending
  <2> QED BY <1>2, <1>13, <2>1, <2>2, PlaceIn
<1>16. PICK e \in D : e = Suspended(v)
  BY <1>12
<1>17. /\ dependantsQ' \in Seq(D) /\ Len(dependantsQ') = Len(dependantsQ) + 1 /\ Len(dependantsQ) \in Nat
       /\ \A i \in 1 .. Len(dependantsQ) : dependantsQ'[i] = dependantsQ[i]
       /\ dependantsQ'[Len(dependantsQ) + 1] = e
  <2>1. dependantsQ \in Seq(D)
    BY <1>12, MoreEntries DEF Whole
  <2>2. dependantsQ' = Append(dependantsQ, e)
    BY <1>4, <1>16
  <2> QED BY <2>1, <2>2, AppendProperties, LenProperties
<1>18. ASSUME NEW i \in 1 .. Len(dependantsQ'), Serving(Spot(dependantsQ'[i]), Boot) PROVE Delegated'
  BY <1>4, <1>18 DEF Delegated, Serving, Awake, Given, Claiming, Spot
<1>19. ASSUME Delegated PROVE Delegated'
  <2>1. PICK i \in 1 .. Len(dependantsQ) : Serving(Spot(dependantsQ[i]), Boot)
    BY <1>19 DEF Delegated
  <2>2. i \in 1 .. Len(dependantsQ') /\ Serving(Spot(dependantsQ'[i]), Boot)
    BY <1>17, <2>1
  <2> QED BY <1>18, <2>2
<1>20. ASSUME reg[v] = Boot PROVE Delegated'
  <2>1. Serving(c, Boot)
    BY <1>15, <1>20 DEF Serving, Awake, Given
  <2>2. Len(dependantsQ) + 1 \in 1 .. Len(dependantsQ') /\ Serving(Spot(dependantsQ'[Len(dependantsQ) + 1]), Boot)
    BY <1>14, <1>16, <1>17, <2>1
  <2> QED BY <1>18, <2>2
<1>21. ASSUME NEW q \in Someone, Kept(q), ~ Serving(Here(v), q) PROVE Kept(q)'
  <2>1. Entered(q) => Kept(q)'
    BY <1>4, StillEntered
  <2> QED BY <1>10, <1>21, <2>1, StillKept
<1>22. ASSUME NEW q \in Someone, Serving(Here(v), q) PROVE q = Boot /\ reg[v] = Boot
  <2>1. q = Boot
    BY <1>1, <1>3, <1>22, ServesNobody
  <2>2. Here(v).of = reg[v] /\ Here(v).fn = "force" /\ Here(v).makes = Nothing
    BY <1>1, <1>3, HereIs
  <2>3. Boot # Nothing
    BY DEF SchedulerAssumption
  <2> QED BY <1>22, <2>1, <2>2, <2>3 DEF Serving
<1> QED BY <1>11, <1>19, <1>20, <1>21, <1>22

\* Who claims the future first sets out to make the filler.
LEMMA KeptClaim ==
    ASSUME SchedulerAssumption, NEW E, Whole(E), reg \in [VMs -> Procs], NEW v \in VMs, Claim(v)
    PROVE  /\ \A q \in Procs : Kept(q) => Kept(q)'
           /\ ~ scheduled => Kept(Filler)'
<1> USE DEF At
<1>1. stack[v] # <<>> /\ Top(v).fn = "force" /\ Top(v).at = "claim"
  BY DEF Claim, Top
<1>2. Top(v) \in Held(E) /\ Rest(v) \in Seq(Held(E)) /\ reg[v] \in Procs
  BY <1>1, OnMachine
<1>3. Top(v).next = Nothing /\ Suspending(Top(v))
  BY <1>1, <1>2 DEF Held, Switchers, Suspending
<1>4. reg' = reg /\ queue' = queue /\ \E s : Become(v, s)
  BY DEF Claim
<1>5. \A u \in VMs \ {v} : stack'[u] = stack[u] /\ reg'[u] = reg[u]
  BY <1>4 DEF Become, Whole, Active
<1>6. ASSUME NEW q \in Procs, Kept(q) PROVE Kept(q)'
  <2>1. Entered(q) => Kept(q)'
    BY <1>4, StillEntered
  <2>2. q # Nothing /\ q \in Someone
    BY DEF SchedulerAssumption, Someone
  <2>3. ~ Serving(Here(v), q)
    BY <1>1, <1>3, <2>2, ServesNobody
  <2> QED BY <1>5, <1>6, <2>1, <2>3, StillKept
<1>7. ASSUME ~ scheduled PROVE Kept(Filler)'
  <2>1. PICK e : e = Frame("start", "disable")
    OBVIOUS
  <2>2. e \in Held(E) /\ e.fn = "start" /\ e.at = "disable" /\ e.next = Nothing
    BY <2>1, Fresh DEF Points, Switchers
  <2>3. PICK f : f = RunFn(Filler)
    OBVIOUS
  <2>4. f \in Held(E) /\ f.fn = "run" /\ f.at = "disable" /\ f.next = Nothing /\ f.who = Filler
    BY <2>3, Newborn DEF SchedulerAssumption, RunFn, Frame
  <2>5. PICK r \in Seq(Held(E)) : r = Returned(v)
    <3>1. [Top(v) EXCEPT !.at = "return"] \in Held(E)
      BY <1>1, <1>2, <1>3 DEF Held, Points, Switchers
    <3> QED BY <1>2, <3>1, OnTop DEF Returned
  <2>6. PICK s : s = <<e>> \o r
    OBVIOUS
  <2>7. s \in Seq(Held(E)) /\ Lead(s) = e
    <3>1. ~ Skips(e)
      BY <2>2 DEF Skips
    <3> QED BY <2>2, <2>6, <3>1, OnTop, LeadOn
  <2>8. Become(v, <<f>> \o s)
    <3>1. PICK X : X = Held(E)
      OBVIOUS
    <3>2. f \in X /\ e \in X /\ r \in Seq(X)
      BY <2>2, <2>4, <2>5, <3>1
    <3>3. Become(v, (<<f>> \o <<e>>) \o r)
      BY <1>7, <2>1, <2>3, <2>5 DEF Claim
    <3>4. Become(v, <<f>> \o (<<e>> \o r))
      BY <3>2, <3>3, BecomePair, Zenon
    <3> QED BY <2>6, <3>4, Zenon
  <2>9. Skips(f) /\ Pending(f) /\ Suspending(e)
    BY <2>2, <2>4 DEF Skips, Pending, Suspending
  <2>10. Here(v)'.makes = Filler
    BY <1>4, <2>4, <2>7, <2>8, <2>9, HereBecomes
  <2>11. Here(v)'.idle
    BY <1>4, <2>4, <2>7, <2>8, <2>9, HereSkips
  <2>12. Serving(Here(v)', Filler)
    BY <2>10, <2>11 DEF Serving, Awake, SchedulerAssumption
  <2> QED BY <2>12 DEF Kept, Serving, Awake, Given, Claiming
<1> QED BY <1>6, <1>7

\* The filler on its way to the dependants.
LEMMA KeptFill ==
    ASSUME SchedulerAssumption, NEW E, Whole(E), reg \in [VMs -> Procs], NEW v \in VMs,
           ComputeValue(v) \/ SetValue(v) \/ ReleaseValue(v), NEW q, Kept(q)
    PROVE  Kept(q)'
<1> USE DEF At
<1>1. stack[v] # <<>> /\ Top(v).fn = "fill"
  BY DEF ComputeValue, SetValue, ReleaseValue, Top
<1>2. Top(v) \in Held(E) /\ Rest(v) \in Seq(Held(E))
  BY <1>1, OnMachine
<1>3. Top(v).next = Nothing /\ ~ Skips(Top(v)) /\ ~ Pending(Top(v))
  BY <1>1, <1>2 DEF Held, Switchers, Skips, Pending
<1>4. reg' = reg /\ queue' = queue
  BY DEF ComputeValue, SetValue, ReleaseValue, ReleaseMutex
<1>5. Entered(q) => Kept(q)'
  BY <1>4, StillEntered
<1>6. CASE ComputeValue(v)
  <2>1. GoTo(v, "acquire") /\ "acquire" \in Points
    BY <1>6 DEF ComputeValue, Points
  <2> QED BY <1>1, <1>3, <1>4, <1>5, <2>1, KeptGoTo DEF Switchers
<1>7. CASE SetValue(v)
  <2>1. GoTo(v, "unlock") /\ "unlock" \in Points
    BY <1>7 DEF SetValue, Points
  <2> QED BY <1>1, <1>3, <1>4, <1>5, <2>1, KeptGoTo DEF Switchers
<1>8. CASE ReleaseValue(v)
  <2>1. Top(v).at = "unlock" /\ Become(v, <<Frame("append", "disable")>> \o Rest(v))
    BY <1>8 DEF ReleaseValue, ReleaseMutex, Top
  <2>2. PICK h : h = Frame("append", "disable")
    OBVIOUS
  <2>3. h \in Held(E) /\ h.fn = "append" /\ h.at = "disable" /\ h.next = Nothing
    BY <2>2, Fresh DEF Points, Switchers
  <2>4. ~ Skips(h) /\ ~ Pending(h) /\ ~ Suspending(h) /\ h.fn # "alarm"
    BY <2>3 DEF Skips, Pending, Suspending
  <2>5. PICK r \in Seq(Held(E)) : r = Rest(v)
    BY <1>2
  <2>6. Become(v, <<h>> \o r)
    BY <2>1, <2>2, <2>5
  <2>7. Here(v)'.of = reg[v] /\ Here(v)'.makes = Nothing
    BY <1>4, <2>3, <2>4, <2>6, HereBecomes
  <2>8. /\ Here(v)'.fn = "append" /\ Here(v)'.at = "disable" /\ ~ Here(v)'.idle
        /\ \A u \in VMs \ {v} : stack'[u] = stack[u] /\ reg'[u] = reg[u]
    <3>1. Here(v)'.fn = h.fn /\ Here(v)'.at = h.at /\ Here(v)'.idle = Suspending(h)
      BY <1>4, <2>3, <2>4, <2>6, HereBecomes
    <3>2. \A u \in VMs \ {v} : stack'[u] = stack[u] /\ reg'[u] = reg[u]
      BY <1>4, <2>6 DEF Become, Whole, Active
    <3> QED BY <2>3, <2>4, <3>1, <3>2
  <2>9. Here(v).of = reg[v] /\ Here(v).fn = "fill" /\ Here(v).makes = Nothing /\ ~ Here(v).idle
    <3>1. ~ Suspending(Top(v))
      BY <1>1, <2>1 DEF Suspending
    <3> QED BY <1>1, <1>3, <3>1, HereIs
  <2>10. ASSUME Serving(Here(v), q) PROVE Kept(q)'
    <3>1. Serving(Here(v)', q)
      BY <2>7, <2>8, <2>9, <2>10 DEF Serving, Awake, Given, Claiming
    <3> QED BY <3>1 DEF Kept, Serving, Awake, Given, Claiming
  <2> QED BY <1>5, <2>8, <2>10, StillKept
<1> QED BY <1>6, <1>7, <1>8

\* The dependants become entries of the scheduler, and keep going whom they have.
LEMMA KeptAppend ==
    ASSUME SchedulerAssumption, NEW E, Whole(E), reg \in [VMs -> Procs], NEW v \in VMs, AppendDependants(v)
    PROVE  /\ \A q \in Someone \ {Filler} : Kept(q) => Kept(q)'
           /\ Delegated => Kept(Boot)'
<1> USE DEF At
<1>1. stack[v] # <<>> /\ Top(v).fn = "append"
  BY DEF AppendDependants, Top
<1>2. Top(v).next = Nothing
  <2>1. Top(v) \in Held(E) /\ Top(v).at = "inside"
    BY <1>1, OnMachine DEF AppendDependants, Top
  <2> QED BY <1>1, <2>1 DEF Held, Switchers
<1>3. reg' = reg /\ queue' = queue \o dependantsQ /\ \E s : Become(v, s)
  BY DEF AppendDependants, GoTo
<1>4. \A u \in VMs \ {v} : stack'[u] = stack[u] /\ reg'[u] = reg[u]
  BY <1>3 DEF Become, Whole, Active
<1>5. queue \in Seq(E) /\ dependantsQ \in Seq(E)
  BY DEF Whole
<1>6. ASSUME NEW q \in Someone \ {Filler}, Kept(q) PROVE Kept(q)'
  <2>1. Entered(q) => Kept(q)'
    BY <1>3, <1>5, EnterLast DEF Kept
  <2>2. ~ Serving(Here(v), q)
    BY <1>1, <1>2, <1>6, ServesNobody
  <2> QED BY <1>4, <1>6, <2>1, <2>2, StillKept
<1>7. ASSUME Delegated PROVE Kept(Boot)'
  <2>1. PICK i \in 1 .. Len(dependantsQ) : Serving(Spot(dependantsQ[i]), Boot)
    BY <1>7 DEF Delegated
  <2>2. /\ Len(queue') = Len(queue) + Len(dependantsQ) /\ Len(queue) \in Nat /\ Len(dependantsQ) \in Nat
        /\ \A j \in 1 .. Len(dependantsQ) : queue'[Len(queue) + j] = dependantsQ[j]
    BY <1>3, <1>5, ConcatProperties, LenProperties
  <2>3. Len(queue) + i \in 1 .. Len(queue') /\ queue'[Len(queue) + i] = dependantsQ[i]
    BY <2>2
  <2>4. Serving(Spot(queue'[Len(queue) + i]), Boot)
    BY <2>1, <2>3
  <2> QED BY <2>3, <2>4 DEF Kept, Entered, Spot
<1> QED BY <1>6, <1>7

\* The steps that acquire and release the scheduler.
LEMMA KeptScheduler ==
    ASSUME SchedulerAssumption, AlarmsAlone, NEW E, Whole(E), reg \in [VMs -> Procs], NEW v \in VMs,
           DisableAlarms(v) \/ AcquireScheduler(v) \/ ReleaseScheduler(v) \/ EnableAlarms(v),
           NEW q \in Someone, Kept(q)
    PROVE  Kept(q)'
<1> USE DEF At
<1>1. stack[v] # <<>> /\ Top(v).fn \in Users
  BY DEF DisableAlarms, AcquireScheduler, ReleaseScheduler, EnableAlarms, Top
<1>2. Top(v) \in Held(E)
  BY <1>1, OnMachine
<1>3. reg' = reg /\ (Entered(q) => Kept(q)')
  <2>1. reg' = reg /\ queue' = queue
    BY DEF DisableAlarms, AcquireScheduler, ReleaseScheduler, EnableAlarms
  <2> QED BY <2>1, StillEntered
<1>4. CASE DisableAlarms(v)
  <2>1. Top(v).at = "disable" /\ Top(v).next = Nothing /\ GoTo(v, "acquire") /\ "acquire" \in Points
    BY <1>2, <1>4 DEF DisableAlarms, Top, Held, Points
  <2>2. (Top(v).fn = "run" => (Pending(Top(v)) <=> "acquire" \in {"disable", "acquire", "inside"}))
        /\ (Top(v).fn \in Switchers /\ Top(v).next = Nothing => "acquire" \in {"disable", "acquire", "inside"})
        /\ Top(v).fn # "force"
    BY <1>1, <2>1 DEF Pending, Users, Switchers
  <2> QED BY <1>1, <1>3, <2>1, <2>2, KeptGoTo
<1>5. CASE AcquireScheduler(v)
  <2>1. Top(v).at = "acquire" /\ Top(v).next = Nothing /\ GoTo(v, "inside") /\ "inside" \in Points
    BY <1>2, <1>5 DEF AcquireScheduler, Top, Held, Points
  <2>2. (Top(v).fn = "run" => (Pending(Top(v)) <=> "inside" \in {"disable", "acquire", "inside"}))
        /\ (Top(v).fn \in Switchers /\ Top(v).next = Nothing => "inside" \in {"disable", "acquire", "inside"})
        /\ Top(v).fn # "force"
    BY <1>1, <2>1 DEF Pending, Users, Switchers
  <2> QED BY <1>1, <1>3, <2>1, <2>2, KeptGoTo
<1>6. CASE ReleaseScheduler(v) /\ Top(v).fn # "append"
  <2>1. Top(v).at = "release" /\ (Top(v).fn \in Switchers => Top(v).next # Nothing) /\ GoTo(v, "enable") /\ "enable" \in Points
    BY <1>2, <1>6 DEF ReleaseScheduler, Top, Held, Points
  <2>2. ~ Pending(Top(v)) /\ Top(v).fn # "force" /\ (Top(v).fn \in Switchers /\ Top(v).next = Nothing => FALSE)
    BY <1>1, <2>1 DEF Pending, Users, Switchers
  <2>3. PICK a \in Points : a = "enable"
    BY <2>1
  <2>4. /\ stack[v] # <<>> /\ a \notin {"block", "claim"} /\ (Top(v).fn = "force" => a # "unlock" /\ Top(v).at \notin {"unlock", "claim"})
        /\ Top(v).fn = "append" => a \notin {"release", "enable"}
        /\ Top(v).next # Nothing => a \in {"release", "enable", "go"}
        /\ Top(v).fn \in Switchers /\ Top(v).next = Nothing => a \in {"disable", "acquire", "inside"}
        /\ Top(v).fn = "run" => (Pending(Top(v)) <=> a \in {"disable", "acquire", "inside"})
        /\ GoTo(v, a) /\ reg' = reg
    BY <1>1, <1>3, <1>6, <2>1, <2>2, <2>3
  <2> QED BY <1>3, <2>4, KeptGoTo
<1>7. CASE EnableAlarms(v) /\ Top(v).fn \in Switchers
  <2>1. Top(v).at = "enable" /\ Top(v).next # Nothing /\ GoTo(v, "go") /\ "go" \in Points
    BY <1>2, <1>7 DEF EnableAlarms, Top, Held, Points
  <2>2. ~ Pending(Top(v))
    BY <1>7 DEF Pending, Switchers
  <2> QED BY <1>1, <1>3, <2>1, <2>2, KeptGoTo
<1>8. CASE EnableAlarms(v) /\ Top(v).fn \in {"run", "signal"}
  <2>1. Become(v, Rest(v)) /\ Top(v).at = "enable"
    BY <1>8 DEF EnableAlarms, Top, Switchers
  <2>2. ~ Suspending(Top(v)) /\ ~ Pending(Top(v))
    BY <1>8, <2>1 DEF Suspending, Pending
  <2> QED BY <1>1, <1>3, <1>8, <2>1, <2>2, KeptPop
<1>9. CASE (ReleaseScheduler(v) \/ EnableAlarms(v)) /\ Top(v).fn = "append"
  <2>1. Top(v).next = Nothing /\ Top(v).at \in {"release", "enable"} /\ \E s : Become(v, s)
    BY <1>2, <1>9 DEF Held, Switchers, ReleaseScheduler, EnableAlarms, Top, GoTo
  <2>2. ~ Serving(Here(v), q)
    BY <1>1, <1>9, <2>1, ServesNobody
  <2>3. \A u \in VMs \ {v} : stack'[u] = stack[u] /\ reg'[u] = reg[u]
    BY <1>3, <2>1 DEF Become, Whole, Active
  <2> QED BY <1>3, <2>2, <2>3, StillKept
<1> QED BY <1>1, <1>4, <1>5, <1>6, <1>7, <1>8, <1>9 DEF Users

\* A process is interrupted, takes a mutex, or its thousand instructions end.
LEMMA KeptAlarm ==
    ASSUME SchedulerAssumption, AlarmsAlone, NEW E, Whole(E), reg \in [VMs -> Procs], NEW v \in VMs,
           Alarm(v) \/ AcquireMutex(v) \/ Tick(v), NEW q, Kept(q)
    PROVE  Kept(q)'
<1> USE DEF At
<1>1. stack[v] # <<>>
  BY DEF Alarm, AcquireMutex, Tick
<1>2. /\ Top(v) \in Held(E) /\ Peek(stack[v]) = Top(v) /\ reg[v] \in Procs /\ Stored(E) /\ stack[v] \in Seq(Held(E))
      /\ stack[v] = <<Top(v)>> \o Rest(v)
  BY <1>1, OnMachine DEF Whole, Active
<1>0. reg' = reg /\ queue' = queue
  BY DEF Alarm, AcquireMutex, Tick
<1>6. Entered(q) => Kept(q)'
  BY <1>0, StillEntered
<1>3. CASE Alarm(v)
  <2>1. Settled(Top(v))
    BY <1>2, <1>3 DEF Alarm, Whole, Struck
  <2>2. stack[v] \in Calm(E, reg[v])
    BY <1>1, <2>1, OnMachine
  <2>3. PICK f : f = Frame("alarm", "disable")
    OBVIOUS
  <2>4. f \in Held(E) /\ f.fn = "alarm" /\ f.next = Nothing /\ Skips(f) /\ ~ Pending(f)
    BY <2>3, Fresh DEF Points, Switchers, Skips, Pending
  <2>5. PICK p \in Procs : p = reg[v]
    BY <1>2
  <2>6. PICK r \in Seq(Held(E)) : r = stack[v]
    BY <1>2
  <2>7. PICK a : a = Place(<<f>> \o r, p)
    OBVIOUS
  <2>8. /\ a.of = p /\ a.fn = Lead(r).fn /\ a.at = Lead(r).at /\ a.idle = Suspending(Lead(r))
        /\ a.makes = IF Pending(Peek(r)) THEN Peek(r).who ELSE Nothing
    BY <2>4, <2>7, PlaceOn
  <2>9. PICK c : c = Place(r, p)
    OBVIOUS
  <2>10. c.of = p /\ c.fn = Lead(r).fn /\ c.at = Lead(r).at /\ c.idle = Suspending(Lead(r)) /\ c.makes = Runner(r)
    BY <2>9, PlaceIn
  <2>11. c.makes = a.makes
    <3>1. Peek(r).fn # "alarm"
      BY <1>2, <1>3, <2>6 DEF Alarm
    <3> QED BY <2>8, <2>10, <3>1 DEF Runner
  <2>12. Onward(c, a)
    BY <2>8, <2>10, <2>11 DEF Onward, Awake, Given, Claiming
  <2>13. Onward(Place(Seen(r), p), c)
    BY <1>2, <2>2, <2>5, <2>6, <2>9, Uncovered
  <2>14. Onward(Place(Seen(r), p), a)
    BY <2>12, <2>13 DEF Onward
  <2>15. PICK s : s = <<f>> \o r
    OBVIOUS
  <2>16. s \in Seq(Held(E)) /\ Seen(s) = s
    BY <2>4, <2>15, OnTop DEF Seen
  <2>17. Become(v, s)
    BY <1>3, <2>3, <2>6, <2>15 DEF Alarm
  <2>18. a = Place(Seen(s), p)
    BY <2>7, <2>15, <2>16
  <2>19. Onward(Place(Seen(stack[v]), reg[v]), Place(Seen(s), reg[v]))
    BY <2>5, <2>6, <2>14, <2>18
  <2> QED BY <1>0, <1>6, <2>16, <2>17, <2>19, GoesOnward
<1>4. CASE AcquireMutex(v)
  <2>1. /\ Top(v).fn \in {"wait", "force", "fill", "signal"} /\ Top(v).at \in {"acquire", "inside"}
        /\ GoTo(v, "locked") /\ "locked" \in Points
    BY <1>4 DEF AcquireMutex, Top, Points
  <2>2. Top(v).next = Nothing /\ Top(v).fn \notin Switchers /\ ~ Pending(Top(v))
    BY <1>2, <2>1 DEF Held, Switchers, Pending
  <2> QED BY <1>0, <1>1, <1>6, <2>1, <2>2, KeptGoTo
<1>5. CASE Tick(v)
  <2>1. \A u \in VMs \ {v} : stack'[u] = stack[u] /\ reg'[u] = reg[u]
    BY <1>5 DEF Tick
  <2>2. Here(v)' = Here(v)
    BY <1>5 DEF Tick, Here
  <2>3. Serving(Here(v), q) => Kept(q)'
    BY <2>2 DEF Kept, Serving, Awake, Given, Claiming
  <2> QED BY <1>6, <2>1, <2>3, StillKept
<1> QED BY <1>3, <1>4, <1>5

\* The steps that capture or resume a continuation.
LEMMA KeptSwitch ==
    ASSUME SchedulerAssumption, EntriesAreSomething, AlarmsAlone, NeverIdle, NEW E, Whole(E), reg \in [VMs -> Procs], NEW v \in VMs,
           Pause(v) \/ Start(v) \/ Go(v), NEW q \in Someone, Kept(q)
    PROVE  Kept(q)'
<1> USE DEF At
<1>1. stack[v] # <<>>
  BY DEF Pause, Start, Go
<1>2. /\ Top(v) \in Held(E) /\ Rest(v) \in Seq(Held(E)) /\ Good(Top(v), Peek(Rest(v)), reg[v])
      /\ (~ Ended(Top(v)) => Rest(v) \in Calm(E, reg[v])) /\ stack[v] = <<Top(v)>> \o Rest(v)
      /\ Peek(stack[v]) = Top(v) /\ reg[v] \in Procs /\ Stored(E) /\ queue \in Seq(E)
  BY <1>1, OnMachine DEF Whole
<1>3. ASSUME NEW D, E \subseteq D, Stored(D), Top(v).fn \in Switchers, NEW z \in Seq(D), z # <<>>, SwitchTo(v, z),
             NEW i \in 1 .. Len(z), Serving(Spot(z[i]), q)
      PROVE  Kept(q)'
  <2>1. Here(v)' = Spot(Head(z)) /\ queue' = Tail(z)
    BY <1>1, <1>3, TakesHead
  <2>2. Serving(Spot(Head(z)), q) \/ Entered(q)'
    BY <1>3, <2>1, LeavesFirst
  <2>3. CASE Serving(Spot(Head(z)), q)
    <3>1. Serving(Here(v), q)'
      BY <2>1, <2>3 DEF Serving, Awake, Given, Claiming
    <3> QED BY <3>1 DEF Kept
  <2> QED BY <2>2, <2>3 DEF Kept
<1>4. CASE Pause(v)
  <2>1. Top(v).fn \in {"pause", "alarm"} /\ Top(v).fn \in Switchers /\ Top(v).at = "inside"
    BY <1>4 DEF Pause, Top, Switchers
  <2>2. ~ Ended(Top(v))
    BY <1>2, <2>1 DEF Held, Ended, Suspending, Switchers
  <2>3. PICK D : D = E \cup {Throw(reg[v], Rest(v))}
    OBVIOUS
  <2>4. E \subseteq D /\ Stored(D)
    <3>1. Rest(v) \in Calm(E, reg[v]) /\ reg[v] \in Procs /\ Stored(E)
      BY <1>2, <2>2
    <3> QED BY <2>3, <3>1, Storing DEF Throw
  <2>5. PICK e \in D : e = Throw(reg[v], Rest(v))
    BY <2>3
  <2>6. PICK z : z = Append(queue, e)
    OBVIOUS
  <2>7. /\ z \in Seq(D) /\ z # <<>> /\ Len(z) = Len(queue) + 1 /\ Len(queue) \in Nat
        /\ z[Len(queue) + 1] = e /\ \A i \in 1 .. Len(queue) : z[i] = queue[i]
    <3>1. queue \in Seq(D)
      BY <1>2, <2>4, MoreEntries
    <3>2. /\ z \in Seq(D) /\ Len(z) = Len(queue) + 1 /\ Len(queue) \in Nat
          /\ z[Len(queue) + 1] = e /\ \A i \in 1 .. Len(queue) : z[i] = queue[i]
      BY <2>6, <3>1, AppendProperties, LenProperties
    <3>3. Len(z) # 0
      BY <3>2
    <3> QED BY <3>2, <3>3, EmptySeq
  <2>8. SwitchTo(v, z)
    BY <1>4, <2>5, <2>6 DEF Pause
  <2>9. Onward(Here(v), Spot(e))
    <3>1. PICK f \in Held(E) : f = Top(v)
      BY <1>2
    <3>2. PICK p \in Procs : p = reg[v]
      BY <1>2
    <3>3. PICK r \in Calm(E, p) : r = Rest(v)
      BY <1>2, <2>2, <3>2
    <3>4. Good(f, Peek(r), p) /\ ~ Ended(f) /\ f.fn \in {"pause", "alarm"}
      BY <1>2, <2>1, <2>2, <3>1, <3>2, <3>3
    <3>5. /\ Calmer(Place(<<f>> \o r, p), Place(r, p)) /\ Place(r, p) \in Places /\ Seen(<<f>> \o r) = <<f>> \o r
          /\ Onward(Place(<<f>> \o r, p), Place(r, p))
      <4>1. f \in Held(E) /\ r \in Calm(E, p) /\ p \in Procs
        OBVIOUS
      <4> QED BY <3>4, <4>1, CalmPause
    <3>6. stack[v] = <<f>> \o r
      BY <1>2, <3>1, <3>3
    <3>7. Here(v) = Place(<<f>> \o r, p)
      BY <3>2, <3>5, <3>6 DEF Here
    <3>8. Spot(e) = Place(r, p)
      BY <2>5, <3>2, <3>3 DEF Spot, Throw
    <3> QED BY <3>5, <3>7, <3>8
  <2>10. \A u \in VMs \ {v} : stack'[u] = stack[u] /\ reg'[u] = reg[u]
    BY <2>8 DEF SwitchTo, Become, Whole, Active
  <2>11. ASSUME Entered(q) PROVE Kept(q)'
    <3>1. PICK i \in 1 .. Len(queue) : Serving(Spot(queue[i]), q)
      BY <2>11 DEF Entered
    <3>2. i \in 1 .. Len(z) /\ Serving(Spot(z[i]), q)
      BY <2>7, <3>1
    <3> QED BY <1>3, <2>1, <2>4, <2>7, <2>8, <3>2
  <2>12. ASSUME Serving(Here(v), q) PROVE Kept(q)'
    <3>1. Serving(Spot(e), q)
      BY <2>9, <2>12, ServesOn
    <3>2. Len(queue) + 1 \in 1 .. Len(z) /\ Serving(Spot(z[Len(queue) + 1]), q)
      BY <2>7, <3>1
    <3> QED BY <1>3, <2>1, <2>4, <2>7, <2>8, <3>2
  <2> QED BY <2>10, <2>11, <2>12, StillKept
<1>5. CASE Start(v)
  <2>1. Top(v).fn = "start" /\ Top(v).fn \in Switchers /\ queue # <<>> /\ SwitchTo(v, queue) /\ Top(v).at = "inside"
    BY <1>5 DEF Start, Top, Switchers, NeverIdle
  <2>2. \A u \in VMs \ {v} : stack'[u] = stack[u] /\ reg'[u] = reg[u]
    BY <1>1, <1>2, <2>1, TakesHead
  <2>3. Entered(q) => Kept(q)'
    BY <1>2, <1>3, <2>1 DEF Entered
  <2>4. Top(v).next = Nothing
    BY <1>2, <2>1 DEF Held
  <2>5. ~ Serving(Here(v), q)
    BY <1>1, <2>1, <2>4, ServesNobody
  <2> QED BY <2>2, <2>3, <2>5, StillKept
<1>6. CASE Go(v)
  <2>1. Top(v).next # Nothing
    BY <1>2, <1>6 DEF Go, Top, Held
  <2>2. PICK n : n = Top(v).next
    OBVIOUS
  <2>3. n \in E /\ n.proc = reg[v]
    BY <1>2, <2>1, <2>2 DEF Held, Good
  <2>4. n.stack \in Calm(E, reg[v]) /\ (~ n.throw => HasEnd(n.stack)) /\ Seen(stack[v]) = n.stack
    BY <1>2, <2>1, <2>2, <2>3 DEF Stored, Seen
  <2>5. PICK s : s = IF n.throw THEN n.stack ELSE n.stack \o Rest(v)
    OBVIOUS
  <2>6. s \in Calm(E, reg[v]) /\ Place(s, reg[v]) = Place(n.stack, reg[v])
    BY <1>2, <2>4, <2>5, Covers DEF Place
  <2>7. Become(v, s) /\ queue' = queue /\ reg' = reg
    BY <1>6, <2>1, <2>2, <2>5 DEF Go
  <2>8. s \in Seq(Held(E)) /\ Onward(Place(s, reg[v]), Place(Seen(s), reg[v]))
    BY <1>2, <2>6, Uncovered
  <2>9. Onward(Place(Seen(stack[v]), reg[v]), Place(Seen(s), reg[v]))
    BY <2>4, <2>6, <2>8
  <2>10. Entered(q) => Kept(q)'
    BY <2>7, StillEntered
  <2> QED BY <2>7, <2>8, <2>9, <2>10, GoesOnward
<1> QED BY <1>4, <1>5, <1>6

\* A process is queued.
LEMMA KeptRun ==
    ASSUME SchedulerAssumption, EntriesAreSomething, AlarmsAlone, NEW E, Whole(E), reg \in [VMs -> Procs], NEW v \in VMs,
           ProcessRunFn(v), NEW q \in Someone, Kept(q)
    PROVE  Kept(q)'
<1> USE DEF At
<1>1. stack[v] # <<>> /\ Top(v).fn = "run" /\ Top(v).at = "inside"
  BY DEF ProcessRunFn, Top
<1>2. Top(v) \in Held(E) /\ Rest(v) \in Seq(Held(E)) /\ stack[v] = <<Top(v)>> \o Rest(v) /\ reg[v] \in Procs /\ Stored(E)
  BY <1>1, OnMachine DEF Whole
<1>3. Top(v).next = Nothing /\ Skips(Top(v)) /\ Pending(Top(v)) /\ Top(v).who \in Procs
  BY <1>1, <1>2 DEF Held, Switchers, Skips, Pending
<1>4. PICK w \in Procs : w = Top(v).who
  BY <1>3
<1>5. PICK e : e = Call(w, Thunk(w))
  OBVIOUS
<1>6. reg' = reg /\ queue' = Append(queue, e) /\ GoTo(v, "release")
  BY <1>4, <1>5 DEF ProcessRunFn
<1>7. PICK D : D = E \cup {e}
  OBVIOUS
<1>8. e \in D /\ queue \in Seq(D)
  <2>1. E \subseteq D
    BY <1>7
  <2> QED BY <1>7, <2>1, MoreEntries DEF Whole
<1>9. Spot(e).of = w /\ Awake(Spot(e))
  <2>1. PICK t \in Seq(Held(E)) : t = Thunk(w)
    BY Newborn DEF Calm, Owned
  <2>2. /\ Lead(t) = t[1] /\ t[1].next = Nothing /\ t[1].at = "call" /\ t[1].fn = IF w = Filler THEN "fill" ELSE "body"
    <3>1. /\ Lead(Thunk(w)) = Thunk(w)[1] /\ Thunk(w)[1].next = Nothing /\ Thunk(w)[1].at = "call"
      BY <1>4, Newborn
    <3>2. Thunk(w)[1].fn = IF w = Filler THEN "fill" ELSE "body"
      BY <1>4, Newborn
    <3> QED BY <2>1, <3>1, <3>2
  <2>3. ~ Suspending(Lead(t))
    BY <2>2 DEF Suspending
  <2>4. Spot(e) = Place(t, w)
    BY <1>5, <2>1 DEF Spot, Call
  <2>5. Spot(e).of = w /\ Spot(e).fn = Lead(t).fn /\ Spot(e).idle = Suspending(Lead(t))
    BY <2>4, PlaceIn
  <2> QED BY <2>2, <2>3, <2>5 DEF Awake, Given
<1>10. /\ Here(v).of = reg[v] /\ Here(v).makes = w
       /\ Here(v).fn = Lead(Rest(v)).fn /\ Here(v).at = Lead(Rest(v)).at /\ (Here(v).idle <=> Suspending(Lead(Rest(v))))
  <2>1. PICK f \in Held(E) : f = Top(v)
    BY <1>2
  <2>2. PICK r \in Seq(Held(E)) : r = Rest(v)
    BY <1>2
  <2>3. PICK p \in Procs : p = reg[v]
    BY <1>2
  <2>4. Seen(<<f>> \o r) = <<f>> \o r
    BY <1>3, <2>1, SeenOn
  <2>5. stack[v] = <<f>> \o r
    BY <1>2, <2>1, <2>2
  <2>6. Here(v) = Place(<<f>> \o r, p)
    BY <2>3, <2>4, <2>5 DEF Here
  <2>7. PICK b : b = Place(<<f>> \o r, p)
    OBVIOUS
  <2>8. b.of = p /\ b.makes = w /\ b.fn = Lead(r).fn /\ b.at = Lead(r).at /\ (b.idle <=> Suspending(Lead(r)))
    BY <1>3, <1>4, <2>1, <2>7, PlaceOn
  <2> QED BY <2>2, <2>3, <2>6, <2>7, <2>8
<1>11. PICK h : h = [Top(v) EXCEPT !.at = "release"]
  OBVIOUS
<1>12. h \in Held(E) /\ h.fn = "run" /\ h.at = "release" /\ h.next = Nothing
  BY <1>1, <1>2, <1>3, <1>11 DEF Held, Points, Switchers
<1>13. Skips(h) /\ ~ Pending(h)
  BY <1>12 DEF Skips, Pending
<1>14. PICK r \in Seq(Held(E)) : r = Rest(v)
  BY <1>2
<1>15. Become(v, <<h>> \o r)
  BY <1>6, <1>11, <1>14 DEF GoTo
<1>16. Here(v)'.of = reg[v] /\ \A u \in VMs \ {v} : stack'[u] = stack[u] /\ reg'[u] = reg[u]
  BY <1>6, <1>12, <1>13, <1>15, HereBecomes
<1>17. Here(v)'.fn = Here(v).fn /\ Here(v)'.at = Here(v).at /\ (Here(v)'.idle <=> Here(v).idle)
  <2>1. Here(v)'.fn = Lead(r).fn /\ Here(v)'.at = Lead(r).at /\ (Here(v)'.idle <=> Suspending(Lead(r)))
    BY <1>6, <1>12, <1>13, <1>15, HereSkips
  <2> QED BY <1>10, <1>14, <2>1
<1>18. Entered(q) => Kept(q)'
  BY <1>6, <1>8, EntersLast DEF Kept
<1>19. ASSUME Serving(Here(v), q) PROVE Kept(q)'
  <2>1. CASE Awake(Here(v))
    <3>1. Here(v).of = q /\ Awake(Here(v)')
      BY <1>10, <1>16, <1>17, <1>19, <2>1 DEF Serving, Awake, Given
    <3>2. Serving(Here(v)', q)
      BY <1>10, <1>16, <3>1 DEF Serving
    <3> QED BY <3>2 DEF Kept, Serving, Awake, Given, Claiming
  <2>2. CASE ~ Awake(Here(v))
    <3>1. q = w
      BY <1>10, <1>19, <2>2 DEF Serving
    <3>2. Serving(Spot(e), q)
      BY <1>9, <3>1 DEF Serving
    <3>3. Entered(q)'
      BY <1>6, <1>8, <3>2, EntersLast
    <3> QED BY <3>3 DEF Kept
  <2> QED BY <2>1, <2>2
<1> QED BY <1>16, <1>18, <1>19, StillKept

\* A process is signalled.
LEMMA KeptSignal ==
    ASSUME SchedulerAssumption, NEW E, Whole(E), reg \in [VMs -> Procs], NEW v \in VMs,
           Signal(v) \/ ReleaseSignal(v), NEW q, Kept(q)
    PROVE  Kept(q)'
<1> USE DEF At
<1>1. stack[v] # <<>> /\ Top(v).fn = "signal"
  BY DEF Signal, ReleaseSignal, Top
<1>2. Top(v).next = Nothing /\ Top(v).fn \notin Switchers /\ ~ Pending(Top(v))
  BY <1>1, OnMachine DEF Held, Switchers, Pending
<1>3. CASE Signal(v)
  <2>1. reg' = reg /\ GoTo(v, "unlock") /\ "unlock" \in Points
    BY <1>3 DEF Signal, Points
  <2>2. Entered(q) => Kept(q)'
    <3>1. CASE queue' = queue
      BY <3>1, StillEntered
    <3>2. CASE queue' = Append(queue, Head(semQ))
      <4>1. PICK e : e = Head(semQ)
        OBVIOUS
      <4>2. PICK D : D = E \cup {e}
        OBVIOUS
      <4>3. queue \in Seq(D) /\ e \in D /\ queue' = Append(queue, e)
        <5>1. E \subseteq D /\ e \in D
          BY <4>2
        <5>2. queue \in Seq(D)
          BY <5>1, MoreEntries DEF Whole
        <5> QED BY <3>2, <4>1, <5>1, <5>2
      <4> QED BY <4>3, EntersLast DEF Kept
    <3> QED BY <1>3, <3>1, <3>2 DEF Signal
  <2> QED BY <1>1, <1>2, <2>1, <2>2, KeptGoTo
<1>4. CASE ReleaseSignal(v)
  <2>1. reg' = reg /\ queue' = queue /\ GoTo(v, "release") /\ "release" \in Points
    BY <1>4 DEF ReleaseSignal, ReleaseMutex, GoTo, Points
  <2>2. Entered(q) => Kept(q)'
    BY <2>1, StillEntered
  <2> QED BY <1>1, <1>2, <2>1, <2>2, KeptGoTo
<1> QED BY <1>3, <1>4

\* A program calls pause, process-run-fn or signal, or the boot process forces the future.
LEMMA KeptPush ==
    ASSUME SchedulerAssumption, NEW E, Whole(E), reg \in [VMs -> Procs], NEW v \in VMs, stack[v] # <<>>,
           Top(v).fn \in {"body", "fill"}, Top(v).at = "call", NEW g \in Held(E), g.next = Nothing,
           g.fn \in {"pause", "run", "signal"} \/ (g.fn = "force" /\ g.at = "drain" /\ reg[v] = Boot),
           Become(v, <<g>> \o stack[v]), reg' = reg, NEW q, Entered(q) => Kept(q)', Kept(q)
    PROVE  Kept(q)'
<1>1. /\ Top(v) \in Held(E) /\ Rest(v) \in Seq(Held(E)) /\ stack[v] = <<Top(v)>> \o Rest(v) /\ reg[v] \in Procs
      /\ stack[v] \in Seq(Held(E))
  BY OnMachine DEF Whole, Active
<1>2. PICK f \in Held(E) : f = Top(v)
  BY <1>1
<1>3. PICK r \in Seq(Held(E)) : r = Rest(v)
  BY <1>1
<1>4. PICK p \in Procs : p = reg[v]
  BY <1>1
<1>5. f.next = Nothing /\ ~ Skips(f) /\ ~ Pending(f) /\ ~ Suspending(f) /\ f.fn \in {"body", "fill"}
  BY <1>2 DEF Held, Switchers, Skips, Pending, Suspending
<1>6. PICK t \in Seq(Held(E)) : t = <<f>> \o r
  BY <1>3, OnTop
<1>7. stack[v] = t /\ Lead(t) = f /\ Seen(t) = t
  <2>1. stack[v] = t
    BY <1>1, <1>2, <1>3, <1>6
  <2>2. Lead(<<f>> \o r) = f
    BY <1>5, LeadOn
  <2>3. Seen(<<f>> \o r) = <<f>> \o r
    <3>1. Peek(<<f>> \o r) = f
      BY OnTop
    <3> QED BY <1>5, <3>1 DEF Seen
  <2> QED BY <1>6, <2>1, <2>2, <2>3
<1>8. PICK b : b = Place(t, p)
  OBVIOUS
<1>9. b.of = p /\ b.makes = Nothing /\ b.fn \in {"body", "fill"} /\ b.idle = FALSE
  <2>1. b = Place(<<f>> \o r, p)
    BY <1>6, <1>8
  <2>2. b.of = p /\ b.makes = Nothing /\ b.fn = f.fn /\ b.idle = Suspending(f)
    BY <1>5, <2>1, PlaceOn
  <2>3. Suspending(f) = FALSE
    BY <1>5 DEF Suspending
  <2> QED BY <1>5, <2>2, <2>3
<1>10. PICK s : s = <<g>> \o t
  OBVIOUS
<1>11. s \in Seq(Held(E)) /\ Seen(s) = s /\ Become(v, s)
  <2>1. s \in Seq(Held(E))
    BY <1>10, OnTop
  <2>2. Seen(<<g>> \o t) = <<g>> \o t
    <3>1. Peek(<<g>> \o t) = g
      BY OnTop
    <3> QED BY <3>1 DEF Seen
  <2>3. Become(v, s)
    BY <1>7, <1>10
  <2> QED BY <1>10, <2>1, <2>2, <2>3
<1>12. PICK a : a = Place(s, p)
  OBVIOUS
<1>13. a.of = p /\ Awake(a)
  <2>1. a = Place(<<g>> \o t, p)
    BY <1>10, <1>12
  <2>2. /\ a.of = p /\ (Skips(g) => a.fn = Lead(t).fn /\ a.idle = Suspending(Lead(t)))
        /\ (~ Skips(g) => a.fn = g.fn /\ a.idle = Suspending(g))
    BY <2>1, PlaceOn
  <2>3. CASE Skips(g)
    BY <1>5, <1>7, <2>2, <2>3 DEF Awake, Given
  <2>4. CASE ~ Skips(g)
    <3>1. ~ Suspending(g) /\ g.fn \in {"signal", "force"} /\ (g.fn = "force" => p = Boot)
      BY <1>4, <2>4 DEF Skips, Suspending, Held
    <3> QED BY <2>2, <2>4, <3>1 DEF Awake, Given
  <2> QED BY <2>2, <2>3, <2>4
<1>14. Onward(b, a)
  BY <1>9, <1>13 DEF Onward, Claiming
<1>15. Onward(Place(Seen(stack[v]), reg[v]), Place(Seen(s), reg[v]))
  BY <1>4, <1>7, <1>8, <1>11, <1>12, <1>14
<1> QED BY <1>11, <1>15, GoesOnward

\* The program goes on.
LEMMA KeptProgram ==
    ASSUME SchedulerAssumption, NEW E, Whole(E), reg \in [VMs -> Procs], world \in Worlds, NEW v \in VMs, Perform(v) \/ Finish(v),
           NEW q, q \in Procs => Unblocked(q) /\ (q = Filler \/ q \in Idlers), q \in Someone, Kept(q)
    PROVE  Kept(q)'
<1> USE DEF At
<1>1. stack[v] # <<>> /\ Top(v).fn \in {"body", "fill"} /\ Top(v).at = "call" /\ reg' = reg /\ queue' = queue
  BY DEF Perform, Finish, Top
<1>2. Top(v) \in Held(E) /\ Top(v).who = reg[v] /\ reg[v] \in Procs /\ Top(v).next = Nothing
  BY <1>1, OnMachine DEF Good, Held, Switchers
<1>3. Entered(q) => Kept(q)'
  BY <1>1, StillEntered
<1>4. \A u \in VMs \ {v} : stack'[u] = stack[u] /\ reg'[u] = reg[u]
  <2>1. \E s : Become(v, s)
    BY DEF Perform, Finish
  <2> QED BY <1>1, <2>1 DEF Become, Whole, Active
<1>5. CASE ~ Serving(Here(v), q)
  BY <1>3, <1>4, <1>5, StillKept
<1>6. CASE Serving(Here(v), q)
  <2>1. Top(v).who = q /\ reg[v] = q /\ q \in Procs /\ (Top(v).fn = "body" => q # Filler)
    <3>1. ~ Skips(Top(v)) /\ ~ Suspending(Top(v)) /\ ~ Pending(Top(v))
      BY <1>1 DEF Skips, Suspending, Pending
    <3>2. Here(v).of = reg[v] /\ Here(v).fn = Top(v).fn /\ Here(v).idle = Suspending(Top(v))
      BY <1>1, <1>2, <3>1, HereIs
    <3>3. reg[v] = q
      BY <1>1, <1>6, <3>1, <3>2 DEF Serving, Awake, Given
    <3> QED BY <1>1, <1>2, <3>3, OnMachine DEF Good
  <2>2. \E g \in Held(E) : /\ g.next = Nothing /\ Become(v, <<g>> \o stack[v])
                           /\ g.fn \in {"pause", "run", "signal"} \/ (g.fn = "force" /\ g.at = "drain" /\ reg[v] = Boot)
    <3>1. CASE Finish(v)
      <4>1. PICK g : g = Frame("pause", "disable")
        OBVIOUS
      <4>2. g \in Held(E) /\ g.next = Nothing /\ g.fn = "pause"
        BY <4>1 DEF Frame, Held, Functions_, Users, Points, Switchers
      <4>3. Top(v).fn = "body" /\ q \in Idlers
        BY <2>1, <3>1 DEF Finish, Top
      <4>4. Become(v, <<g>> \o stack[v])
        BY <2>1, <3>1, <4>1, <4>3 DEF Finish
      <4> QED BY <4>2, <4>4
    <3>2. CASE \E op \in world.calls[q] \ {"run"} : Become(v, <<CallFrame(op)>> \o stack[v])
      <4>1. PICK op \in world.calls[q] \ {"run"} : Become(v, <<CallFrame(op)>> \o stack[v])
        BY <3>2
      <4>2. op = "signal" \/ (op = "force" /\ q = Boot)
        BY <2>1, <4>1 DEF Unblocked
      <4>3. PICK g : g = CallFrame(op)
        OBVIOUS
      <4>4. CASE op = "signal"
        <5>1. g \in Held(E) /\ g.next = Nothing /\ g.fn = "signal"
          BY <4>3, <4>4, Fresh DEF CallFrame, Points, Switchers
        <5> QED BY <4>1, <4>3, <5>1
      <4>5. CASE op = "force" /\ q = Boot
        <5>1. g = Frame("force", "drain")
          BY <4>3, <4>5 DEF CallFrame
        <5>2. g \in Held(E) /\ g.next = Nothing /\ g.fn = "force" /\ g.at = "drain"
          BY <5>1, Fresh DEF Points, Switchers
        <5> QED BY <2>1, <4>1, <4>3, <4>5, <5>2
      <4> QED BY <4>2, <4>4, <4>5
    <3>3. CASE \E w \in world.makes[q] : Become(v, <<RunFn(w)>> \o stack[v])
      <4>1. PICK w \in world.makes[q] : Become(v, <<RunFn(w)>> \o stack[v])
        BY <3>3
      <4>2. w \in Procs
        BY <2>1, <4>1 DEF SchedulerAssumption
      <4>3. PICK g : g = RunFn(w)
        OBVIOUS
      <4>4. g \in Held(E) /\ g.next = Nothing /\ g.fn = "run"
        BY <4>2, <4>3, Newborn DEF RunFn, Frame
      <4> QED BY <4>1, <4>3, <4>4
    <3> QED BY <2>1, <3>1, <3>2, <3>3 DEF Perform
  <2>3. PICK g \in Held(E) : /\ g.next = Nothing /\ Become(v, <<g>> \o stack[v])
                             /\ g.fn \in {"pause", "run", "signal"} \/ (g.fn = "force" /\ g.at = "drain" /\ reg[v] = Boot)
    BY <2>2
  <2> QED BY <1>1, <1>3, <2>1, <2>3, KeptPush
<1> QED BY <1>5, <1>6

\* Every step but those that begin and end a suspension, and the claim of the filler.
LEMMA KeptOtherwise ==
    ASSUME SchedulerAssumption, EntriesAreSomething, AlarmsAlone, NeverIdle,
           NEW E, Whole(E), reg \in [VMs -> Procs], world \in Worlds, NEW v \in VMs, Step(v) \/ Tick(v),
           ~ (TestFlag(v) /\ ~ flag), ~ Claim(v), ~ AppendDependants(v),
           NEW q \in Someone, q \in Procs => Unblocked(q) /\ (q = Filler \/ q \in Idlers), Kept(q)
    PROVE  Kept(q)'
<1>1. CASE DisableAlarms(v) \/ AcquireScheduler(v) \/ ReleaseScheduler(v) \/ EnableAlarms(v)
  BY <1>1, KeptScheduler
<1>2. CASE Pause(v) \/ Start(v) \/ Go(v)
  BY <1>2, KeptSwitch
<1>3. CASE ProcessRunFn(v)
  BY <1>3, KeptRun
<1>4. CASE Alarm(v) \/ AcquireMutex(v) \/ Tick(v)
  BY <1>4, KeptAlarm
<1>5. CASE Wait(v) \/ ReleaseWait(v) \/ Block(v) \/ WaitReturns(v)
  BY <1>5, KeptWaiting
<1>6. CASE Signal(v) \/ ReleaseSignal(v)
  BY <1>6, KeptSignal
<1>7. CASE Drain(v) \/ (TestFlag(v) /\ flag) \/ ForceReturns(v) \/ ReleaseForce(v) \/ ForceFallsThrough(v)
  BY <1>7, KeptForce
<1>8. CASE ComputeValue(v) \/ SetValue(v) \/ ReleaseValue(v)
  BY <1>8, KeptFill
<1>9. CASE Perform(v) \/ Finish(v)
  BY <1>9, KeptProgram
<1> QED BY <1>1, <1>2, <1>3, <1>4, <1>5, <1>6, <1>7, <1>8, <1>9 DEF Step

\* They leave the future to those who have it.
LEMMA SameFuture ==
    ASSUME log \in Logs, NEW v \in VMs, Step(v) \/ Tick(v), ~ (TestFlag(v) /\ ~ flag), ~ AppendDependants(v)
    PROVE  /\ dependantsQ' = dependantsQ /\ log'.delivered = log.delivered
           /\ ~ Claim(v) => scheduled' = scheduled
<1> USE DEF future, clock, semaphore, program, vars
<1>1. CASE \/ DisableAlarms(v) \/ AcquireScheduler(v) \/ ReleaseScheduler(v) \/ EnableAlarms(v)
           \/ Pause(v) \/ Start(v) \/ Go(v) \/ ProcessRunFn(v) \/ Alarm(v) \/ AcquireMutex(v) \/ Tick(v)
  BY <1>1 DEF DisableAlarms, AcquireScheduler, ReleaseScheduler, EnableAlarms, Pause, Start, SwitchTo, Go, ProcessRunFn,
              Alarm, AcquireMutex, Tick
<1>2. CASE Wait(v) \/ ReleaseWait(v) \/ Block(v) \/ WaitReturns(v) \/ Signal(v) \/ ReleaseSignal(v)
  BY <1>2 DEF Wait, ReleaseWait, Block, WaitReturns, Signal, ReleaseSignal, ReleaseMutex, Logs
<1>3. CASE Drain(v) \/ (TestFlag(v) /\ flag) \/ ForceReturns(v) \/ ReleaseForce(v) \/ Claim(v) \/ ForceFallsThrough(v)
  BY <1>3 DEF Drain, TestFlag, ForceReturns, ReleaseForce, Claim, ForceFallsThrough, ReleaseMutex, Logs
<1>4. CASE ComputeValue(v) \/ SetValue(v) \/ ReleaseValue(v) \/ Perform(v) \/ Finish(v)
  BY <1>4 DEF ComputeValue, SetValue, ReleaseValue, Perform, Finish, ReleaseMutex, Logs
<1> QED BY <1>1, <1>2, <1>3, <1>4 DEF Step

\* Whom the dependants keep going depends on nothing else.
LEMMA StillDelegated ==
    ASSUME dependantsQ' = dependantsQ, log'.delivered = log.delivered
    PROVE  Delegated' <=> Delegated
<1>1. \A i : Serving(Spot(dependantsQ[i]), Boot)' <=> Serving(Spot(dependantsQ[i]), Boot)
  BY DEF Serving, Awake, Given, Claiming, Spot
<1> QED BY <1>1 DEF Delegated

\* Nobody loses the work that keeps the machines busy.
LEMMA KeptNext ==
    ASSUME SchedulerAssumption, MakersAssumption, EntriesAreSomething, AlarmsAlone, IdleWork,
           IInv, NeverIdle, Continuing, AllWork, [Next]_vars
    PROVE  AllWork'
<1>1. PICK E : Whole(E)
  BY DEF Continuing
<1>2. reg \in [VMs -> Procs] /\ world \in Worlds /\ log \in Logs /\ Answered
  BY DEF IInv, Base
<1>3. \A q \in Steady : q \in Procs /\ q # Filler /\ q \in Someone /\ Unblocked(q) /\ q \in Idlers
  BY <1>2, SteadyIs DEF Someone
<1>4. /\ Filler \in Procs /\ Filler # Boot /\ Filler \in Someone /\ Unblocked(Filler)
      /\ Nothing \in Someone /\ Nothing \notin Procs
  BY DEF SchedulerAssumption, MakersAssumption, IdleWork, Someone
<1>5. CASE Next
  <2>1. PICK v \in VMs : Step(v) \/ Tick(v)
    BY <1>5 DEF Next
  <2>2. Steady' = Steady
    BY <2>1, SameWorld DEF Steady, Own
  <2>3. CASE TestFlag(v) /\ ~ flag
    <3>1. ~ log.delivered
      BY <1>2, <2>3 DEF Answered
    <3>2. log' = log /\ scheduled' = scheduled
      BY <2>3 DEF TestFlag
    <3>3. /\ \A q \in Someone : Kept(q) => Kept(q)' \/ (q = Boot /\ Delegated')
          /\ Delegated => Delegated'
          /\ Kept(Nothing)'
      BY <1>1, <1>2, <2>3, <3>1, KeptTest
    <3>4. \A q \in Steady : Kept(q)' \/ (q = Boot /\ Delegated')
      BY <1>3, <3>3 DEF AllWork
    <3>5. scheduled' /\ ~ log'.delivered => Kept(Filler)'
      BY <1>4, <3>2, <3>3 DEF AllWork
    <3>6. Delegated' /\ ~ scheduled' => Kept(Nothing)'
      BY <3>3
    <3> QED BY <2>2, <3>4, <3>5, <3>6 DEF AllWork
  <2>4. CASE AppendDependants(v)
    <3>1. log'.delivered
      BY <1>2, <2>4 DEF AppendDependants, Logs
    <3>2. (\A q \in Someone \ {Filler} : Kept(q) => Kept(q)') /\ (Delegated => Kept(Boot)')
      BY <1>1, <1>2, <2>4, KeptAppend
    <3>3. \A q \in Steady : Kept(q)'
      BY <1>3, <3>2 DEF AllWork
    <3>4. ~ Delegated'
      BY <3>1 DEF Delegated
    <3> QED BY <2>2, <3>1, <3>3, <3>4 DEF AllWork
  <2>5. CASE Claim(v)
    <3>1. dependantsQ' = dependantsQ /\ log'.delivered = log.delivered /\ scheduled'
      BY <2>5 DEF Claim
    <3>2. Delegated' <=> Delegated
      BY <3>1, StillDelegated
    <3>3. (\A q \in Procs : Kept(q) => Kept(q)') /\ (~ scheduled => Kept(Filler)')
      BY <1>1, <1>2, <2>5, KeptClaim
    <3>4. \A q \in Steady : Kept(q)' \/ (q = Boot /\ Delegated')
      BY <1>3, <3>2, <3>3 DEF AllWork
    <3>5. scheduled' /\ ~ log'.delivered => Kept(Filler)'
      BY <1>4, <3>1, <3>3 DEF AllWork
    <3> QED BY <2>2, <3>1, <3>4, <3>5 DEF AllWork
  <2>6. CASE ~ (TestFlag(v) /\ ~ flag) /\ ~ AppendDependants(v) /\ ~ Claim(v)
    <3>1. dependantsQ' = dependantsQ /\ log'.delivered = log.delivered /\ scheduled' = scheduled
      BY <1>2, <2>1, <2>6, SameFuture
    <3>2. Delegated' <=> Delegated
      BY <3>1, StillDelegated
    <3>3. ASSUME NEW q \in Someone, q \in Procs => Unblocked(q) /\ (q = Filler \/ q \in Idlers), Kept(q) PROVE Kept(q)'
      BY <1>1, <1>2, <2>1, <2>6, <3>3, KeptOtherwise
    <3>4. \A q \in Steady : Kept(q)' \/ (q = Boot /\ Delegated')
      BY <1>3, <3>2, <3>3 DEF AllWork
    <3>5. scheduled' /\ ~ log'.delivered => Kept(Filler)'
      BY <1>4, <3>1, <3>3 DEF AllWork
    <3>6. Delegated' /\ ~ scheduled' => Kept(Nothing)'
      BY <1>4, <3>1, <3>2, <3>3 DEF AllWork
    <3> QED BY <2>2, <3>4, <3>5, <3>6 DEF AllWork
  <2> QED BY <2>3, <2>4, <2>5, <2>6
<1>6. CASE UNCHANGED vars
  <2>1. /\ stack' = stack /\ reg' = reg /\ queue' = queue /\ world' = world /\ dependantsQ' = dependantsQ
        /\ log' = log /\ scheduled' = scheduled
    BY <1>6 DEF vars, program, future
  <2>2. Steady' = Steady
    BY <2>1 DEF Steady, Own
  <2>3. ASSUME NEW q, Kept(q) PROVE Kept(q)'
    <3>1. \A v \in VMs : Here(v)' = Here(v)
      BY <2>1 DEF Here
    <3>2. Entered(q) => Kept(q)'
      BY <2>1, StillEntered
    <3>3. ASSUME NEW v \in VMs, Serving(Here(v), q) PROVE Kept(q)'
      BY <3>1, <3>3 DEF Kept, Serving, Awake, Given, Claiming
    <3> QED BY <2>3, <3>2, <3>3 DEF Kept
  <2>4. Delegated' <=> Delegated
    BY <2>1, StillDelegated
  <2>5. \A q \in Steady : Kept(q)' \/ (q = Boot /\ Delegated')
    BY <2>3, <2>4 DEF AllWork
  <2>6. scheduled' /\ ~ log'.delivered => Kept(Filler)'
    BY <2>1, <2>3 DEF AllWork
  <2>7. Delegated' /\ ~ scheduled' => Kept(Nothing)'
    BY <2>1, <2>3, <2>4 DEF AllWork
  <2> QED BY <2>2, <2>5, <2>6, <2>7 DEF AllWork
<1> QED BY <1>5, <1>6

\* At the beginning every machine has its own.
LEMMA KeptInit ==
    ASSUME SchedulerAssumption, Init
    PROVE  AllWork
<1>1. ASSUME NEW q \in Steady PROVE Kept(q)
  <2>1. PICK v \in world.machines : q = Own(v)
    BY DEF Steady
  <2>2. v \in VMs /\ world \in Worlds
    BY DEF Init, SchedulerAssumption
  <2>3. Serving(Here(v), q)
    <3>1. CASE v = Main
      BY <2>1, <2>2, <3>1, StartPlaces DEF Serving, Awake, Given, Own
    <3>2. CASE v # Main
      <4>1. Busy[v] # Nothing
        BY <2>2, <3>2 DEF SchedulerAssumption
      <4> QED BY <2>1, <2>2, <3>2, <4>1, StartPlaces DEF Serving, Awake, Own
    <3> QED BY <3>1, <3>2
  <2> QED BY <2>2, <2>3 DEF Kept
<1>2. dependantsQ = <<>> /\ ~ scheduled
  BY DEF Init
<1>3. ~ Delegated
  <2>1. Len(dependantsQ) = 0
    BY <1>2
  <2> QED BY <2>1 DEF Delegated
<1> QED BY <1>1, <1>2, <1>3 DEF AllWork

\* A machine that was not started keeps nobody going.
LEMMA ServesNone ==
    ASSUME SchedulerAssumption, NEW v, stack[v] = <<>>, NEW q \in Someone
    PROVE  ~ Serving(Here(v), q)
<1>1. PICK z : z = <<>>
  OBVIOUS
<1>2. Peek(z) = Bottom /\ Bottom.next = Nothing /\ Bottom.fn = ""
  BY <1>1 DEF Peek, Bottom, Frame
<1>3. Seen(z) = z /\ Runner(z) = Nothing
  BY <1>2 DEF Seen, Runner, Pending
<1>4. ~ HasLead(z)
  BY <1>1 DEF HasLead
<1>5. Suspending(Lead(z)) /\ Lead(z).fn = "start"
  BY <1>4 DEF Lead, Suspending, Frame
<1>6. Here(v) = Place(z, reg[v])
  BY <1>1, <1>3 DEF Here
<1>7. Here(v).idle = Suspending(Lead(z)) /\ Here(v).makes = Runner(z) /\ Here(v).fn = "start"
  BY <1>5, <1>6 DEF Place
<1> QED BY <1>3, <1>5, <1>7 DEF Serving, Awake, Claiming

\* As many processes are kept going as there are machines, so one that is between processes
\* finds one in the queue: the others cannot have taken all of them.
LEMMA OneIsLeft ==
    ASSUME SchedulerAssumption, MakersAssumption, IdleWork, IInv, Continuing, AllWork
    PROVE  NeverIdle
<1>1. PICK E : Whole(E)
  BY DEF Continuing
<1>2. reg \in [VMs -> Procs] /\ world \in Worlds /\ Clocked
  BY DEF IInv, Base
<1>3. SUFFICES ASSUME NEW v \in VMs, At(v, {"start"}, "inside"), queue = <<>> PROVE FALSE
  BY DEF NeverIdle
<1>4. stack[v] # <<>> /\ Top(v).fn = "start" /\ Top(v).at = "inside"
  BY <1>3 DEF At, Top
<1>5. Top(v).next = Nothing
  BY <1>1, <1>4, OnMachine DEF Held
<1>6. v \in world.machines /\ world.machines \subseteq VMs /\ Main \in world.machines
  BY <1>2, <1>4 DEF Clocked, SchedulerAssumption
<1>7. ASSUME NEW q \in Someone, Kept(q) PROVE \E w \in world.machines \ {v} : Serving(Here(w), q)
  <2>1. ~ Entered(q)
    BY <1>3 DEF Entered
  <2>2. PICK w \in VMs : Serving(Here(w), q)
    BY <1>7, <2>1 DEF Kept
  <2>3. w # v
    BY <1>1, <1>2, <1>4, <1>5, <2>2, ServesNobody
  <2>4. w \in world.machines
    BY <1>2, <2>2, ServesNone DEF Clocked
  <2> QED BY <2>2, <2>3, <2>4
<1>8. PICK z \in {Boot, Filler, Nothing} : Kept(z)
  <2>1. Boot \in Steady
    BY <1>6 DEF Steady, Own
  <2>2. Kept(Boot) \/ Delegated
    BY <2>1 DEF AllWork
  <2>3. Delegated => Kept(Filler) \/ Kept(Nothing)
    BY DEF AllWork, Delegated
  <2> QED BY <2>2, <2>3
<1>9. PICK S : S = world.machines
  OBVIOUS
<1>10. PICK T : T = S \ {v}
  OBVIOUS
<1>11. PICK m : m = [u \in S |-> IF u = Main THEN z ELSE Busy[u]]
  OBVIOUS
<1>12. ASSUME NEW u \in S PROVE m[u] \in Someone /\ Kept(m[u])
  <2>1. CASE u = Main
    BY <1>8, <1>11, <2>1 DEF Someone, SchedulerAssumption
  <2>2. CASE u # Main
    <3>1. u \in VMs \ {Main} /\ m[u] = Busy[u]
      BY <1>6, <1>9, <1>11, <2>2
    <3>2. Busy[u] \in Steady /\ Busy[u] \in Procs /\ Busy[u] # Boot
      BY <1>9, <2>2, <3>1 DEF Steady, Own, SchedulerAssumption, MakersAssumption
    <3> QED BY <3>1, <3>2 DEF AllWork, Someone
  <2> QED BY <2>1, <2>2
<1>13. PICK k : k = [u \in S |-> CHOOSE w \in T : Serving(Here(w), m[u])]
  OBVIOUS
<1>14. ASSUME NEW u \in S PROVE k[u] \in T /\ Serving(Here(k[u]), m[u])
  <2>1. \E w \in T : Serving(Here(w), m[u])
    BY <1>7, <1>9, <1>10, <1>12
  <2>2. k[u] = CHOOSE w \in T : Serving(Here(w), m[u])
    BY <1>13
  <2> QED BY <2>1, <2>2
<1>15. k \in [S -> T]
  BY <1>13, <1>14
<1>16. IsFiniteSet(S) /\ IsFiniteSet(T) /\ Cardinality(T) < Cardinality(S)
  <2>1. IsFiniteSet(S)
    BY <1>6, <1>9, FS_Subset DEF MakersAssumption
  <2>2. IsFiniteSet(T) /\ Cardinality(T) = Cardinality(S) - 1
    BY <1>6, <1>9, <1>10, <2>1, FS_RemoveElement
  <2>3. Cardinality(S) \in Nat
    BY <2>1, FS_CardinalityType
  <2> QED BY <2>1, <2>2, <2>3
<1>17. PICK x \in S, y \in S : x # y /\ k[x] = k[y]
  BY <1>15, <1>16, FS_PigeonHole
<1>18. m[x] = m[y]
  <2>1. Serving(Here(k[x]), m[x]) /\ Serving(Here(k[x]), m[y])
    BY <1>14, <1>17
  <2> QED BY <2>1 DEF Serving
<1>19. m[x] # m[y]
  <2>1. x \in VMs /\ y \in VMs
    BY <1>6, <1>9
  <2>2. \A u \in VMs \ {Main} : Busy[u] \in Procs /\ Busy[u] \notin {Boot, Filler, Nothing}
    BY DEF SchedulerAssumption, MakersAssumption
  <2>3. m[x] = (IF x = Main THEN z ELSE Busy[x]) /\ m[y] = (IF y = Main THEN z ELSE Busy[y])
    BY <1>11
  <2> QED BY <1>8, <1>17, <2>1, <2>2, <2>3 DEF MakersAssumption
<1> QED BY <1>18, <1>19

\* In a world where the work of each machine is a process that pauses for ever and calls
\* nothing that could suspend it, but that the boot process may force the future, whose body
\* then calls nothing that could suspend it either, start finds an entry to run.
THEOREM MachinesFindWork ==
    ASSUME SchedulerAssumption, MakersAssumption, EntriesAreSomething, AlarmsAlone
    PROVE  Spec /\ IdleWork => []NeverIdle
<1>1. Init => Continuing /\ AllWork
  <2>1. ASSUME Init PROVE Forced
    BY <2>1 DEF Init, Forced
  <2> QED BY <2>1, WholeInit, KeptInit DEF Continuing
<1>2. IInv /\ Continuing /\ AllWork /\ IdleWork => NeverIdle
  BY OneIsLeft
<1>3. IInv /\ Continuing /\ AllWork /\ IdleWork /\ [Next]_vars => Continuing' /\ AllWork'
  BY <1>2, WholeNext, KeptNext
<1>4. IdleWork /\ [Next]_vars => IdleWork'
  <2>1. ASSUME [Next]_vars PROVE world' = world
    BY <2>1, SameWorld DEF Next, vars, program
  <2> QED BY <2>1 DEF IdleWork, Own, Unblocked
<1> QED BY <1>1, <1>2, <1>3, <1>4, Invariance, PTL DEF Spec

\* In such a world nothing else is assumed of the program: every process is in one place, a
\* program runs as itself, and semaphores and futures do what they promise.
THEOREM SchedulerKeepsPromises ==
    ASSUME SchedulerAssumption, MakersAssumption, EntriesAreSomething, AlarmsAlone
    PROVE  Spec /\ IdleWork => []RunsOnce /\ []RegisterFits /\ []WaitersSignalled /\ []FutureAnswersOnce
BY MachinesFindWork, RunsInOnePlace, RunsAsItself, WaitersPassOnSignals, FutureAnswers, PTL
=============================================================================
