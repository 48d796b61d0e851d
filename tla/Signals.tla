------------------------------ MODULE Signals ------------------------------
(***************************************************************************)
(* What interrupts the instructions of a thread: the user's ^C, which sets *)
(* a flag that thread 0 polls, the alarm counter, and fatal signals, after *)
(* which the thread jumps back into loop() and calls a trap operation.     *)
(* The flag, the counter and the dispositions of the process are shared.   *)
(***************************************************************************)
EXTENDS Integers

CONSTANTS
    Threads,                    \* indices; 0 is the first thread
    MAX_CONSECUTIVE_CRASHES,
    CRASH_PROGRESS_INSTRS

SignalsAssumption ==
    /\ 0 \in Threads
    /\ MAX_CONSECUTIVE_CRASHES \in Nat /\ CRASH_PROGRESS_INSTRS \in Nat

VARIABLES
    signal_poll_flag,           \* whether it is nonzero
    expired, alarms,            \* timer_counter > TIMEOUT, and timer_increment
    handlers,                   \* the fatal signals with crash_handler as disposition
    crash_count, crash_progress,
    pc,
    process,                    \* "alive", "aborted" or "killed"
    owed,       \* ghost: the user waits for an answer to ^C
    quiet,      \* ghost: instructions that a thread began since it crashed
    streak      \* ghost: crashes of a thread in a row, with few instructions between

vars == <<signal_poll_flag, expired, alarms, handlers, crash_count, crash_progress, pc, process, owed, quiet, streak>>

polling  == <<signal_poll_flag, expired, alarms, owed>>
crashing == <<handlers, crash_count, crash_progress, process, quiet, streak>>

Fatal == {"SIGSEGV", "SIGFPE"}      \* and SIGBUS

Init ==
    /\ signal_poll_flag = FALSE /\ expired = FALSE /\ alarms = FALSE /\ owed = FALSE
    /\ handlers = Fatal /\ process = "alive"
    /\ crash_count = [t \in Threads |-> 0] /\ crash_progress = [t \in Threads |-> 0]
    /\ quiet = [t \in Threads |-> 0] /\ streak = [t \in Threads |-> 0]
    /\ pc = [t \in Threads |-> "run"]

Goto(t, from, to) == process = "alive" /\ pc[t] = from /\ pc' = [pc EXCEPT ![t] = to]

\* intr_proc, at any moment.
IntrProc ==
    /\ process = "alive" /\ signal_poll_flag' = TRUE /\ owed' = TRUE
    /\ UNCHANGED <<expired, alarms, pc, crashing>>

Begun(t) == quiet' = [quiet EXCEPT ![t] = IF @ > CRASH_PROGRESS_INSTRS THEN @ ELSE @ + 1]

\* Mutant: progress is counted and never rewarded.
DispatchUnforgiving(t) ==
    /\ Goto(t, "run", "instr")
    /\ expired' \in {expired, expired \/ alarms}
    /\ Begun(t)
    /\ UNCHANGED <<signal_poll_flag, alarms, owed, handlers, crash_count, crash_progress, process, streak>>

\* Dispatch of an instruction: it counts as progress after a crash, and it ticks.
Dispatch(t) ==
    /\ Goto(t, "run", "instr")
    /\ LET far == crash_count[t] # 0 /\ crash_progress[t] + 1 > CRASH_PROGRESS_INSTRS
       IN  /\ crash_count' = [crash_count EXCEPT ![t] = IF far THEN 0 ELSE @]
           /\ crash_progress' = [crash_progress EXCEPT ![t] =
                                   IF far THEN 0 ELSE IF crash_count[t] = 0 THEN @ ELSE @ + 1]
    /\ expired' \in {expired, expired \/ alarms}
    /\ Begun(t)
    /\ UNCHANGED <<signal_poll_flag, alarms, owed, handlers, process, streak>>

\* Any instruction; RESET-ALARM-COUNTER, ENABLE-ALARMS, DISABLE-ALARMS are among them.
Execute(t) ==
    /\ Goto(t, "instr", "run")
    /\ \/ UNCHANGED alarms /\ expired' \in {expired, FALSE}
       \/ alarms' = TRUE /\ UNCHANGED expired
       \/ alarms' = FALSE /\ expired' = FALSE
    /\ UNCHANGED <<signal_poll_flag, owed, crashing>>

\* POLL_USER_SIGNALS and POLL_TIMER_SIGNALS, in branches and calls.
PollSignals(t) ==
    /\ (signal_poll_flag /\ t = 0) \/ (expired /\ alarms)
    /\ Goto(t, "instr", "intr_trap")
    /\ UNCHANGED <<polling, crashing>>

\* intr_trap looks again, whoever it is: the user's interrupt goes first, then the
\* alarm, and if somebody else has taken that, it is a user trap all the same.
IntrTrap(t) ==
    /\ Goto(t, "intr_trap", "run")
    /\ IF signal_poll_flag
       THEN signal_poll_flag' = FALSE /\ owed' = FALSE /\ UNCHANGED expired
       ELSE expired' = FALSE /\ UNCHANGED <<signal_poll_flag, owed>>
    /\ UNCHANGED <<alarms, crashing>>

\* A fatal signal finds crash_handler and, by SA_RESETHAND, takes it away.
Fault(t, sig) ==
    /\ IF sig \in handlers
       THEN Goto(t, "instr", "handler") /\ handlers' = handlers \ {sig} /\ UNCHANGED process
       ELSE Goto(t, "instr", "handler") /\ process' = "killed" /\ UNCHANGED handlers
    /\ UNCHANGED <<polling, crash_count, crash_progress, quiet, streak>>

CrashHandler(t) ==
    /\ crash_count' = [crash_count EXCEPT ![t] = @ + 1]
    /\ streak' = [streak EXCEPT ![t] = IF quiet[t] > CRASH_PROGRESS_INSTRS THEN 1 ELSE @ + 1]
    /\ quiet' = [quiet EXCEPT ![t] = 0]
    /\ Goto(t, "handler", "recover")
    /\ process' = IF crash_count'[t] > MAX_CONSECUTIVE_CRASHES THEN "aborted" ELSE process
    /\ UNCHANGED <<polling, handlers, crash_progress>>

\* Behind oak_setjmp.
Recover(t) ==
    /\ Goto(t, "recover", "run")
    /\ handlers' = Fatal /\ expired' = FALSE
    /\ crash_progress' = [crash_progress EXCEPT ![t] = 0]
    /\ UNCHANGED <<signal_poll_flag, alarms, owed, crash_count, process, quiet, streak>>

Over == process # "alive" /\ UNCHANGED vars

Next ==
    \/ IntrProc \/ Over
    \/ \E t \in Threads :
        \/ Dispatch(t) \/ Execute(t) \/ PollSignals(t) \/ IntrTrap(t)
        \/ \E sig \in Fatal : Fault(t, sig)
        \/ CrashHandler(t) \/ Recover(t)

Spec == Init /\ [][Next]_vars

----------------------------------------------------------------------------
\* ^C is answered: as long as the user waits the flag is up, whatever thread takes
\* the interrupt and whatever alarms and crashes happen meanwhile.
InterruptKept == owed => signal_poll_flag

\* A crash ends the process only when a thread has crashed too often without
\* progress, or when another thread was still in the handler of its own crash.
EndsOnlyAsMeant ==
    /\ process = "aborted" => \E t \in Threads : streak[t] > MAX_CONSECUTIVE_CRASHES
    /\ process = "killed" => \E t, u \in {v \in Threads : pc[v] \in {"handler", "recover"}} : t # u
=============================================================================
