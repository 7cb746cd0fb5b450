----------------------------- MODULE ThreadWait -----------------------------
(***************************************************************************)
(* The part of a Thread that a sleep leaves behind: its status, the        *)
(* callback to run when a timeout ends the sleep, and the wakeup events    *)
(* that are on their way to it.  Shared by AddressArbiter, CpuLimiter and  *)
(* HleAsync, and composed with them in CoreOne.                            *)
(*                                                                         *)
(* Wakeup events are counted, not timed: a pending event may be due at any *)
(* moment.  wakeups[t] counts the events of thread t in the event queue    *)
(* of its core, ts_wakeups[t] those that a host thread has pushed into the *)
(* thread-safe queue and that no Advance has moved yet.                    *)
(***************************************************************************)
EXTENDS Integers

CONSTANTS
    Threads,    \* the threads of one core
    None,       \* a null pointer
    Priority,   \* current_priority; 0 is the best
    ProcessOf   \* owner_process

ASSUME PriorityAssumption == Priority \in [Threads -> Nat]
ASSUME NullAssumption ==
    None \notin Threads \cup {"Arbiter", "HLE", "WaitArb", "WaitHleEvent"}

VARIABLES
    status,           \* Thread::status
    current,          \* ThreadManager::current_thread
    wakeup_callback,  \* Thread::wakeup_callback: whose it is, or None
    wakeups,          \* wakeup events in the event queue
    ts_wakeups,       \* wakeup events in the thread-safe queue
    died,             \* history: threads stopped in WaitArb or WaitHleEvent
    failed            \* the assertions and exceptions that stop the emulator

threadVars == <<status, current, wakeup_callback, wakeups, ts_wakeups, died, failed>>

Sleeping == {"WaitSleep", "WaitArb", "WaitHleEvent"}
Statuses == Sleeping \cup {"Ready", "Running", "Dead"}
Failures == {"Inconsistent AddressArbiter state", "arbiter destroyed",
             "status == WaitHleEvent", "wakeup_callback_table.at",
             "wakeup_callback == nullptr", "already resumed", "DEAD"}

ThreadTypeOK ==
    /\ status \in [Threads -> Statuses]
    /\ current \in Threads \cup {None}
    /\ wakeup_callback \in [Threads -> {None, "Arbiter", "HLE"}]
    /\ wakeups \in [Threads -> Nat]
    /\ ts_wakeups \in [Threads -> Nat]
    /\ died \in [Threads -> {"WaitArb", "WaitHleEvent", None}]
    /\ failed \in SUBSET Failures

ThreadInit ==
    /\ status = [t \in Threads |-> "Ready"]
    /\ current = None
    /\ wakeup_callback = [t \in Threads |-> None]
    /\ wakeups = [t \in Threads |-> 0]
    /\ ts_wakeups = [t \in Threads |-> 0]
    /\ died = [t \in Threads |-> None]
    /\ failed = {}

-----------------------------------------------------------------------------
(* A thread that can make a system call. *)
Runs(t) == failed = {} /\ current = t /\ status[t] = "Running"

(* The assertions of ResumeFromWait: a Ready thread has lost its callback,  *)
(* and neither a running nor a stopped thread is resumed.  The threads of   *)
(* this module wait for no WaitObject; for those that do, wait_objects is   *)
(* in KernelSync and the first assertion in its "waking up while waiting".  *)
Refused(S) ==
    {f \in {"wakeup_callback == nullptr", "already resumed", "DEAD"} :
        \E t \in S :
            \/ /\ f = "wakeup_callback == nullptr"
               /\ status[t] = "Ready" /\ wakeup_callback[t] # None
            \/ f = "already resumed" /\ status[t] = "Running"
            \/ f = "DEAD" /\ status[t] = "Dead"}

(* Thread::ResumeFromWait for every thread of S: those that sleep become    *)
(* Ready and lose their callback, the others are left alone; earlier are    *)
(* the assertions that failed on the way here.                              *)
Resumed(st, S) ==
    [t \in Threads |-> IF t \in S /\ st[t] \in Sleeping THEN "Ready" ELSE st[t]]

(* Faulty variant: a thread that is resumed keeps its callback. *)
CallbacksKept(S) == wakeup_callback

CallbacksCleared(S) ==
    [t \in Threads |-> IF t \in S /\ status[t] \in Sleeping THEN None ELSE wakeup_callback[t]]

ResumeFromWait(S, earlier) ==
    /\ status' = Resumed(status, S)
    /\ wakeup_callback' = CallbacksCleared(S)
    /\ failed' = earlier \cup Refused(S)

(* WakeAfterDelay on the emulation thread; a delay of -1 schedules nothing. *)
WakeAfterDelay(t, timed) ==
    wakeups' = IF timed THEN [wakeups EXCEPT ![t] = @ + 1] ELSE wakeups

(* Timer::MoveEvents, the first thing every Advance does. *)
MovedWakeups == [t \in Threads |-> wakeups[t] + ts_wakeups[t]]
NoWakeups == [t \in Threads |-> 0]

(* Thread::Stop for every thread of S: cancels the wakeup events that are   *)
(* in an event queue, and those only.                                       *)
Stop(S) ==
    /\ wakeups' = [t \in Threads |-> IF t \in S THEN 0 ELSE wakeups[t]]
    /\ status' = [t \in Threads |-> IF t \in S THEN "Dead" ELSE status[t]]
    /\ died' = [t \in Threads |-> IF t \in S /\ status[t] \in {"WaitArb", "WaitHleEvent"}
                                 THEN status[t] ELSE died[t]]
    /\ UNCHANGED <<current, wakeup_callback, ts_wakeups, failed>>

(* svcSleepThread with a positive delay. *)
SleepThread(t) ==
    /\ Runs(t)
    /\ status' = [status EXCEPT ![t] = "WaitSleep"]
    /\ WakeAfterDelay(t, TRUE)
    /\ UNCHANGED <<current, wakeup_callback, ts_wakeups, died, failed>>

(* svcExitThread. *)
ExitThread(t) == Runs(t) /\ Stop({t})

(* svcTerminateProcess, or svcExitProcess of a thread of another core. *)
TerminateProcess(p) ==
    LET S == {t \in Threads : ProcessOf[t] = p /\ status[t] # "Dead"}
    IN  failed = {} /\ S # {} /\ Stop(S)
=============================================================================
