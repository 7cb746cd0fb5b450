------------------------------ MODULE CoreOne ------------------------------
(***************************************************************************)
(* Core 1 of the emulated machine: the threads of ThreadWait, put to sleep *)
(* by themselves (svcSleepThread), by the AddressArbiter, by a HLE service *)
(* (HleAsync) or by the CpuLimiter, and woken by signals, timeouts, ticks  *)
(* and host tasks.  Four components write the same status, and each knows  *)
(* only about its own reason for a sleep.                                  *)
(***************************************************************************)
EXTENDS AddressArbiter, CpuLimiter, HleAsync

vars == <<threadVars, arbiterVars, limiterVars, asyncVars>>

TypeOK == ThreadTypeOK /\ ArbiterTypeOK /\ LimiterTypeOK /\ AsyncTypeOK

Init == ThreadInit /\ ArbiterInit /\ LimiterInit /\ AsyncInit

-----------------------------------------------------------------------------
Runnable == {t \in Threads : status[t] = "Ready" \/ (t = current /\ status[t] = "Running")}
Free == {t \in Runnable : ~DoTimeLimit(t)}
BestOf(S) == {t \in S : \A u \in S : Priority[t] <= Priority[u]}

(* What PopNextReadyThread may return: the best thread the limiter lets     *)
(* through.  The running thread goes before others of its priority; among   *)
(* the rest the order of the ready queue decides, which is any here.        *)
Candidates ==
    IF Free = {} THEN {None}
    ELSE IF current \in BestOf(Free) THEN {current}
    ELSE BestOf(Free)

(* The threads it meets first and DoTimeLimit puts to sleep. *)
MetFirst(next) ==
    {t \in Runnable : DoTimeLimit(t) /\ (next = None \/ Priority[t] < Priority[next])}

(* Faulty variant: a thread keeps the wakeup event of an earlier wait. *)
SwitchToKeepsEvent(next, slept) ==
    /\ current' = next
    /\ status' = [t \in Threads |->
                     IF t \in slept THEN "WaitSleep"
                     ELSE IF t = next THEN "Running"
                     ELSE IF status[t] = "Running" THEN "Ready"
                     ELSE status[t]]
    /\ UNCHANGED wakeups

(* SwitchContext after the threads in slept were put to sleep: cancels the  *)
(* wakeup events of the thread it switches to.                              *)
SwitchTo(next, slept) ==
    /\ current' = next
    /\ status' = [t \in Threads |->
                     IF t \in slept THEN "WaitSleep"
                     ELSE IF t = next THEN "Running"
                     ELSE IF status[t] = "Running" THEN "Ready"
                     ELSE status[t]]
    /\ wakeups' = [t \in Threads |-> IF t = next THEN 0 ELSE wakeups[t]]

(* ThreadManager::Reschedule. *)
Reschedule ==
    /\ failed = {}
    /\ \E next \in Candidates, equals \in SUBSET Runnable :
        LET slept == MetFirst(next) \cup equals
        IN  /\ \A t \in equals : /\ next # None
                                 /\ DoTimeLimit(t)
                                 /\ Priority[t] = Priority[next]
            /\ SwitchTo(next, slept)
            /\ lim' = [lim EXCEPT ![schedule_mode].sleeping = @ \cup slept]
    /\ UNCHANGED <<wakeup_callback, ts_wakeups, died, failed, arbiterVars,
                   schedule_mode, app_exempt, updates, asyncVars>>

(* Timer::Advance finds no event due: it only empties the thread-safe queue. *)
MoveEvents ==
    /\ failed = {}
    /\ wakeups' = MovedWakeups
    /\ ts_wakeups' = NoWakeups
    /\ lim' = MovedTicks
    /\ UNCHANGED <<status, current, wakeup_callback, died, failed, arbiterVars,
                   schedule_mode, app_exempt, updates, asyncVars>>

(* The callback a timeout runs before the thread is resumed, and how the    *)
(* callback can fail.                                                       *)
CallbackDue(t) == status[t] \in {"WaitArb", "WaitHleEvent"} /\ wakeup_callback[t] # None

RunCallback(t) ==
    IF ~CallbackDue(t)
    THEN UNCHANGED <<waiting_threads, wait_address, arrived, pending_async_operations>>
    ELSE IF wakeup_callback[t] = "Arbiter"
    THEN WakeUp(t) /\ UNCHANGED pending_async_operations
    ELSE ReportDone /\ UNCHANGED <<waiting_threads, wait_address, arrived>>

CallbackFailure(t) ==
    IF ~CallbackDue(t) THEN {}
    ELSE IF wakeup_callback[t] = "Arbiter"
    THEN IF alive THEN {} ELSE {"arbiter destroyed"}
    ELSE IF status[t] = "WaitHleEvent" THEN {} ELSE {"status == WaitHleEvent"}

(* ThreadManager::ThreadWakeupCallback, called by Advance.  A thread that   *)
(* was stopped is no longer in wakeup_callback_table, and at() throws.      *)
ThreadWakeupCallback(t) ==
    /\ failed = {}
    /\ MovedWakeups[t] > 0
    /\ wakeups' = [MovedWakeups EXCEPT ![t] = @ - 1]
    /\ ts_wakeups' = NoWakeups
    /\ lim' = MovedTicks
    /\ IF status[t] = "Dead"
       THEN /\ failed' = {"wakeup_callback_table.at"}
            /\ UNCHANGED <<status, wakeup_callback, waiting_threads, wait_address, arrived,
                           pending_async_operations>>
       ELSE RunCallback(t) /\ ResumeFromWait({t}, CallbackFailure(t))
    /\ UNCHANGED <<current, died, alive,
                   schedule_mode, app_exempt, updates, tasks>>

-----------------------------------------------------------------------------
ThreadStep ==
    /\ \/ \E t \in Threads : SleepThread(t) \/ ExitThread(t)
       \/ \E p \in {ProcessOf[t] : t \in Threads} : TerminateProcess(p)
    /\ UNCHANGED <<arbiterVars, limiterVars, asyncVars>>

ArbiterStep ==
    /\ \/ \E a \in Addresses, value \in -1 .. 2 : Signal(a, value)
       \/ \E t \in Threads, a \in Addresses, withTimeout, timed \in BOOLEAN :
             WaitIfLessThan(t, a, withTimeout, timed)
       \/ Destroy
    /\ UNCHANGED <<limiterVars, asyncVars>>

LimiterStep ==
    /\ \/ \E preempt \in BOOLEAN, core \in Cores : UpdateResourceLimit(preempt, core)
       \/ \E mode \in Modes, exempt, preempt \in BOOLEAN, core \in Cores :
             ApplyAppMaxCPUSetting(mode, exempt, preempt, core)
       \/ \E m \in Modes : OnTick(m)
    /\ UNCHANGED <<arbiterVars, asyncVars>>

AsyncStep ==
    /\ \E t \in Threads : RunAsync(t) \/ RunDeterministic(t) \/ TaskEnds(t)
    /\ UNCHANGED <<arbiterVars, limiterVars>>

Next ==
    \/ ThreadStep
    \/ ArbiterStep
    \/ LimiterStep
    \/ AsyncStep
    \/ Reschedule
    \/ MoveEvents
    \/ \E t \in Threads : ThreadWakeupCallback(t)

(* Time passes, so a pending event comes due, and RunLoop advances every    *)
(* core; a blocking host operation ends.                                    *)
Fairness ==
    /\ \A t \in Threads : WF_vars(ThreadWakeupCallback(t))
    /\ \A m \in Modes : WF_vars(OnTick(m) /\ UNCHANGED <<arbiterVars, asyncVars>>)
    /\ \A t \in Threads : WF_vars(TaskEnds(t) /\ UNCHANGED <<arbiterVars, limiterVars>>)

Spec == Init /\ [][Next]_vars /\ Fairness

-----------------------------------------------------------------------------
(* The arbiter's list names exactly the threads in WaitArb, each once, as   *)
(* long as no thread was killed in it: signals, timeouts, time limits and   *)
(* exits keep Thread::status and a list the thread does not know in step.   *)
(* Threads killed in WaitArb stay listed (Thread::Stop does not remove      *)
(* them), and nobody else does.                                             *)
ArbiterListExact ==
    /\ \A i, j \in DOMAIN waiting_threads : waiting_threads[i] = waiting_threads[j] => i = j
    /\ alive => Listed = {t \in Threads : status[t] = "WaitArb"
                                           \/ (status[t] = "Dead" /\ died[t] = "WaitArb")}

(* Threads that wait at one address are listed in the order they came,      *)
(* although every signal partitions the list: of equal priorities the first *)
(* is woken first, as the comment in ResumeHighestPriorityThread asks.      *)
OrderKept ==
    \A i, j \in DOMAIN waiting_threads :
        i < j /\ wait_address[waiting_threads[i]] = wait_address[waiting_threads[j]]
        => \E k, l \in DOMAIN arrived :
              k < l /\ arrived[k] = waiting_threads[i] /\ arrived[l] = waiting_threads[j]

(* Whoever put a thread into WaitSleep, something is on its way to wake it: *)
(* the event of svcSleepThread, or a tick of the limiter that remembers it. *)
(* Switching modes, disabling the limit and cancelled events must not       *)
(* strand a thread.                                                         *)
SleepHasWaker ==
    \A t \in Threads : status[t] = "WaitSleep" =>
        \/ wakeups[t] > 0
        \/ LET L == lim[schedule_mode] IN t \in L.sleeping /\ L.ticks + L.ts_ticks > 0

(* A thread in WaitHleEvent has exactly one wakeup on its way: its host     *)
(* task runs, or the event is in the thread-safe queue or in the event      *)
(* queue.  A running thread has none: no event of an earlier wait can end   *)
(* its next one.                                                            *)
OneWakeupOnItsWay ==
    \A t \in Threads :
        LET n == wakeups[t] + ts_wakeups[t] + (IF t \in tasks THEN 1 ELSE 0)
        IN  /\ status[t] = "WaitHleEvent" => n = 1
            /\ status[t] = "Running" => n = 0
            /\ n <= 1

(* pending_async_operations is zero only when no host task runs and no      *)
(* result waits in the thread-safe queue: System::RunLoop saves and loads   *)
(* states at that moment, and what is in a host thread is not saved.        *)
QuietWhenNoAsync ==
    pending_async_operations = 0 => tasks = {} /\ \A t \in Threads : ts_wakeups[t] = 0

(* The emulator stops only for these reasons: a signal after a thread was   *)
(* killed in WaitArb, a host task that outlives its thread, or the timeout  *)
(* of a thread whose arbiter was closed.  Signals, ticks, timeouts and host *)
(* tasks never wake a thread that is running or stopped, none wakes a Ready *)
(* thread that still has the callback of its last wait (the assertions of   *)
(* ResumeFromWait), and no callback finds the thread in another wait than   *)
(* its own.                                                                 *)
FailureExplained ==
    /\ failed \subseteq {"Inconsistent AddressArbiter state", "wakeup_callback_table.at",
                         "arbiter destroyed"}
    /\ "Inconsistent AddressArbiter state" \in failed => \E t \in Threads : died[t] = "WaitArb"
    /\ "wakeup_callback_table.at" \in failed => \E t \in Threads : died[t] = "WaitHleEvent"
    /\ "arbiter destroyed" \in failed => ~alive

(* Every sleep and every wait for a host task ends, unless the emulator     *)
(* stops: ticks, wakeup events and tasks reach the thread they are meant    *)
(* for in spite of time limits, mode changes and cancelled events.          *)
SleepsEnd ==
    \A t \in Threads :
        status[t] \in {"WaitSleep", "WaitHleEvent"}
            ~> (status[t] \notin {"WaitSleep", "WaitHleEvent"} \/ failed # {})
=============================================================================
