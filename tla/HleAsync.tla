------------------------------ MODULE HleAsync ------------------------------
(***************************************************************************)
(* HLERequestContext::RunAsync and RunOnThreadWorker: a service call hands *)
(* a blocking operation to a host thread and puts the calling thread to    *)
(* sleep.  When the operation is done, the host thread pushes a wakeup     *)
(* event into the thread-safe queue.  pending_async_operations counts the  *)
(* calls whose result has not been delivered; savestates wait for zero.    *)
(***************************************************************************)
EXTENDS ThreadWait

VARIABLES
    tasks,                     \* the threads whose host task still runs
    pending_async_operations   \* KernelSystem::pending_async_operations

asyncVars == <<tasks, pending_async_operations>>

AsyncTypeOK ==
    /\ tasks \in SUBSET Threads
    /\ pending_async_operations \in Nat

AsyncInit ==
    /\ tasks = {}
    /\ pending_async_operations = 0

(* SleepClientThread. *)
SleepClientThread(t, timed) ==
    /\ status' = [status EXCEPT ![t] = "WaitHleEvent"]
    /\ wakeup_callback' = [wakeup_callback EXCEPT ![t] = "HLE"]
    /\ WakeAfterDelay(t, timed)

(* RunAsync and RunOnThreadWorker with a host task. *)
RunAsync(t) ==
    /\ Runs(t)
    /\ pending_async_operations' = pending_async_operations + 1
    /\ tasks' = tasks \cup {t}
    /\ SleepClientThread(t, FALSE)
    /\ UNCHANGED <<current, ts_wakeups, died, failed>>

(* The same with deterministic_async_operations: the operation runs at once *)
(* and the thread sleeps for the time it reports.                           *)
RunDeterministic(t) ==
    /\ Runs(t)
    /\ pending_async_operations' = pending_async_operations + 1
    /\ SleepClientThread(t, TRUE)
    /\ UNCHANGED <<current, ts_wakeups, died, failed, tasks>>

(* Faulty variant: the operation counts as done when its task is. *)
TaskEndsReports(t) ==
    /\ t \in tasks /\ failed = {}
    /\ tasks' = tasks \ {t}
    /\ ts_wakeups' = [ts_wakeups EXCEPT ![t] = @ + 1]
    /\ pending_async_operations' = pending_async_operations - 1
    /\ UNCHANGED <<status, current, wakeup_callback, wakeups, died, failed>>

(* The host task is done: WakeAfterDelay in thread-safe mode.  It happens   *)
(* on a host thread, at any moment, also after the guest thread was killed. *)
TaskEnds(t) ==
    /\ t \in tasks /\ failed = {}
    /\ tasks' = tasks \ {t}
    /\ ts_wakeups' = [ts_wakeups EXCEPT ![t] = @ + 1]
    /\ UNCHANGED <<status, current, wakeup_callback, wakeups, died, failed,
                   pending_async_operations>>

(* AsyncWakeUpCallback::WakeUp. *)
ReportDone == pending_async_operations' = pending_async_operations - 1
=============================================================================
