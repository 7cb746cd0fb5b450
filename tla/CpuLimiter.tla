----------------------------- MODULE CpuLimiter -----------------------------
(***************************************************************************)
(* CpuLimiterMulti of thread.cpp: on core 1 the time is shared between the *)
(* application and the system modules.  A tick event flips the limiter     *)
(* between APP and SYS; a thread of the wrong side that the scheduler      *)
(* selects is put to sleep and remembered, and every tick wakes all that   *)
(* were remembered.  There are two such objects, one per schedule mode.    *)
(*                                                                         *)
(* Like wakeup events, ticks are counted: ticks in the event queue of core *)
(* 1, ts_ticks in its thread-safe queue, where ScheduleEvent puts a tick   *)
(* that is scheduled while another core runs and where UnscheduleEvent     *)
(* does not look.  The lengths of the two phases are left out.             *)
(***************************************************************************)
EXTENDS ThreadWait

CONSTANTS
    Category,    \* resource_limit_category of each thread
    MaxUpdates   \* bound on changes of the application's limit

Modes == {"Single", "Multi"}
Cores == {"core 1", "other"}

VARIABLES
    schedule_mode,  \* ThreadManager::current_schedule_mode
    lim,            \* lim[m]: the limiter object of mode m
    app_exempt,     \* the limit value of Application is PREEMPTION_EXCEMPTED
    updates         \* how often the limit was changed, for the bound

limiterVars == <<schedule_mode, lim, app_exempt, updates>>

LimiterRecord == [ready : BOOLEAN, active : BOOLEAN, curr_state : {"APP", "SYS"},
                  sleeping : SUBSET Threads, ticks : Nat, ts_ticks : Nat]

LimiterTypeOK ==
    /\ schedule_mode \in Modes
    /\ lim \in [Modes -> LimiterRecord]
    /\ app_exempt \in BOOLEAN
    /\ updates \in Nat

-----------------------------------------------------------------------------
(* CpuLimiterMulti::Start, End and ChangeState, from one limiter record to  *)
(* the next.  ChangeState schedules the next tick on core 1.                *)
Start(L) ==
    IF L.ready THEN L
    ELSE [L EXCEPT !.ready = TRUE, !.active = FALSE, !.curr_state = "APP"]

End(L) ==
    IF ~L.ready THEN L
    ELSE [L EXCEPT !.ready = FALSE, !.active = FALSE, !.ticks = 0, !.sleeping = {}]

ChangeState(L, core) ==
    LET flipped == [L EXCEPT !.curr_state = IF @ = "SYS" THEN "APP" ELSE "SYS"]
    IN  IF core = "core 1" THEN [flipped EXCEPT !.ticks = @ + 1]
                           ELSE [flipped EXCEPT !.ts_ticks = @ + 1]

(* Faulty variant: the limiter is left without a tick. *)
UpdateAppCpuLimitNoTick(L, preempt, core) ==
    IF ~L.ready THEN L
    ELSE IF ~preempt
    THEN [L EXCEPT !.active = FALSE, !.ticks = 0, !.sleeping = {}]
    ELSE [L EXCEPT !.active = TRUE, !.ticks = 0]

(* CpuLimiterMulti::UpdateAppCpuLimit, called on the given core; preempt:   *)
(* the application's CPU time is not PREEMPTION_DISABLED.                   *)
UpdateAppCpuLimit(L, preempt, core) ==
    IF ~L.ready THEN L
    ELSE IF ~preempt
    THEN [L EXCEPT !.active = FALSE, !.ticks = 0, !.sleeping = {}]
    ELSE ChangeState([L EXCEPT !.active = TRUE, !.ticks = IF L.active THEN 0 ELSE @], core)

(* WakeupSleepingThreads of a limiter that remembers the threads in S: only *)
(* threads in WaitSleep are resumed.                                        *)
WakeupSleepingThreads(S) == ResumeFromWait({t \in S : status[t] = "WaitSleep"}, {})

(* DoTimeLimit: whether the thread is put to sleep when it is selected. *)
DoTimeLimit(t) ==
    LET L == lim[schedule_mode]
    IN  /\ L.ready /\ L.active
        /\ \/ Category[t] = "Application" /\ ~app_exempt /\ L.curr_state = "SYS"
           \/ Category[t] = "Other" /\ L.curr_state = "APP"

(* PM_APP::UpdateResourceLimit. *)
UpdateResourceLimit(preempt, core) ==
    LET old == lim[schedule_mode]
    IN  /\ failed = {}
        /\ updates < MaxUpdates
        /\ updates' = updates + 1
        /\ lim' = [lim EXCEPT ![schedule_mode] = UpdateAppCpuLimit(old, preempt, core)]
        /\ WakeupSleepingThreads(IF old.ready /\ ~preempt THEN old.sleeping ELSE {})
        /\ UNCHANGED <<schedule_mode, app_exempt, current, wakeups, ts_wakeups, died>>

(* ResourceLimit::ApplyAppMaxCPUSetting when an application is launched:    *)
(* SetScheduleMode (End, the new mode, Start), then UpdateAppCpuLimit.      *)
(* Only titles of version 1.0 come with a CPU time set, some of them exempt *)
(* from preemption, and all of them in Single mode.                         *)
ApplyAppMaxCPUSetting(mode, exempt, preempt, core) ==
    LET ended == [lim EXCEPT ![schedule_mode] = End(@)]
        started == [ended EXCEPT ![mode] = Start(@)]
        asleep == IF lim[schedule_mode].ready THEN lim[schedule_mode].sleeping ELSE {}
    IN  /\ failed = {}
        /\ updates < MaxUpdates
        /\ exempt => preempt
        /\ preempt => mode = "Single"
        /\ updates' = updates + 1
        /\ schedule_mode' = mode
        /\ app_exempt' = exempt
        /\ lim' = [started EXCEPT ![mode] = UpdateAppCpuLimit(@, preempt, core)]
        /\ WakeupSleepingThreads(asleep \cup (IF preempt THEN {} ELSE started[mode].sleeping))
        /\ UNCHANGED <<current, wakeups, ts_wakeups, died>>

(* The limiters before an application is launched, and after the launch     *)
(* that precedes the first step of its threads, while core 0 is current.    *)
Idle == [ready |-> FALSE, active |-> FALSE, curr_state |-> "APP",
         sleeping |-> {}, ticks |-> 0, ts_ticks |-> 0]

LimiterInit ==
    \E exempt, preempt \in BOOLEAN :
        /\ schedule_mode \in Modes
        /\ exempt => preempt
        /\ preempt => schedule_mode = "Single"
        /\ lim = [m \in Modes |-> IF m = schedule_mode
                                  THEN UpdateAppCpuLimit(Start(Idle), preempt, "other")
                                  ELSE Idle]
        /\ app_exempt = exempt
        /\ updates = 0

(* Timer::MoveEvents for the ticks. *)
MovedTicks ==
    [m \in Modes |-> [lim[m] EXCEPT !.ticks = lim[m].ticks + lim[m].ts_ticks, !.ts_ticks = 0]]

(* Faulty variant: the sleeping threads are not woken. *)
OnTickNoWakeup(m) ==
    /\ failed = {}
    /\ MovedTicks[m].ticks > 0
    /\ lim' = [MovedTicks EXCEPT ![m] = ChangeState([@ EXCEPT !.ticks = @ - 1], "core 1")]
    /\ wakeups' = MovedWakeups
    /\ ts_wakeups' = NoWakeups
    /\ UNCHANGED <<status, wakeup_callback, current, died, failed, schedule_mode,
                   app_exempt, updates>>

(* OnTick, for the limiter of mode m; it does not look at active. *)
OnTick(m) ==
    LET L == MovedTicks[m]
    IN  /\ failed = {}
        /\ L.ticks > 0
        /\ lim' = [MovedTicks EXCEPT ![m] =
                      ChangeState([L EXCEPT !.ticks = L.ticks - 1, !.sleeping = {}], "core 1")]
        /\ WakeupSleepingThreads(L.sleeping)
        /\ wakeups' = MovedWakeups
        /\ ts_wakeups' = NoWakeups
        /\ UNCHANGED <<current, died, schedule_mode, app_exempt, updates>>
=============================================================================
