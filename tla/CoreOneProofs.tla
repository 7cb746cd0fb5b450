--------------------------- MODULE CoreOneProofs ---------------------------
(***************************************************************************)
(* Proofs about CoreOne, for any threads, priorities and addresses and any *)
(* number of changes of the CPU limit.                                     *)
(*                                                                         *)
(* The inductive invariant has a part that looks at one thread at a time   *)
(* (ThreadInv): which callback a status goes with, how many wakeups are on *)
(* their way, and what is known of a thread that was stopped.  On it rest  *)
(* the arbiter's list (ListInv, OrderInv), the count of async operations   *)
(* (AsyncInv) and the limiters (LimiterInv).                               *)
(***************************************************************************)
EXTENDS CoreOne, QueueLemmas, FiniteSetTheorems

(* The types of what is not a list or a count. *)
TypeInv ==
    /\ ThreadTypeOK
    /\ LimiterTypeOK
    /\ alive \in BOOLEAN
    /\ wait_address \in [Threads -> Addresses \cup {None}]
    /\ tasks \in SUBSET Threads

OnItsWay(t) == wakeups[t] + ts_wakeups[t] + (IF t \in tasks THEN 1 ELSE 0)

(* Threads that called a service and were not resumed since. *)
InService(t) == status[t] = "WaitHleEvent" \/ (status[t] = "Dead" /\ died[t] = "WaitHleEvent")
InArbiter(t) == status[t] = "WaitArb" \/ (status[t] = "Dead" /\ died[t] = "WaitArb")
Asked == {t \in Threads : InService(t)}

CallbackInv(t) ==
    /\ status[t] \in {"Ready", "Running", "WaitSleep"} => wakeup_callback[t] = None
    /\ status[t] = "WaitHleEvent" => wakeup_callback[t] = "HLE"
    /\ status[t] = "WaitArb" => \/ wakeup_callback[t] = "Arbiter"
                                \/ wakeup_callback[t] = None /\ OnItsWay(t) = 0

WakeupInv(t) ==
    /\ OnItsWay(t) <= 1
    /\ status[t] = "WaitHleEvent" => OnItsWay(t) = 1
    /\ status[t] = "Running" => OnItsWay(t) = 0
    /\ t \in tasks \/ ts_wakeups[t] > 0 => InService(t)
    /\ status[t] = "Dead" /\ OnItsWay(t) > 0 => died[t] = "WaitHleEvent"

DiedInv(t) == status[t] # "Dead" => died[t] = None

ThreadInv == \A t \in Threads : CallbackInv(t) /\ WakeupInv(t) /\ DiedInv(t)

ListInv ==
    /\ Holds(waiting_threads, Threads, Listed)
    /\ Holds(arrived, Threads, Listed)
    /\ alive => Listed = {t \in Threads : InArbiter(t)}
    /\ ~alive => Listed = {}

OrderInv ==
    \A t, u \in Threads :
        Precedes(waiting_threads, t, u) /\ wait_address[t] = wait_address[u]
            => Precedes(arrived, t, u)

AsyncInv ==
    /\ IsFiniteSet(Asked)
    /\ pending_async_operations = Cardinality(Asked)

LimiterInv ==
    /\ lim[schedule_mode].ready
    /\ \A m \in Modes : m # schedule_mode => ~lim[m].ready
    /\ lim[schedule_mode].active
           => lim[schedule_mode].ticks + lim[schedule_mode].ts_ticks > 0

IInv ==
    /\ TypeInv
    /\ ThreadInv
    /\ ListInv
    /\ OrderInv
    /\ AsyncInv
    /\ LimiterInv
    /\ SleepHasWaker
    /\ FailureExplained

-----------------------------------------------------------------------------
(* Types *)

(* What ResumeFromWait asserts: it resumes the threads that sleep. *)
LEMMA RefusedNames == \A S : Refused(S) \subseteq Failures
  BY DEF Refused, Failures

LEMMA SleepersResume ==
    ASSUME NEW S, \A t \in S : status[t] \in Sleeping
    PROVE  Refused(S) = {}
  BY DEF Refused, Sleeping

(* The operations on a limiter record give limiter records. *)
LEMMA LimiterOperations ==
    ASSUME NEW L \in LimiterRecord, NEW core \in Cores, NEW preempt \in BOOLEAN
    PROVE  /\ Start(L) \in LimiterRecord
           /\ End(L) \in LimiterRecord
           /\ ChangeState(L, core) \in LimiterRecord
           /\ UpdateAppCpuLimit(L, preempt, core) \in LimiterRecord
           /\ [L EXCEPT !.ticks = L.ticks + L.ts_ticks, !.ts_ticks = 0] \in LimiterRecord
  <1>1. ASSUME NEW M \in LimiterRecord PROVE ChangeState(M, core) \in LimiterRecord
    <2> DEFINE flipped == [M EXCEPT !.curr_state = IF @ = "SYS" THEN "APP" ELSE "SYS"]
    <2>1. /\ flipped \in LimiterRecord
          /\ flipped.ticks + 1 \in Nat
          /\ flipped.ts_ticks + 1 \in Nat
      BY DEF LimiterRecord
    <2> HIDE DEF flipped
    <2>2. \A n \in Nat : /\ [flipped EXCEPT !.ticks = n] \in LimiterRecord
                         /\ [flipped EXCEPT !.ts_ticks = n] \in LimiterRecord
      BY <2>1 DEF LimiterRecord
    <2> QED BY <2>1, <2>2 DEF ChangeState, flipped
  <1>2. UpdateAppCpuLimit(L, preempt, core) \in LimiterRecord
    <2>1. [L EXCEPT !.active = TRUE, !.ticks = IF L.active THEN 0 ELSE @] \in LimiterRecord
      BY DEF LimiterRecord
    <2>2. [L EXCEPT !.active = FALSE, !.ticks = 0, !.sleeping = {}] \in LimiterRecord
      BY DEF LimiterRecord
    <2> QED BY <1>1, <2>1, <2>2 DEF UpdateAppCpuLimit
  <1>3. Start(L) \in LimiterRecord
    BY DEF LimiterRecord, Start
  <1>4. End(L) \in LimiterRecord
    BY DEF LimiterRecord, End
  <1>5. [L EXCEPT !.ticks = L.ticks + L.ts_ticks, !.ts_ticks = 0] \in LimiterRecord
    <2>1. L.ticks + L.ts_ticks \in Nat
      BY DEF LimiterRecord
    <2>2. \A n \in Nat : [L EXCEPT !.ticks = n, !.ts_ticks = 0] \in LimiterRecord
      BY DEF LimiterRecord
    <2> QED BY <2>1, <2>2
  <1> QED BY <1>1, <1>2, <1>3, <1>4, <1>5

LEMMA TypeInit == Init => TypeInv
  <1> SUFFICES ASSUME Init PROVE TypeInv
    OBVIOUS
  <1>1. ThreadTypeOK
    BY DEF Init, ThreadInit, ThreadTypeOK, Statuses, Sleeping
  <1>2. LimiterTypeOK
    <2>1. Idle \in LimiterRecord
      BY DEF Idle, LimiterRecord
    <2>2. \A preempt \in BOOLEAN : UpdateAppCpuLimit(Start(Idle), preempt, "other") \in LimiterRecord
      BY <2>1, LimiterOperations DEF Cores
    <2> QED BY <2>1, <2>2 DEF Init, LimiterInit, LimiterTypeOK
  <1> QED BY <1>1, <1>2 DEF Init, ArbiterInit, AsyncInit, TypeInv

LEMMA TypeStep ==
    ASSUME TypeInv, [Next]_vars
    PROVE  TypeInv'
  <1> USE NullAssumption, AddressAssumption
      DEF TypeInv, ThreadTypeOK, LimiterTypeOK, Statuses, Sleeping, threadVars, arbiterVars,
          limiterVars, asyncVars, Runs, WakeAfterDelay, ResumeFromWait, Resumed, CallbacksCleared
  <1>1. CASE UNCHANGED vars
    BY <1>1 DEF vars
  <1>2. CASE ThreadStep
    BY <1>2 DEF ThreadStep, SleepThread, ExitThread, TerminateProcess, Stop
  <1>3. CASE ArbiterStep
    <2>1. ASSUME NEW a \in Addresses, NEW value \in -1 .. 2, Signal(a, value) PROVE TypeInv'
      <3> DEFINE woken == IF value < 0 THEN Matches(a) ELSE Highest(a, value)
      <3>1. /\ UNCHANGED <<current, wakeups, ts_wakeups, died, alive>>
            /\ UNCHANGED limiterVars /\ UNCHANGED asyncVars
        BY <1>3, <2>1 DEF ArbiterStep, Signal
      <3>2. CASE value # 0 /\ Inconsistent
        <4>1. /\ failed' = {"Inconsistent AddressArbiter state"}
              /\ UNCHANGED <<status, wakeup_callback, wait_address>>
          BY <2>1, <3>2 DEF Signal
        <4> QED BY <3>1, <4>1 DEF Failures
      <3>3. CASE ~(value # 0 /\ Inconsistent)
        <4>1. ResumeFromWait(woken, {}) /\ wait_address' = Forgotten(woken)
          BY <2>1, <3>3 DEF Signal
        <4> HIDE DEF woken
        <4>2. /\ status' \in [Threads -> Statuses]
              /\ wakeup_callback' \in [Threads -> {None, "Arbiter", "HLE"}]
          BY <4>1
        <4>3. wait_address' \in [Threads -> Addresses \cup {None}]
          BY <4>1 DEF Forgotten
        <4>4. failed' \in SUBSET Failures
          BY <4>1, RefusedNames
        <4> HIDE DEF ResumeFromWait, Resumed, CallbacksCleared
        <4> QED BY <3>1, <4>1, <4>2, <4>3, <4>4
      <3> QED BY <3>2, <3>3
    <2>2. ASSUME NEW t \in Threads, NEW a \in Addresses, NEW withTimeout \in BOOLEAN,
                 NEW timed \in BOOLEAN, WaitIfLessThan(t, a, withTimeout, timed)
          PROVE  TypeInv'
      BY <1>3, <2>2 DEF ArbiterStep, WaitIfLessThan, WaitThread
    <2>3. CASE Destroy
      BY <1>3, <2>3 DEF ArbiterStep, Destroy, Forgotten
    <2> QED BY <1>3, <2>1, <2>2, <2>3 DEF ArbiterStep
  <1>4. CASE LimiterStep
    <2>1. lim' \in [Modes -> LimiterRecord]
      <3> HIDE DEF WakeAfterDelay, ResumeFromWait, Resumed, CallbacksCleared
      <3>1. \A m \in Modes : lim[m] \in LimiterRecord
        OBVIOUS
      <3>2. ASSUME NEW preempt \in BOOLEAN, NEW core \in Cores, UpdateResourceLimit(preempt, core)
            PROVE  lim' \in [Modes -> LimiterRecord]
        BY <3>1, <3>2, LimiterOperations DEF UpdateResourceLimit
      <3>3. ASSUME NEW mode \in Modes, NEW exempt \in BOOLEAN, NEW preempt \in BOOLEAN,
                   NEW core \in Cores, ApplyAppMaxCPUSetting(mode, exempt, preempt, core)
            PROVE  lim' \in [Modes -> LimiterRecord]
        BY <3>1, <3>3, LimiterOperations DEF ApplyAppMaxCPUSetting
      <3>4. ASSUME NEW m \in Modes, OnTick(m)
            PROVE  lim' \in [Modes -> LimiterRecord]
        <4>1. MovedTicks \in [Modes -> LimiterRecord]
          BY <3>1, LimiterOperations DEF MovedTicks, Cores
        <4> HIDE DEF MovedTicks
        <4> DEFINE M == MovedTicks
        <4>2. [M[m] EXCEPT !.ticks = M[m].ticks - 1, !.sleeping = {}] \in LimiterRecord
          <5>1. M[m].ticks > 0
            BY <3>4 DEF OnTick
          <5>2. M[m] \in LimiterRecord
            BY <4>1
          <5> HIDE DEF M
          <5>3. M[m].ticks - 1 \in Nat
            BY <5>1, <5>2 DEF LimiterRecord
          <5>4. \A n \in Nat : [M[m] EXCEPT !.ticks = n, !.sleeping = {}] \in LimiterRecord
            BY <5>2 DEF LimiterRecord
          <5> QED BY <5>3, <5>4
        <4>3. ChangeState([M[m] EXCEPT !.ticks = M[m].ticks - 1, !.sleeping = {}], "core 1")
                  \in LimiterRecord
          BY <4>2, LimiterOperations DEF Cores
        <4>4. lim' = [M EXCEPT ![m] =
                         ChangeState([M[m] EXCEPT !.ticks = M[m].ticks - 1, !.sleeping = {}],
                                     "core 1")]
          BY <3>4 DEF OnTick
        <4> QED BY <4>1, <4>3, <4>4
      <3> QED BY <1>4, <3>2, <3>3, <3>4 DEF LimiterStep
    <2>2. ASSUME NEW preempt \in BOOLEAN, NEW core \in Cores, UpdateResourceLimit(preempt, core)
          PROVE  TypeInv'
      BY <1>4, <2>1, <2>2, RefusedNames
      DEF LimiterStep, UpdateResourceLimit, WakeupSleepingThreads
    <2>3. ASSUME NEW mode \in Modes, NEW exempt \in BOOLEAN, NEW preempt \in BOOLEAN,
                 NEW core \in Cores, ApplyAppMaxCPUSetting(mode, exempt, preempt, core)
          PROVE  TypeInv'
      <3> HIDE DEF LimiterRecord
      <3>1. /\ updates' \in Nat /\ schedule_mode' \in Modes /\ app_exempt' \in BOOLEAN
            /\ UNCHANGED <<current, wakeups, ts_wakeups, died>>
        BY <2>3 DEF ApplyAppMaxCPUSetting
      <3>2. PICK S : WakeupSleepingThreads(S)
        BY <2>3 DEF ApplyAppMaxCPUSetting
      <3> QED BY <1>4, <2>1, <3>1, <3>2, RefusedNames DEF LimiterStep, WakeupSleepingThreads
    <2>4. ASSUME NEW m \in Modes, OnTick(m) PROVE TypeInv'
      <3> HIDE DEF LimiterRecord
      <3>1. /\ wakeups' \in [Threads -> Nat]
            /\ ts_wakeups' \in [Threads -> Nat]
        <4>1. wakeups' = MovedWakeups /\ ts_wakeups' = NoWakeups
          BY <2>4 DEF OnTick
        <4> QED BY <4>1 DEF MovedWakeups, NoWakeups
      <3>2. /\ UNCHANGED <<current, died, schedule_mode, app_exempt, updates>>
            /\ WakeupSleepingThreads(MovedTicks[m].sleeping)
        BY <2>4 DEF OnTick
      <3> QED BY <1>4, <2>1, <3>1, <3>2, RefusedNames DEF LimiterStep, WakeupSleepingThreads
    <2> QED BY <1>4, <2>2, <2>3, <2>4 DEF LimiterStep
  <1>5. CASE AsyncStep
    BY <1>5 DEF AsyncStep, RunAsync, RunDeterministic, TaskEnds, SleepClientThread
  <1>6. CASE Reschedule
    <2>1. PICK next \in Candidates, equals \in SUBSET Runnable :
              /\ SwitchTo(next, MetFirst(next) \cup equals)
              /\ lim' = [lim EXCEPT ![schedule_mode].sleeping = @ \cup (MetFirst(next) \cup equals)]
      BY <1>6 DEF Reschedule
    <2>2. next \in Threads \cup {None}
      BY DEF Candidates, BestOf, Free, Runnable
    <2>3. MetFirst(next) \cup equals \subseteq Threads
      BY DEF MetFirst, Runnable
    <2>4. lim' \in [Modes -> LimiterRecord]
      BY <2>1, <2>3 DEF LimiterRecord
    <2> QED BY <1>6, <2>1, <2>2, <2>4 DEF Reschedule, SwitchTo
  <1>7. CASE MoveEvents
    <2>1. MovedTicks \in [Modes -> LimiterRecord]
      BY LimiterOperations DEF MovedTicks, Cores
    <2> QED BY <1>7, <2>1 DEF MoveEvents, MovedWakeups, NoWakeups
  <1>8. ASSUME NEW t \in Threads, ThreadWakeupCallback(t) PROVE TypeInv'
    <2>1. MovedTicks \in [Modes -> LimiterRecord]
      BY LimiterOperations DEF MovedTicks, Cores
    <2>2. /\ wakeups' \in [Threads -> Nat]
          /\ ts_wakeups' \in [Threads -> Nat]
      BY <1>8 DEF ThreadWakeupCallback, MovedWakeups, NoWakeups
    <2>3. failed' \in SUBSET Failures
      BY <1>8, RefusedNames DEF ThreadWakeupCallback, CallbackFailure, Failures
    <2>4. wait_address' \in [Threads -> Addresses \cup {None}]
      BY <1>8 DEF ThreadWakeupCallback, RunCallback, WakeUp, Forgotten
    <2> QED BY <1>8, <2>1, <2>2, <2>3, <2>4 DEF ThreadWakeupCallback
  <1> QED BY <1>1, <1>2, <1>3, <1>4, <1>5, <1>6, <1>7, <1>8 DEF Next

-----------------------------------------------------------------------------
(* One thread at a time *)

(* The arbiter's list is finite, so that ResumeHighestPriorityThread can be *)
(* counted; called no time it resumes nobody.                               *)
LEMMA NobodyWoken ==
    ASSUME ListInv, NEW a
    PROVE  Highest(a, 0) = {}
  <1>1. waiting_threads \in Seq(Threads) /\ Len(waiting_threads) \in Nat
    BY DEF ListInv, Holds
  <1>2. waiting_threads \in Surjection(1 .. Len(waiting_threads), Listed)
    BY <1>1 DEF Surjection, Listed
  <1>3. IsFiniteSet(1 .. Len(waiting_threads))
    BY <1>1, FS_Interval
  <1>4. IsFiniteSet(Listed)
    BY <1>2, <1>3, FS_Surjection
  <1>5. ASSUME NEW t \in Matches(a)
        PROVE  ~(Cardinality({u \in Matches(a) \ {t} : Before(Partition(a), u, t)}) < 0)
    <2> DEFINE U == {u \in Matches(a) \ {t} : Before(Partition(a), u, t)}
    <2>1. U \in SUBSET Listed
      BY DEF Matches
    <2>2. IsFiniteSet(U)
      BY <1>4, <2>1, FS_Subset
    <2>3. Cardinality(U) \in Nat
      BY <2>2, FS_CardinalityType
    <2> HIDE DEF U
    <2>4. ~(Cardinality(U) < 0)
      BY <2>3
    <2> QED BY <2>4 DEF U
  <1> QED BY <1>5 DEF Highest

(* The threads that a signal resumes. *)
Woken(a, value) == IF value < 0 THEN Matches(a) ELSE Highest(a, value)

(* They are on the list, and in WaitArb if the list was looked at. *)
LEMMA WokenWait ==
    ASSUME ListInv, NEW a, NEW value \in -1 .. 2, ~(value # 0 /\ Inconsistent)
    PROVE  /\ value = 0 => Woken(a, value) = {}
           /\ Woken(a, value) \subseteq Listed
           /\ \A t \in Woken(a, value) : status[t] = "WaitArb" /\ wait_address[t] = a
  <1>1. value = 0 => Woken(a, value) = {}
    BY NobodyWoken DEF Woken
  <1>2. Woken(a, value) \subseteq Matches(a)
    BY DEF Woken, Highest
  <1>3. Matches(a) \subseteq Listed /\ \A t \in Matches(a) : wait_address[t] = a
    BY DEF Matches
  <1> QED BY <1>1, <1>2, <1>3 DEF Inconsistent

LEMMA ThreadInvInit == Init => ThreadInv
  <1> SUFFICES ASSUME Init, NEW u \in Threads PROVE CallbackInv(u) /\ WakeupInv(u) /\ DiedInv(u)
    BY DEF ThreadInv
  <1>1. /\ status[u] = "Ready" /\ wakeup_callback[u] = None /\ wakeups[u] = 0
        /\ ts_wakeups[u] = 0 /\ died[u] = None /\ u \notin tasks
    BY DEF Init, ThreadInit, AsyncInit
  <1> QED BY <1>1 DEF CallbackInv, WakeupInv, DiedInv, OnItsWay, InService

(* A thread whose status, callback, wakeups and task are as before. *)
LEMMA ThreadInvFrame ==
    ASSUME ThreadInv, UNCHANGED <<status, wakeup_callback, wakeups, ts_wakeups, died, tasks>>
    PROVE  ThreadInv'
  BY DEF ThreadInv, CallbackInv, WakeupInv, DiedInv, OnItsWay, InService

(* Thread::Stop of threads that are not dead. *)
LEMMA ThreadInvStop ==
    ASSUME TypeInv, ThreadInv, NEW S, \A t \in S : status[t] # "Dead", Stop(S), UNCHANGED tasks
    PROVE  ThreadInv'
  <1> SUFFICES ASSUME NEW u \in Threads PROVE (CallbackInv(u) /\ WakeupInv(u) /\ DiedInv(u))'
    BY DEF ThreadInv
  <1>1. CallbackInv(u) /\ WakeupInv(u) /\ DiedInv(u)
    BY DEF ThreadInv
  <1> USE NullAssumption
      DEF TypeInv, ThreadTypeOK, Statuses, Sleeping, CallbackInv, WakeupInv, DiedInv, OnItsWay,
          InService, Stop
  <1>2. CASE u \in S
    BY <1>1, <1>2
  <1>3. CASE u \notin S
    BY <1>1, <1>3
  <1> QED BY <1>2, <1>3

(* ResumeFromWait with the wakeups left as they are, of threads that do not *)
(* wait for a service.                                                      *)
LEMMA ThreadInvResume ==
    ASSUME TypeInv, ThreadInv, NEW S, NEW f, \A t \in S : status[t] # "WaitHleEvent",
           ResumeFromWait(S, f),
           UNCHANGED <<died, tasks>>,
           \/ UNCHANGED <<wakeups, ts_wakeups>>
           \/ wakeups' = MovedWakeups /\ ts_wakeups' = NoWakeups
    PROVE  ThreadInv'
  <1> SUFFICES ASSUME NEW u \in Threads PROVE (CallbackInv(u) /\ WakeupInv(u) /\ DiedInv(u))'
    BY DEF ThreadInv
  <1>1. CallbackInv(u) /\ WakeupInv(u) /\ DiedInv(u)
    BY DEF ThreadInv
  <1>2. /\ OnItsWay(u)' = OnItsWay(u)
        /\ ts_wakeups'[u] > 0 => ts_wakeups[u] > 0
    BY DEF TypeInv, ThreadTypeOK, OnItsWay, MovedWakeups, NoWakeups
  <1> USE NullAssumption
      DEF TypeInv, ThreadTypeOK, Statuses, Sleeping, CallbackInv, WakeupInv, DiedInv,
          InService, ResumeFromWait, Resumed, CallbacksCleared
  <1> HIDE DEF OnItsWay
  <1>3. CASE u \in S
    BY <1>1, <1>2, <1>3
  <1>4. CASE u \notin S
    BY <1>1, <1>2, <1>4
  <1> QED BY <1>3, <1>4

LEMMA ThreadInvStep ==
    ASSUME TypeInv, ThreadInv, ListInv, [Next]_vars
    PROVE  ThreadInv'
  <1>1. CASE UNCHANGED vars
    BY <1>1, ThreadInvFrame DEF vars, threadVars, asyncVars
  <1>2. ASSUME NEW t \in Threads, SleepThread(t), UNCHANGED asyncVars PROVE ThreadInv'
    <2> SUFFICES ASSUME NEW u \in Threads PROVE (CallbackInv(u) /\ WakeupInv(u) /\ DiedInv(u))'
      BY DEF ThreadInv
    <2>1. CallbackInv(u) /\ WakeupInv(u) /\ DiedInv(u)
      BY DEF ThreadInv
    <2> USE DEF CallbackInv, WakeupInv, DiedInv, OnItsWay, InService
    <2>2. CASE u = t
      <3>1. /\ status[u] = "Running" /\ status'[u] = "WaitSleep"
            /\ wakeups'[u] = wakeups[u] + 1 /\ wakeups[u] \in Nat /\ ts_wakeups[u] \in Nat
            /\ UNCHANGED <<ts_wakeups, wakeup_callback, died, tasks>>
        BY <1>2, <2>2 DEF SleepThread, Runs, WakeAfterDelay, asyncVars, TypeInv, ThreadTypeOK
      <3> QED BY <2>1, <3>1
    <2>3. CASE u # t
      <3>1. /\ status'[u] = status[u] /\ wakeups'[u] = wakeups[u]
            /\ UNCHANGED <<ts_wakeups, wakeup_callback, died, tasks>>
        BY <1>2, <2>3 DEF SleepThread, WakeAfterDelay, asyncVars, TypeInv, ThreadTypeOK
      <3> QED BY <2>1, <3>1
    <2> QED BY <2>2, <2>3
  <1>3. ASSUME NEW t \in Threads, ExitThread(t), UNCHANGED asyncVars PROVE ThreadInv'
    BY <1>3, ThreadInvStop DEF ExitThread, Runs, asyncVars
  <1>4. ASSUME NEW p, TerminateProcess(p), UNCHANGED asyncVars PROVE ThreadInv'
    BY <1>4, ThreadInvStop DEF TerminateProcess, asyncVars
  <1>5. ASSUME NEW a \in Addresses, NEW value \in -1 .. 2, Signal(a, value), UNCHANGED asyncVars
        PROVE  ThreadInv'
    <2>1. CASE value # 0 /\ Inconsistent
      BY <1>5, <2>1, ThreadInvFrame DEF Signal, asyncVars
    <2>2. CASE ~(value # 0 /\ Inconsistent)
      <3>1. ResumeFromWait(Woken(a, value), {}) /\ UNCHANGED <<wakeups, ts_wakeups, died, tasks>>
        BY <1>5, <2>2 DEF Signal, asyncVars, Woken
      <3>2. \A t \in Woken(a, value) : status[t] # "WaitHleEvent"
        BY <2>2, WokenWait
      <3> QED BY <3>1, <3>2, ThreadInvResume
    <2> QED BY <2>1, <2>2
  <1>6. ASSUME NEW t \in Threads, NEW a \in Addresses, NEW withTimeout \in BOOLEAN,
               NEW timed \in BOOLEAN, WaitIfLessThan(t, a, withTimeout, timed), UNCHANGED asyncVars
        PROVE  ThreadInv'
    <2> SUFFICES ASSUME NEW u \in Threads PROVE (CallbackInv(u) /\ WakeupInv(u) /\ DiedInv(u))'
      BY DEF ThreadInv
    <2>1. CallbackInv(u) /\ WakeupInv(u) /\ DiedInv(u)
      BY DEF ThreadInv
    <2> USE NullAssumption DEF CallbackInv, WakeupInv, DiedInv, OnItsWay, InService
    <2>2. CASE u = t
      <3>1. /\ status[u] = "Running" /\ status'[u] = "WaitArb"
            /\ wakeups'[u] = (IF timed THEN wakeups[u] + 1 ELSE wakeups[u])
            /\ wakeup_callback'[u] = (IF withTimeout THEN "Arbiter" ELSE wakeup_callback[u])
            /\ wakeups[u] \in Nat /\ ts_wakeups[u] \in Nat
            /\ timed => withTimeout
            /\ UNCHANGED <<ts_wakeups, died, tasks>>
        BY <1>6, <2>2 DEF WaitIfLessThan, WaitThread, Runs, WakeAfterDelay, asyncVars, TypeInv,
                          ThreadTypeOK
      <3> QED BY <2>1, <3>1
    <2>3. CASE u # t
      <3>1. /\ status'[u] = status[u] /\ wakeups'[u] = wakeups[u]
            /\ wakeup_callback'[u] = wakeup_callback[u]
            /\ UNCHANGED <<ts_wakeups, died, tasks>>
        BY <1>6, <2>3 DEF WaitIfLessThan, WaitThread, WakeAfterDelay, asyncVars, TypeInv,
                          ThreadTypeOK
      <3> QED BY <2>1, <3>1
    <2> QED BY <2>2, <2>3
  <1>7. ASSUME Destroy, UNCHANGED asyncVars PROVE ThreadInv'
    BY <1>7, ThreadInvFrame DEF Destroy, threadVars, asyncVars
  <1>8. ASSUME NEW S, WakeupSleepingThreads(S), UNCHANGED <<wakeups, ts_wakeups, died, tasks>>
        PROVE  ThreadInv'
    BY <1>8, ThreadInvResume DEF WakeupSleepingThreads
  <1>9. ASSUME LimiterStep PROVE ThreadInv'
    <2>1. CASE \E preempt \in BOOLEAN, core \in Cores : UpdateResourceLimit(preempt, core)
      BY <1>8, <1>9, <2>1 DEF UpdateResourceLimit, LimiterStep, asyncVars
    <2>2. CASE \E mode \in Modes, exempt, preempt \in BOOLEAN, core \in Cores :
                  ApplyAppMaxCPUSetting(mode, exempt, preempt, core)
      BY <1>8, <1>9, <2>2 DEF ApplyAppMaxCPUSetting, LimiterStep, asyncVars
    <2>3. ASSUME NEW m \in Modes, OnTick(m) PROVE ThreadInv'
      BY <1>9, <2>3, ThreadInvResume DEF OnTick, WakeupSleepingThreads, LimiterStep, asyncVars
    <2> QED BY <1>9, <2>1, <2>2, <2>3 DEF LimiterStep
  <1>10. ASSUME NEW t \in Threads, RunAsync(t) \/ RunDeterministic(t) PROVE ThreadInv'
    <2> SUFFICES ASSUME NEW u \in Threads PROVE (CallbackInv(u) /\ WakeupInv(u) /\ DiedInv(u))'
      BY DEF ThreadInv
    <2>1. CallbackInv(u) /\ WakeupInv(u) /\ DiedInv(u)
      BY DEF ThreadInv
    <2> USE NullAssumption DEF CallbackInv, WakeupInv, DiedInv, OnItsWay, InService
    <2>2. CASE u = t
      <3>1. /\ status[u] = "Running" /\ status'[u] = "WaitHleEvent"
            /\ \/ wakeups'[u] = wakeups[u] + 1 /\ tasks' = tasks
               \/ wakeups'[u] = wakeups[u] /\ u \in tasks'
            /\ wakeup_callback'[u] = "HLE"
            /\ wakeups[u] \in Nat /\ ts_wakeups[u] \in Nat
            /\ UNCHANGED <<ts_wakeups, died>>
        BY <1>10, <2>2 DEF RunAsync, RunDeterministic, SleepClientThread, Runs, WakeAfterDelay,
                           TypeInv, ThreadTypeOK
      <3>2. wakeups[u] = 0 /\ ts_wakeups[u] = 0 /\ u \notin tasks
        BY <2>1, <3>1
      <3>3. OnItsWay(u)' = 1
        BY <3>1, <3>2
      <3> HIDE DEF OnItsWay
      <3> QED BY <2>1, <3>1, <3>3
    <2>3. CASE u # t
      <3>1. /\ status'[u] = status[u] /\ wakeups'[u] = wakeups[u]
            /\ wakeup_callback'[u] = wakeup_callback[u]
            /\ u \in tasks' <=> u \in tasks
            /\ UNCHANGED <<ts_wakeups, died>>
        BY <1>10, <2>3 DEF RunAsync, RunDeterministic, SleepClientThread, WakeAfterDelay, TypeInv,
                           ThreadTypeOK
      <3> QED BY <2>1, <3>1
    <2> QED BY <2>2, <2>3
  <1>11. ASSUME NEW t \in Threads, TaskEnds(t) PROVE ThreadInv'
    <2> SUFFICES ASSUME NEW u \in Threads PROVE (CallbackInv(u) /\ WakeupInv(u) /\ DiedInv(u))'
      BY DEF ThreadInv
    <2>1. CallbackInv(u) /\ WakeupInv(u) /\ DiedInv(u)
      BY DEF ThreadInv
    <2> USE DEF CallbackInv, WakeupInv, DiedInv, OnItsWay, InService
    <2>2. CASE u = t
      <3>1. /\ u \in tasks /\ u \notin tasks' /\ ts_wakeups'[u] = ts_wakeups[u] + 1
            /\ wakeups[u] \in Nat /\ ts_wakeups[u] \in Nat
            /\ UNCHANGED <<status, wakeup_callback, wakeups, died>>
        BY <1>11, <2>2 DEF TaskEnds, TypeInv, ThreadTypeOK
      <3> QED BY <2>1, <3>1
    <2>3. CASE u # t
      <3>1. /\ u \in tasks' <=> u \in tasks
            /\ ts_wakeups'[u] = ts_wakeups[u]
            /\ UNCHANGED <<status, wakeup_callback, wakeups, died>>
        BY <1>11, <2>3 DEF TaskEnds, TypeInv, ThreadTypeOK
      <3> QED BY <2>1, <3>1
    <2> QED BY <2>2, <2>3
  <1>12. CASE Reschedule
    <2> SUFFICES ASSUME NEW u \in Threads PROVE (CallbackInv(u) /\ WakeupInv(u) /\ DiedInv(u))'
      BY DEF ThreadInv
    <2>1. CallbackInv(u) /\ WakeupInv(u) /\ DiedInv(u)
      BY DEF ThreadInv
    <2>2. PICK next \in Candidates, equals \in SUBSET Runnable :
              SwitchTo(next, MetFirst(next) \cup equals)
      BY <1>12 DEF Reschedule
    <2>3. UNCHANGED <<wakeup_callback, ts_wakeups, died, tasks>>
      BY <1>12 DEF Reschedule, asyncVars
    <2>4. /\ wakeups[u] \in Nat /\ ts_wakeups[u] \in Nat
          /\ wakeups'[u] = (IF u = next THEN 0 ELSE wakeups[u])
          /\ status'[u] = IF u \in MetFirst(next) \cup equals THEN "WaitSleep"
                          ELSE IF u = next THEN "Running"
                          ELSE IF status[u] = "Running" THEN "Ready"
                          ELSE status[u]
      BY <2>2 DEF SwitchTo, TypeInv, ThreadTypeOK
    <2>5. u \in MetFirst(next) \cup equals => status[u] \in {"Ready", "Running"}
      BY DEF MetFirst, Runnable
    <2>6. u = next => status[u] \in {"Ready", "Running"}
      BY NullAssumption DEF Candidates, BestOf, Free, Runnable
    <2> QED BY <2>1, <2>3, <2>4, <2>5, <2>6
            DEF CallbackInv, WakeupInv, DiedInv, OnItsWay, InService
  <1>13. CASE MoveEvents
    <2> SUFFICES ASSUME NEW u \in Threads PROVE (CallbackInv(u) /\ WakeupInv(u) /\ DiedInv(u))'
      BY DEF ThreadInv
    <2>1. CallbackInv(u) /\ WakeupInv(u) /\ DiedInv(u)
      BY DEF ThreadInv
    <2>2. /\ wakeups[u] \in Nat /\ ts_wakeups[u] \in Nat
          /\ wakeups'[u] = wakeups[u] + ts_wakeups[u]
          /\ ts_wakeups'[u] = 0
          /\ UNCHANGED <<status, wakeup_callback, died, tasks>>
      BY <1>13 DEF MoveEvents, MovedWakeups, NoWakeups, asyncVars, TypeInv, ThreadTypeOK
    <2> QED BY <2>1, <2>2 DEF CallbackInv, WakeupInv, DiedInv, OnItsWay, InService
  <1>14. ASSUME NEW t \in Threads, ThreadWakeupCallback(t) PROVE ThreadInv'
    <2> SUFFICES ASSUME NEW u \in Threads PROVE (CallbackInv(u) /\ WakeupInv(u) /\ DiedInv(u))'
      BY DEF ThreadInv
    <2>1. CallbackInv(u) /\ WakeupInv(u) /\ DiedInv(u)
      BY DEF ThreadInv
    <2>2. /\ wakeups[u] \in Nat /\ ts_wakeups[u] \in Nat
          /\ u = t => wakeups[u] + ts_wakeups[u] > 0
          /\ wakeups'[u] = (IF u = t THEN wakeups[u] + ts_wakeups[u] - 1
                                     ELSE wakeups[u] + ts_wakeups[u])
          /\ ts_wakeups'[u] = 0
          /\ UNCHANGED <<died, tasks>>
      <3>1. /\ MovedWakeups[t] > 0 /\ wakeups' = [MovedWakeups EXCEPT ![t] = @ - 1]
            /\ ts_wakeups' = NoWakeups /\ UNCHANGED <<died, tasks>>
        BY <1>14 DEF ThreadWakeupCallback
      <3> QED BY <3>1 DEF MovedWakeups, NoWakeups, TypeInv, ThreadTypeOK
    <2>3. /\ status'[u] = (IF u = t /\ status[u] \in Sleeping THEN "Ready" ELSE status[u])
          /\ wakeup_callback'[u] = (IF u = t /\ status[u] \in Sleeping
                                    THEN None ELSE wakeup_callback[u])
      <3>1. CASE status[t] = "Dead"
        <4>1. UNCHANGED <<status, wakeup_callback>>
          BY <1>14, <3>1 DEF ThreadWakeupCallback
        <4> QED BY <3>1, <4>1 DEF Sleeping
      <3>2. CASE status[t] # "Dead"
        <4>1. ResumeFromWait({t}, CallbackFailure(t))
          BY <1>14, <3>2 DEF ThreadWakeupCallback
        <4> QED BY <4>1 DEF ResumeFromWait, Resumed, CallbacksCleared
      <3> QED BY <3>1, <3>2
    <2>4. status[u] \in Statuses
      BY DEF TypeInv, ThreadTypeOK
    <2> QED BY <2>1, <2>2, <2>3, <2>4
            DEF CallbackInv, WakeupInv, DiedInv, OnItsWay, InService, Sleeping, Statuses
  <1>15. CASE ThreadStep
    BY <1>2, <1>3, <1>4, <1>15 DEF ThreadStep
  <1>16. CASE ArbiterStep
    BY <1>5, <1>6, <1>7, <1>16 DEF ArbiterStep
  <1>17. CASE AsyncStep
    BY <1>10, <1>11, <1>17 DEF AsyncStep
  <1> QED BY <1>1, <1>9, <1>12, <1>13, <1>14, <1>15, <1>16, <1>17 DEF Next

-----------------------------------------------------------------------------
(* The list of the arbiter *)

LEMMA ListInvInit == Init => ListInv /\ OrderInv
  <1> SUFFICES ASSUME Init PROVE ListInv /\ OrderInv
    OBVIOUS
  <1>1. /\ waiting_threads = << >> /\ arrived = << >> /\ alive
        /\ \A t \in Threads : status[t] = "Ready"
    BY DEF Init, ThreadInit, ArbiterInit
  <1>2. Listed = {}
    BY <1>1 DEF Listed
  <1>3. {t \in Threads : InArbiter(t)} = {}
    BY <1>1 DEF InArbiter
  <1>4. ListInv
    BY <1>1, <1>2, <1>3, EmptyHolds DEF ListInv
  <1>5. OrderInv
    BY <1>1 DEF OrderInv, Precedes
  <1> QED BY <1>4, <1>5

(* Steps that leave the list and who waits at an address alone. *)
LEMMA ListInvFrame ==
    ASSUME ListInv, OrderInv, UNCHANGED arbiterVars,
           \A u \in Threads : InArbiter(u)' <=> InArbiter(u)
    PROVE  ListInv' /\ OrderInv'
  <1> USE DEF arbiterVars
  <1>1. Listed' = Listed
    BY DEF Listed
  <1>2. {t \in Threads : InArbiter(t)}' = {t \in Threads : InArbiter(t)}
    OBVIOUS
  <1>3. ListInv'
    BY <1>1, <1>2 DEF ListInv, Holds, Elements
  <1>4. OrderInv'
    BY DEF OrderInv, Precedes
  <1> QED BY <1>3, <1>4

(* The threads in W are taken off the list, after the list was put into an  *)
(* order q that keeps the order of threads that wait at the same address.   *)
LEMMA ListInvRemove ==
    ASSUME ListInv, OrderInv, NEW W, NEW q, Holds(q, Threads, Listed),
           \A x, y \in Threads : Precedes(q, x, y) /\ wait_address[x] = wait_address[y]
                                     => Precedes(waiting_threads, x, y),
           waiting_threads' = Without(q, W), arrived' = Without(arrived, W),
           wait_address' = Forgotten(W), alive' = alive,
           \A u \in Threads : InArbiter(u)' <=> InArbiter(u) /\ u \notin W
    PROVE  ListInv' /\ OrderInv'
  <1> DEFINE K == Threads \ W
  <1>1. /\ Holds(waiting_threads', Threads, Listed \cap K)
        /\ \A x, y : Precedes(waiting_threads', x, y) => Precedes(q, x, y) /\ x \in K /\ y \in K
    BY KeptHolds DEF Without
  <1>2. /\ Holds(arrived', Threads, Listed \cap K)
        /\ \A x, y : Precedes(arrived, x, y) /\ x \in K /\ y \in K => Precedes(arrived', x, y)
    BY KeptHolds DEF Without, ListInv
  <1>3. Listed' = Listed \cap K
    BY <1>1 DEF Holds, Elements, Listed
  <1>4. {t \in Threads : InArbiter(t)}' = {t \in Threads : InArbiter(t)} \cap K
    OBVIOUS
  <1>5. ListInv'
    BY <1>1, <1>2, <1>3, <1>4 DEF ListInv
  <1>6. OrderInv'
    <2> SUFFICES ASSUME NEW x \in Threads, NEW y \in Threads, Precedes(waiting_threads', x, y),
                        wait_address'[x] = wait_address'[y]
                 PROVE  Precedes(arrived', x, y)
      BY DEF OrderInv, Precedes
    <2>1. Precedes(q, x, y) /\ x \in K /\ y \in K
      BY <1>1
    <2>2. wait_address[x] = wait_address[y]
      BY <2>1 DEF Forgotten
    <2>3. Precedes(arrived, x, y)
      BY <2>1, <2>2 DEF OrderInv
    <2> QED BY <1>2, <2>1, <2>3
  <1> QED BY <1>5, <1>6

(* std::stable_partition keeps the threads and the order in each group. *)
LEMMA PartitionHolds ==
    ASSUME ListInv, NEW a
    PROVE  /\ Holds(Partition(a), Threads, Listed)
           /\ \A x, y \in Threads : Precedes(Partition(a), x, y) /\ wait_address[x] = wait_address[y]
                                        => Precedes(waiting_threads, x, y)
  <1> DEFINE away == {t \in Threads : wait_address[t] # a}
             here == {t \in Threads : wait_address[t] = a}
             p == Kept(waiting_threads, away)
             q == Kept(waiting_threads, here)
  <1>1. Holds(waiting_threads, Threads, Listed) /\ Listed \subseteq Threads
    BY DEF ListInv, Holds, Elements
  <1>2. /\ Holds(p, Threads, Listed \cap away)
        /\ \A x, y : Precedes(p, x, y) => Precedes(waiting_threads, x, y)
    BY <1>1, KeptHolds
  <1>3. /\ Holds(q, Threads, Listed \cap here)
        /\ \A x, y : Precedes(q, x, y) => Precedes(waiting_threads, x, y)
    BY <1>1, KeptHolds
  <1> HIDE DEF p, q
  <1>4. (Listed \cap away) \cap (Listed \cap here) = {}
    OBVIOUS
  <1>5. /\ Holds(p \o q, Threads, (Listed \cap away) \cup (Listed \cap here))
        /\ \A x, y : Precedes(p \o q, x, y)
                         => \/ Precedes(p, x, y)
                            \/ Precedes(q, x, y)
                            \/ x \in Listed \cap away /\ y \in Listed \cap here
    <2> DEFINE A == Listed \cap away
               B == Listed \cap here
    <2>1. Holds(p, Threads, A) /\ Holds(q, Threads, B) /\ A \cap B = {}
      BY <1>2, <1>3, <1>4
    <2> HIDE DEF A, B
    <2>2. /\ Holds(p \o q, Threads, A \cup B)
          /\ \A x, y : Precedes(p \o q, x, y)
                           => Precedes(p, x, y) \/ Precedes(q, x, y) \/ (x \in A /\ y \in B)
      BY <2>1, ConcatHolds
    <2> QED BY <2>2 DEF A, B
  <1>6. (Listed \cap away) \cup (Listed \cap here) = Listed
    BY <1>1
  <1>7. Partition(a) = p \o q
    BY DEF Partition, p, q
  <1> QED BY <1>2, <1>3, <1>5, <1>6, <1>7

LEMMA ListInvStep ==
    ASSUME TypeInv, ThreadInv, ListInv, OrderInv, [Next]_vars
    PROVE  ListInv' /\ OrderInv'
  <1>1. CASE UNCHANGED vars
    BY <1>1, ListInvFrame DEF vars, threadVars, InArbiter
  <1>2. ASSUME NEW S, \A t \in S : status[t] # "Dead", Stop(S), UNCHANGED arbiterVars
        PROVE  ListInv' /\ OrderInv'
    <2>1. ASSUME NEW u \in Threads PROVE InArbiter(u)' <=> InArbiter(u)
      <3>1. DiedInv(u)
        BY DEF ThreadInv
      <3> QED BY <1>2, <3>1, NullAssumption DEF Stop, InArbiter, DiedInv
    <2> QED BY <1>2, <2>1, ListInvFrame
  <1>3. ASSUME NEW S, NEW f, \A t \in S : status[t] # "WaitArb",
               ResumeFromWait(S, f), UNCHANGED died,
               UNCHANGED arbiterVars
        PROVE  ListInv' /\ OrderInv'
    <2>1. ASSUME NEW u \in Threads PROVE InArbiter(u)' <=> InArbiter(u)
      BY <1>3 DEF ResumeFromWait, Resumed, InArbiter, Sleeping
    <2> QED BY <1>3, <2>1, ListInvFrame
  <1>4. CASE ThreadStep
    <2>1. ASSUME NEW t \in Threads, SleepThread(t) PROVE ListInv' /\ OrderInv'
      <3>1. ASSUME NEW u \in Threads PROVE InArbiter(u)' <=> InArbiter(u)
        BY <2>1 DEF SleepThread, Runs, InArbiter, TypeInv, ThreadTypeOK
      <3> QED BY <1>4, <3>1, ListInvFrame DEF ThreadStep
    <2>2. ASSUME NEW t \in Threads, ExitThread(t) PROVE ListInv' /\ OrderInv'
      BY <1>2, <1>4, <2>2 DEF ThreadStep, ExitThread, Runs
    <2>3. ASSUME NEW p, TerminateProcess(p) PROVE ListInv' /\ OrderInv'
      BY <1>2, <1>4, <2>3 DEF ThreadStep, TerminateProcess
    <2> QED BY <1>4, <2>1, <2>2, <2>3 DEF ThreadStep
  <1>5. ASSUME NEW a \in Addresses, NEW value \in -1 .. 2, Signal(a, value)
        PROVE  ListInv' /\ OrderInv'
    <2>1. CASE value # 0 /\ Inconsistent
      BY <1>5, <2>1, ListInvFrame DEF Signal, InArbiter, arbiterVars
    <2>2. CASE ~(value # 0 /\ Inconsistent)
      <3> DEFINE W == Woken(a, value)
                 q == IF value = 0 THEN waiting_threads ELSE Partition(a)
      <3>1. /\ ResumeFromWait(W, {}) /\ UNCHANGED <<died, alive>>
            /\ waiting_threads' = IF value = 0 THEN waiting_threads ELSE Without(Partition(a), W)
            /\ wait_address' = Forgotten(W)
            /\ arrived' = Without(arrived, W)
        BY <1>5, <2>2 DEF Signal, Woken
      <3>2. /\ value = 0 => W = {}
            /\ W \subseteq Listed
            /\ \A t \in W : status[t] = "WaitArb"
        BY <2>2, WokenWait
      <3> HIDE DEF W
      <3>3. ASSUME NEW u \in Threads PROVE InArbiter(u)' <=> InArbiter(u) /\ u \notin W
        BY <3>1, <3>2 DEF ResumeFromWait, Resumed, InArbiter, Sleeping
      <3>4. CASE value = 0
        <4>1. wait_address' = wait_address
          BY <3>1, <3>2, <3>4 DEF Forgotten, TypeInv
        <4>2. /\ Holds(arrived', Threads, Listed \cap (Threads \ W))
              /\ \A x, y : Precedes(arrived', x, y)
                              <=> Precedes(arrived, x, y) /\ x \in Threads \ W /\ y \in Threads \ W
          BY <3>1, KeptHolds DEF ListInv, Without
        <4>3. Listed \cap (Threads \ W) = Listed /\ Listed' = Listed
          BY <3>1, <3>2, <3>4 DEF ListInv, Holds, Elements, Listed
        <4>4. {t \in Threads : InArbiter(t)}' = {t \in Threads : InArbiter(t)}
          BY <3>2, <3>3, <3>4
        <4>5. ListInv'
          BY <3>1, <3>4, <4>2, <4>3, <4>4 DEF ListInv
        <4>6. OrderInv'
          <5> SUFFICES ASSUME NEW x \in Threads, NEW y \in Threads, Precedes(waiting_threads, x, y),
                              wait_address[x] = wait_address[y]
                       PROVE  Precedes(arrived', x, y)
            BY <3>1, <3>4, <4>1 DEF OrderInv, Precedes
          <5> QED BY <3>2, <3>4, <4>2 DEF OrderInv
        <4> QED BY <4>5, <4>6
      <3>5. CASE value # 0
        BY <3>1, <3>3, <3>5, PartitionHolds, ListInvRemove
      <3> QED BY <3>4, <3>5
    <2> QED BY <2>1, <2>2
  <1>6. ASSUME NEW t \in Threads, NEW a \in Addresses, NEW withTimeout \in BOOLEAN,
               NEW timed \in BOOLEAN, WaitIfLessThan(t, a, withTimeout, timed)
        PROVE  ListInv' /\ OrderInv'
    <2>1. /\ alive /\ alive' /\ status[t] = "Running"
          /\ status' = [status EXCEPT ![t] = "WaitArb"] /\ UNCHANGED died
          /\ waiting_threads' = Append(waiting_threads, t)
          /\ arrived' = Append(arrived, t)
          /\ wait_address' = [wait_address EXCEPT ![t] = a]
      BY <1>6 DEF WaitIfLessThan, WaitThread, Runs
    <2>2. t \notin Listed
      BY <2>1 DEF ListInv, InArbiter
    <2>3. /\ Holds(waiting_threads', Threads, Listed \cup {t})
          /\ Holds(arrived', Threads, Listed \cup {t})
      BY <2>1, <2>2, AppendHolds DEF ListInv
    <2>4. Listed' = Listed \cup {t}
      BY <2>3 DEF Holds, Elements, Listed
    <2>5. {u \in Threads : InArbiter(u)}' = {u \in Threads : InArbiter(u)} \cup {t}
      <3>1. \A u \in Threads : InArbiter(u)' <=> InArbiter(u) \/ u = t
        BY <2>1 DEF InArbiter, TypeInv, ThreadTypeOK
      <3> QED BY <3>1
    <2>6. ListInv'
      BY <2>1, <2>3, <2>4, <2>5 DEF ListInv
    <2>7. OrderInv'
      <3> SUFFICES ASSUME NEW x \in Threads, NEW y \in Threads, Precedes(waiting_threads', x, y),
                          wait_address'[x] = wait_address'[y]
                   PROVE  Precedes(arrived', x, y)
        BY DEF OrderInv, Precedes
      <3>1. /\ waiting_threads \in Seq(Threads) /\ Elements(waiting_threads) = Listed
            /\ arrived \in Seq(Threads) /\ Elements(arrived) = Listed
        BY DEF ListInv, Holds
      <3>2. Precedes(waiting_threads, x, y) \/ (y = t /\ x \in Listed)
        BY <2>1, <3>1, AppendOrder
      <3>3. CASE Precedes(waiting_threads, x, y)
        <4>1. x \in Listed /\ y \in Listed
          BY <3>1, <3>3 DEF Precedes, Elements
        <4>2. wait_address[x] = wait_address[y]
          BY <2>1, <2>2, <4>1 DEF TypeInv
        <4>3. Precedes(arrived, x, y)
          BY <3>3, <4>2 DEF OrderInv
        <4> QED BY <2>1, <3>1, <4>3, AppendOrder
      <3>4. CASE y = t /\ x \in Listed
        BY <2>1, <3>1, <3>4, AppendOrder
      <3> QED BY <3>2, <3>3, <3>4
    <2> QED BY <2>6, <2>7
  <1>7. CASE Destroy
    <2>1. /\ waiting_threads' = << >> /\ arrived' = << >> /\ ~alive'
      BY <1>7 DEF Destroy
    <2>2. Listed' = {}
      BY <2>1 DEF Listed
    <2>3. ListInv'
      BY <2>1, <2>2, EmptyHolds DEF ListInv
    <2>4. OrderInv'
      BY <2>1 DEF OrderInv, Precedes
    <2> QED BY <2>3, <2>4
  <1>8. CASE LimiterStep
    <2>1. UNCHANGED arbiterVars /\ UNCHANGED died
      BY <1>8 DEF LimiterStep, UpdateResourceLimit, ApplyAppMaxCPUSetting, OnTick
    <2>2. \E S : WakeupSleepingThreads(S)
      BY <1>8 DEF LimiterStep, UpdateResourceLimit, ApplyAppMaxCPUSetting, OnTick
    <2> QED BY <1>3, <2>1, <2>2 DEF WakeupSleepingThreads
  <1>9. CASE AsyncStep
    <2>1. ASSUME NEW t \in Threads, RunAsync(t) \/ RunDeterministic(t) \/ TaskEnds(t),
                 NEW u \in Threads
          PROVE  InArbiter(u)' <=> InArbiter(u)
      BY <2>1 DEF RunAsync, RunDeterministic, TaskEnds, SleepClientThread, Runs, InArbiter, TypeInv,
                  ThreadTypeOK
    <2> QED BY <1>9, <2>1, ListInvFrame DEF AsyncStep
  <1>10. CASE Reschedule
    <2>1. PICK next \in Candidates, equals \in SUBSET Runnable :
              SwitchTo(next, MetFirst(next) \cup equals)
      BY <1>10 DEF Reschedule
    <2>2. UNCHANGED <<died, arbiterVars>>
      BY <1>10 DEF Reschedule
    <2>3. \A u \in MetFirst(next) \cup equals : status[u] \in {"Ready", "Running"}
      BY DEF MetFirst, Runnable
    <2>4. next \in Threads => status[next] \in {"Ready", "Running"}
      BY NullAssumption DEF Candidates, BestOf, Free, Runnable
    <2>5. ASSUME NEW u \in Threads PROVE InArbiter(u)' <=> InArbiter(u)
      BY <2>1, <2>2, <2>3, <2>4 DEF SwitchTo, InArbiter
    <2> QED BY <2>2, <2>5, ListInvFrame
  <1>11. CASE MoveEvents
    BY <1>11, ListInvFrame DEF MoveEvents, InArbiter
  <1>12. ASSUME NEW t \in Threads, ThreadWakeupCallback(t) PROVE ListInv' /\ OrderInv'
    <2>1. /\ UNCHANGED <<died, alive>>
          /\ wakeups[t] \in Nat /\ ts_wakeups[t] \in Nat
          /\ wakeups[t] + ts_wakeups[t] > 0
      <3>1. MovedWakeups[t] > 0 /\ UNCHANGED <<died, alive>>
        BY <1>12 DEF ThreadWakeupCallback
      <3> QED BY <3>1 DEF MovedWakeups, TypeInv, ThreadTypeOK
    <2>2. CallbackInv(t)
      BY DEF ThreadInv
    <2>3. CASE status[t] = "Dead"
      BY <1>12, <2>1, <2>3, ListInvFrame DEF ThreadWakeupCallback, InArbiter, arbiterVars
    <2>4. CASE status[t] = "WaitArb"
      <3>1. wakeup_callback[t] = "Arbiter"
        BY <2>1, <2>2, <2>4 DEF CallbackInv, OnItsWay
      <3>2. WakeUp(t) /\ ResumeFromWait({t}, CallbackFailure(t))
        BY <1>12, <2>4, <3>1, NullAssumption DEF ThreadWakeupCallback, RunCallback, CallbackDue
      <3>3. ASSUME NEW u \in Threads PROVE InArbiter(u)' <=> InArbiter(u) /\ u \notin {t}
        BY <2>1, <2>4, <3>2 DEF ResumeFromWait, Resumed, InArbiter, Sleeping
      <3>4. Holds(waiting_threads, Threads, Listed)
        BY DEF ListInv
      <3> QED BY <2>1, <3>2, <3>3, <3>4, ListInvRemove DEF WakeUp
    <2>5. CASE status[t] \notin {"Dead", "WaitArb"}
      <3>1. ResumeFromWait({t}, CallbackFailure(t))
        BY <1>12, <2>5 DEF ThreadWakeupCallback
      <3>2. wakeup_callback[t] # "Arbiter" \/ status[t] # "WaitHleEvent"
        BY <2>2 DEF CallbackInv
      <3>3. UNCHANGED arbiterVars
        BY <1>12, <2>1, <2>5, <3>2 DEF ThreadWakeupCallback, RunCallback, CallbackDue, arbiterVars
      <3> QED BY <1>3, <2>1, <2>5, <3>1, <3>3
    <2> QED BY <2>3, <2>4, <2>5
  <1> QED BY <1>1, <1>4, <1>5, <1>6, <1>7, <1>8, <1>9, <1>10, <1>11, <1>12 DEF Next, ArbiterStep

-----------------------------------------------------------------------------
(* The count of async operations *)

LEMMA AsyncInvInit == Init => AsyncInv
  <1> SUFFICES ASSUME Init PROVE AsyncInv
    OBVIOUS
  <1>1. Asked = {}
    BY DEF Init, ThreadInit, Asked, InService
  <1> QED BY <1>1, FS_EmptySet DEF Init, AsyncInit, AsyncInv

LEMMA AsyncInvFrame ==
    ASSUME AsyncInv, UNCHANGED pending_async_operations,
           \A u \in Threads : InService(u)' <=> InService(u)
    PROVE  AsyncInv'
  <1>1. Asked' = Asked
    BY DEF Asked
  <1> QED BY <1>1 DEF AsyncInv

LEMMA AsyncInvStep ==
    ASSUME TypeInv, ThreadInv, ListInv, AsyncInv, [Next]_vars
    PROVE  AsyncInv'
  <1>1. CASE UNCHANGED vars
    BY <1>1, AsyncInvFrame DEF vars, threadVars, asyncVars, InService
  <1>2. ASSUME NEW S, \A t \in S : status[t] # "Dead", Stop(S), UNCHANGED asyncVars
        PROVE  AsyncInv'
    <2>1. ASSUME NEW u \in Threads PROVE InService(u)' <=> InService(u)
      <3>1. DiedInv(u)
        BY DEF ThreadInv
      <3> QED BY <1>2, <3>1, NullAssumption DEF Stop, InService, DiedInv
    <2> QED BY <1>2, <2>1, AsyncInvFrame DEF asyncVars
  <1>3. ASSUME NEW S, NEW f, \A t \in S : status[t] # "WaitHleEvent",
               ResumeFromWait(S, f), UNCHANGED died,
               UNCHANGED pending_async_operations
        PROVE  AsyncInv'
    <2>1. ASSUME NEW u \in Threads PROVE InService(u)' <=> InService(u)
      BY <1>3 DEF ResumeFromWait, Resumed, InService, Sleeping
    <2> QED BY <1>3, <2>1, AsyncInvFrame
  <1>4. CASE ThreadStep
    <2>1. ASSUME NEW t \in Threads, SleepThread(t) PROVE AsyncInv'
      <3>1. ASSUME NEW u \in Threads PROVE InService(u)' <=> InService(u)
        BY <2>1 DEF SleepThread, Runs, InService, TypeInv, ThreadTypeOK
      <3> QED BY <1>4, <3>1, AsyncInvFrame DEF ThreadStep, asyncVars
    <2>2. ASSUME NEW t \in Threads, ExitThread(t) PROVE AsyncInv'
      BY <1>2, <1>4, <2>2 DEF ThreadStep, ExitThread, Runs
    <2>3. ASSUME NEW p, TerminateProcess(p) PROVE AsyncInv'
      BY <1>2, <1>4, <2>3 DEF ThreadStep, TerminateProcess
    <2> QED BY <1>4, <2>1, <2>2, <2>3 DEF ThreadStep
  <1>5. ASSUME NEW a \in Addresses, NEW value \in -1 .. 2, Signal(a, value), UNCHANGED asyncVars
        PROVE  AsyncInv'
    <2>1. CASE value # 0 /\ Inconsistent
      BY <1>5, <2>1, AsyncInvFrame DEF Signal, InService, asyncVars
    <2>2. CASE ~(value # 0 /\ Inconsistent)
      <3>1. ResumeFromWait(Woken(a, value), {}) /\ UNCHANGED <<died, pending_async_operations>>
        BY <1>5, <2>2 DEF Signal, asyncVars, Woken
      <3>2. \A t \in Woken(a, value) : status[t] # "WaitHleEvent"
        BY <2>2, WokenWait
      <3> QED BY <1>3, <3>1, <3>2
    <2> QED BY <2>1, <2>2
  <1>6. ASSUME NEW t \in Threads, NEW a \in Addresses, NEW withTimeout \in BOOLEAN,
               NEW timed \in BOOLEAN, WaitIfLessThan(t, a, withTimeout, timed), UNCHANGED asyncVars
        PROVE  AsyncInv'
    <2>1. ASSUME NEW u \in Threads PROVE InService(u)' <=> InService(u)
      BY <1>6 DEF WaitIfLessThan, WaitThread, Runs, InService, TypeInv, ThreadTypeOK
    <2> QED BY <1>6, <2>1, AsyncInvFrame DEF asyncVars
  <1>7. ASSUME Destroy, UNCHANGED asyncVars PROVE AsyncInv'
    BY <1>7, AsyncInvFrame DEF Destroy, threadVars, InService, asyncVars
  <1>8. CASE LimiterStep
    <2>1. UNCHANGED <<pending_async_operations, died>>
      BY <1>8 DEF LimiterStep, UpdateResourceLimit, ApplyAppMaxCPUSetting, OnTick, asyncVars
    <2>2. \E S : WakeupSleepingThreads(S)
      BY <1>8 DEF LimiterStep, UpdateResourceLimit, ApplyAppMaxCPUSetting, OnTick
    <2> QED BY <1>3, <2>1, <2>2 DEF WakeupSleepingThreads
  <1>9. ASSUME NEW t \in Threads, RunAsync(t) \/ RunDeterministic(t) PROVE AsyncInv'
    <2>1. /\ status[t] = "Running" /\ status' = [status EXCEPT ![t] = "WaitHleEvent"]
          /\ UNCHANGED died
          /\ pending_async_operations' = pending_async_operations + 1
      BY <1>9 DEF RunAsync, RunDeterministic, SleepClientThread, Runs
    <2>2. t \notin Asked /\ Asked' = Asked \cup {t}
      BY <2>1 DEF Asked, InService, TypeInv, ThreadTypeOK
    <2> QED BY <2>1, <2>2, FS_AddElement DEF AsyncInv
  <1>10. ASSUME NEW t \in Threads, TaskEnds(t) PROVE AsyncInv'
    BY <1>10, AsyncInvFrame DEF TaskEnds, InService
  <1>11. CASE Reschedule
    <2>1. PICK next \in Candidates, equals \in SUBSET Runnable :
              SwitchTo(next, MetFirst(next) \cup equals)
      BY <1>11 DEF Reschedule
    <2>2. UNCHANGED <<died, pending_async_operations>>
      BY <1>11 DEF Reschedule, asyncVars
    <2>3. \A u \in MetFirst(next) \cup equals : status[u] \in {"Ready", "Running"}
      BY DEF MetFirst, Runnable
    <2>4. next \in Threads => status[next] \in {"Ready", "Running"}
      BY NullAssumption DEF Candidates, BestOf, Free, Runnable
    <2>5. ASSUME NEW u \in Threads PROVE InService(u)' <=> InService(u)
      BY <2>1, <2>2, <2>3, <2>4 DEF SwitchTo, InService
    <2> QED BY <2>2, <2>5, AsyncInvFrame
  <1>12. CASE MoveEvents
    BY <1>12, AsyncInvFrame DEF MoveEvents, InService, asyncVars
  <1>13. ASSUME NEW t \in Threads, ThreadWakeupCallback(t) PROVE AsyncInv'
    <2>1. UNCHANGED died
      BY <1>13 DEF ThreadWakeupCallback
    <2>2. CallbackInv(t)
      BY DEF ThreadInv
    <2>3. CASE status[t] = "Dead"
      BY <1>13, <2>1, <2>3, AsyncInvFrame DEF ThreadWakeupCallback, InService
    <2>4. CASE status[t] = "WaitHleEvent"
      <3>1. wakeup_callback[t] = "HLE"
        BY <2>2, <2>4 DEF CallbackInv
      <3>2. ReportDone /\ ResumeFromWait({t}, CallbackFailure(t))
        BY <1>13, <2>4, <3>1, NullAssumption DEF ThreadWakeupCallback, RunCallback, CallbackDue
      <3>3. t \in Asked
        BY <2>4 DEF Asked, InService
      <3>4. Asked' = Asked \ {t}
        BY <2>1, <2>4, <3>2 DEF ResumeFromWait, Resumed, Asked, InService, Sleeping
      <3> QED BY <3>2, <3>3, <3>4, FS_RemoveElement DEF AsyncInv, ReportDone
    <2>5. CASE status[t] \notin {"Dead", "WaitHleEvent"}
      <3>1. ResumeFromWait({t}, CallbackFailure(t))
        BY <1>13, <2>5 DEF ThreadWakeupCallback
      <3>2. status[t] = "WaitArb" => wakeup_callback[t] \in {None, "Arbiter"}
        BY <2>2 DEF CallbackInv
      <3>3. UNCHANGED pending_async_operations
        BY <1>13, <2>5, <3>2 DEF ThreadWakeupCallback, RunCallback, CallbackDue
      <3> QED BY <1>3, <2>1, <2>5, <3>1, <3>3
    <2> QED BY <2>3, <2>4, <2>5
  <1>14. CASE ArbiterStep
    BY <1>5, <1>6, <1>7, <1>14 DEF ArbiterStep
  <1>15. CASE AsyncStep
    BY <1>9, <1>10, <1>15 DEF AsyncStep
  <1> QED BY <1>1, <1>4, <1>8, <1>11, <1>12, <1>13, <1>14, <1>15 DEF Next

-----------------------------------------------------------------------------
(* The limiters, and who wakes a sleeping thread *)

(* What an operation on a limiter does to its tick and its sleepers. *)
LEMMA LimiterFacts ==
    ASSUME NEW L \in LimiterRecord, NEW core \in Cores, NEW preempt \in BOOLEAN
    PROVE  LET U == UpdateAppCpuLimit(L, preempt, core)
           IN  /\ U.ready = L.ready
               /\ L.ready /\ preempt => U.ticks + U.ts_ticks > 0 /\ U.sleeping = L.sleeping
               /\ L.ready /\ ~preempt => ~U.active
               /\ Start(L).ready
               /\ ~End(L).ready
               /\ ChangeState(L, core).ticks + ChangeState(L, core).ts_ticks > 0
               /\ ChangeState(L, core).ready = L.ready
  <1>1. ASSUME NEW M \in LimiterRecord
        PROVE  /\ ChangeState(M, core).ticks + ChangeState(M, core).ts_ticks > 0
               /\ ChangeState(M, core).ready = M.ready
               /\ ChangeState(M, core).sleeping = M.sleeping
    <2> DEFINE flipped == [M EXCEPT !.curr_state = IF @ = "SYS" THEN "APP" ELSE "SYS"]
    <2>1. /\ flipped \in LimiterRecord /\ flipped.ready = M.ready
          /\ flipped.sleeping = M.sleeping
      BY DEF LimiterRecord
    <2>2. flipped.ticks \in Nat /\ flipped.ts_ticks \in Nat
      BY <2>1 DEF LimiterRecord
    <2> HIDE DEF flipped
    <2>3. CASE core = "core 1"
      <3>1. ChangeState(M, core) = [flipped EXCEPT !.ticks = flipped.ticks + 1]
        BY <2>3 DEF ChangeState, flipped
      <3>2. /\ ChangeState(M, core).ticks = flipped.ticks + 1
            /\ ChangeState(M, core).ts_ticks = flipped.ts_ticks
            /\ ChangeState(M, core).ready = flipped.ready
            /\ ChangeState(M, core).sleeping = flipped.sleeping
        BY <2>1, <3>1 DEF LimiterRecord
      <3> QED BY <2>1, <2>2, <3>2
    <2>4. CASE core # "core 1"
      <3>1. ChangeState(M, core) = [flipped EXCEPT !.ts_ticks = flipped.ts_ticks + 1]
        BY <2>4 DEF ChangeState, flipped
      <3>2. /\ ChangeState(M, core).ts_ticks = flipped.ts_ticks + 1
            /\ ChangeState(M, core).ticks = flipped.ticks
            /\ ChangeState(M, core).ready = flipped.ready
            /\ ChangeState(M, core).sleeping = flipped.sleeping
        BY <2>1, <3>1 DEF LimiterRecord
      <3> QED BY <2>1, <2>2, <3>2
    <2> QED BY <2>3, <2>4
  <1>2. CASE ~L.ready
    BY <1>1, <1>2 DEF UpdateAppCpuLimit, Start, End, LimiterRecord
  <1>3. CASE L.ready /\ preempt
    <2> DEFINE M == [L EXCEPT !.active = TRUE, !.ticks = IF L.active THEN 0 ELSE @]
    <2>1. M \in LimiterRecord /\ M.ready = L.ready /\ M.sleeping = L.sleeping
      BY DEF LimiterRecord
    <2>2. UpdateAppCpuLimit(L, preempt, core) = ChangeState(M, core)
      BY <1>3 DEF UpdateAppCpuLimit
    <2> HIDE DEF M
    <2>3. Start(L).ready /\ ~End(L).ready
      BY <1>3 DEF Start, End, LimiterRecord
    <2> QED BY <1>1, <1>3, <2>1, <2>2, <2>3
  <1>4. CASE L.ready /\ ~preempt
    <2>1. UpdateAppCpuLimit(L, preempt, core)
              = [L EXCEPT !.active = FALSE, !.ticks = 0, !.sleeping = {}]
      BY <1>4 DEF UpdateAppCpuLimit
    <2>2. /\ UpdateAppCpuLimit(L, preempt, core).ready = L.ready
          /\ UpdateAppCpuLimit(L, preempt, core).active = FALSE
      BY <2>1 DEF LimiterRecord
    <2>3. Start(L).ready /\ ~End(L).ready
      BY <1>4 DEF Start, End, LimiterRecord
    <2> QED BY <1>1, <1>4, <2>2, <2>3
  <1> QED BY <1>2, <1>3, <1>4

(* Timer::MoveEvents loses no tick and no sleeper. *)
LEMMA MovedTicksFacts ==
    ASSUME TypeInv, NEW m \in Modes
    PROVE  /\ MovedTicks \in [Modes -> LimiterRecord]
           /\ lim[m] \in LimiterRecord
           /\ lim[m].ticks + lim[m].ts_ticks \in Nat
           /\ MovedTicks[m].ticks = lim[m].ticks + lim[m].ts_ticks
           /\ MovedTicks[m].ts_ticks = 0
           /\ MovedTicks[m].ready = lim[m].ready
           /\ MovedTicks[m].active = lim[m].active
           /\ MovedTicks[m].sleeping = lim[m].sleeping
  <1>1. \A k \in Modes : lim[k] \in LimiterRecord
    BY DEF TypeInv, LimiterTypeOK
  <1>2. MovedTicks \in [Modes -> LimiterRecord]
    BY <1>1, LimiterOperations DEF MovedTicks, Cores
  <1>3. lim[m].ticks + lim[m].ts_ticks \in Nat
    BY <1>1 DEF LimiterRecord
  <1>4. /\ MovedTicks[m].ticks = lim[m].ticks + lim[m].ts_ticks
        /\ MovedTicks[m].ts_ticks = 0
        /\ MovedTicks[m].ready = lim[m].ready
        /\ MovedTicks[m].active = lim[m].active
        /\ MovedTicks[m].sleeping = lim[m].sleeping
    BY <1>1 DEF MovedTicks, LimiterRecord
  <1> QED BY <1>1, <1>2, <1>3, <1>4

LEMMA LimiterInvInit == Init => LimiterInv /\ SleepHasWaker
  <1> SUFFICES ASSUME Init PROVE LimiterInv /\ SleepHasWaker
    OBVIOUS
  <1>1. Idle \in LimiterRecord /\ Idle.ready = FALSE
    BY DEF Idle, LimiterRecord
  <1>2. PICK preempt \in BOOLEAN :
            /\ schedule_mode \in Modes
            /\ lim = [m \in Modes |-> IF m = schedule_mode
                                      THEN UpdateAppCpuLimit(Start(Idle), preempt, "other")
                                      ELSE Idle]
    BY DEF Init, LimiterInit
  <1> DEFINE L == Start(Idle)
  <1>3. L \in LimiterRecord /\ L.ready
    BY <1>1, LimiterOperations, LimiterFacts DEF Cores
  <1> HIDE DEF L
  <1> DEFINE U == UpdateAppCpuLimit(L, preempt, "other")
  <1>4. U.ready /\ (U.ticks + U.ts_ticks > 0 \/ ~U.active)
    BY <1>3, LimiterFacts DEF Cores
  <1>5. lim[schedule_mode] = U /\ \A m \in Modes : m # schedule_mode => lim[m] = Idle
    BY <1>2 DEF L
  <1>6. LimiterInv
    BY <1>1, <1>4, <1>5 DEF LimiterInv
  <1>7. SleepHasWaker
    BY DEF Init, ThreadInit, SleepHasWaker
  <1> QED BY <1>6, <1>7

(* Steps that do not touch the limiters and put nobody to sleep without an  *)
(* event of its own.                                                        *)
LEMMA LimiterFrame ==
    ASSUME LimiterInv, SleepHasWaker, UNCHANGED limiterVars,
           \A u \in Threads : status'[u] = "WaitSleep"
               => wakeups'[u] > 0 \/ (status[u] = "WaitSleep" /\ wakeups'[u] = wakeups[u])
    PROVE  LimiterInv' /\ SleepHasWaker'
  BY DEF LimiterInv, SleepHasWaker, limiterVars

LEMMA LimiterInvStep ==
    ASSUME TypeInv, LimiterInv, SleepHasWaker, [Next]_vars
    PROVE  LimiterInv' /\ SleepHasWaker'
  <1> USE DEF limiterVars
  <1>0. \A m \in Modes : lim[m] \in LimiterRecord
    BY DEF TypeInv, LimiterTypeOK
  <1>t. schedule_mode \in Modes /\ \A u \in Threads : wakeups[u] \in Nat /\ ts_wakeups[u] \in Nat
    BY DEF TypeInv, LimiterTypeOK, ThreadTypeOK
  <1>1. CASE UNCHANGED vars
    BY <1>1, LimiterFrame DEF vars, threadVars
  <1>2. CASE ThreadStep
    <2>1. ASSUME NEW t \in Threads, SleepThread(t), NEW u \in Threads, status'[u] = "WaitSleep"
          PROVE  wakeups'[u] > 0 \/ (status[u] = "WaitSleep" /\ wakeups'[u] = wakeups[u])
      BY <2>1 DEF SleepThread, WakeAfterDelay, TypeInv, ThreadTypeOK
    <2>2. ASSUME NEW S, Stop(S), NEW u \in Threads, status'[u] = "WaitSleep"
          PROVE  status[u] = "WaitSleep" /\ wakeups'[u] = wakeups[u]
      BY <2>2 DEF Stop
    <2> QED BY <1>2, <2>1, <2>2, LimiterFrame DEF ThreadStep, ExitThread, TerminateProcess
  <1>3. CASE ArbiterStep
    <2>1. ASSUME NEW a \in Addresses, NEW value \in -1 .. 2, Signal(a, value),
                 NEW u \in Threads, status'[u] = "WaitSleep"
          PROVE  status[u] = "WaitSleep" /\ wakeups'[u] = wakeups[u]
      BY <2>1 DEF Signal, ResumeFromWait, Resumed
    <2>2. ASSUME NEW t \in Threads, NEW a \in Addresses, NEW withTimeout \in BOOLEAN,
                 NEW timed \in BOOLEAN, WaitIfLessThan(t, a, withTimeout, timed),
                 NEW u \in Threads, status'[u] = "WaitSleep"
          PROVE  status[u] = "WaitSleep" /\ wakeups'[u] = wakeups[u]
      BY <2>2 DEF WaitIfLessThan, WaitThread, WakeAfterDelay, TypeInv, ThreadTypeOK
    <2>3. CASE Destroy
      BY <1>3, <2>3, LimiterFrame DEF ArbiterStep, Destroy, threadVars
    <2> QED BY <1>3, <2>1, <2>2, <2>3, LimiterFrame DEF ArbiterStep
  <1>4. CASE AsyncStep
    <2>1. ASSUME NEW t \in Threads, RunAsync(t) \/ RunDeterministic(t) \/ TaskEnds(t),
                 NEW u \in Threads, status'[u] = "WaitSleep"
          PROVE  status[u] = "WaitSleep" /\ wakeups'[u] = wakeups[u]
      BY <2>1 DEF RunAsync, RunDeterministic, TaskEnds, SleepClientThread, WakeAfterDelay, TypeInv,
                  ThreadTypeOK
    <2> QED BY <1>4, <2>1, LimiterFrame DEF AsyncStep
  <1>5. ASSUME NEW preempt \in BOOLEAN, NEW core \in Cores, UpdateResourceLimit(preempt, core)
        PROVE  LimiterInv' /\ SleepHasWaker'
    <2> DEFINE old == lim[schedule_mode]
               U == UpdateAppCpuLimit(old, preempt, core)
    <2>1. /\ lim' = [lim EXCEPT ![schedule_mode] = U]
          /\ WakeupSleepingThreads(IF old.ready /\ ~preempt THEN old.sleeping ELSE {})
          /\ UNCHANGED <<schedule_mode, wakeups>>
      BY <1>5 DEF UpdateResourceLimit
    <2>2. old.ready
      BY DEF LimiterInv
    <2>3. /\ U.ready
          /\ preempt => U.ticks + U.ts_ticks > 0 /\ U.sleeping = old.sleeping
          /\ ~preempt => ~U.active
      BY <1>0, <1>t, <2>2, LimiterFacts
    <2> HIDE DEF U
    <2>4. lim'[schedule_mode'] = U /\ \A m \in Modes : m # schedule_mode' => lim'[m] = lim[m]
      BY <1>t, <2>1 DEF TypeInv, LimiterTypeOK
    <2>5. LimiterInv'
      BY <2>1, <2>3, <2>4 DEF LimiterInv
    <2>6. ASSUME NEW u \in Threads, status'[u] = "WaitSleep"
          PROVE  /\ status[u] = "WaitSleep"
                 /\ ~preempt => u \notin old.sleeping
      BY <2>1, <2>2, <2>6 DEF WakeupSleepingThreads, ResumeFromWait, Resumed, Sleeping
    <2>7. SleepHasWaker'
      BY <2>1, <2>3, <2>4, <2>6 DEF SleepHasWaker
    <2> QED BY <2>5, <2>7
  <1>6. ASSUME NEW mode \in Modes, NEW exempt \in BOOLEAN, NEW preempt \in BOOLEAN,
               NEW core \in Cores, ApplyAppMaxCPUSetting(mode, exempt, preempt, core)
        PROVE  LimiterInv' /\ SleepHasWaker'
    <2> DEFINE ended == [lim EXCEPT ![schedule_mode] = End(lim[schedule_mode])]
               started == [ended EXCEPT ![mode] = Start(ended[mode])]
               U == UpdateAppCpuLimit(started[mode], preempt, core)
               S == (IF lim[schedule_mode].ready THEN lim[schedule_mode].sleeping ELSE {})
                        \cup (IF preempt THEN {} ELSE started[mode].sleeping)
    <2>1. /\ lim' = [started EXCEPT ![mode] = U]
          /\ schedule_mode' = mode
          /\ WakeupSleepingThreads(S)
          /\ UNCHANGED wakeups
      BY <1>6 DEF ApplyAppMaxCPUSetting
    <2>2. lim[schedule_mode].ready
      BY DEF LimiterInv
    <2>3. End(lim[schedule_mode]) \in LimiterRecord /\ ~End(lim[schedule_mode]).ready
      BY <1>0, <1>t, LimiterOperations, LimiterFacts DEF Cores
    <2>4. ended \in [Modes -> LimiterRecord] /\ \A m \in Modes : ~ended[m].ready
      BY <1>t, <2>3 DEF TypeInv, LimiterTypeOK, LimiterInv
    <2> HIDE DEF ended
    <2>5. Start(ended[mode]) \in LimiterRecord /\ Start(ended[mode]).ready
      BY <2>4, LimiterOperations, LimiterFacts
    <2>6. started \in [Modes -> LimiterRecord] /\ started[mode].ready
          /\ \A m \in Modes : m # mode => ~started[m].ready
      BY <2>4, <2>5
    <2> HIDE DEF started
    <2>7. U.ready /\ (U.ticks + U.ts_ticks > 0 \/ ~U.active)
      BY <2>6, LimiterFacts
    <2> HIDE DEF U
    <2>8. lim'[schedule_mode'] = U /\ \A m \in Modes : m # schedule_mode' => lim'[m] = started[m]
      BY <2>1, <2>6
    <2>9. LimiterInv'
      BY <2>1, <2>6, <2>7, <2>8 DEF LimiterInv
    <2>10. ASSUME NEW u \in Threads, status'[u] = "WaitSleep"
           PROVE  status[u] = "WaitSleep" /\ u \notin lim[schedule_mode].sleeping
      BY <2>1, <2>2, <2>10 DEF WakeupSleepingThreads, ResumeFromWait, Resumed, Sleeping
    <2>11. SleepHasWaker'
      BY <2>1, <2>10 DEF SleepHasWaker
    <2> QED BY <2>9, <2>11
  <1>7. ASSUME NEW m \in Modes, OnTick(m) PROVE LimiterInv' /\ SleepHasWaker'
    <2> DEFINE L == MovedTicks[m]
               N == [L EXCEPT !.ticks = L.ticks - 1, !.sleeping = {}]
               C == ChangeState(N, "core 1")
    <2>1. /\ lim' = [MovedTicks EXCEPT ![m] = C] /\ L.ticks > 0
          /\ WakeupSleepingThreads(L.sleeping)
          /\ wakeups' = MovedWakeups
          /\ schedule_mode' = schedule_mode
      BY <1>7 DEF OnTick
    <2>2. L \in LimiterRecord
      BY <1>7, MovedTicksFacts
    <2> HIDE DEF L
    <2>3. L.ticks - 1 \in Nat
      <3>1. L.ticks > 0
        BY <2>1
      <3> QED BY <2>2, <3>1 DEF LimiterRecord
    <2>4. N \in LimiterRecord /\ N.ready = L.ready
      BY <2>2, <2>3 DEF LimiterRecord
    <2> HIDE DEF N
    <2>5. C.ready = L.ready /\ C.ticks + C.ts_ticks > 0
      BY <2>4, LimiterFacts DEF Cores
    <2> HIDE DEF C
    <2>6. /\ lim'[m] = C
          /\ \A k \in Modes : k # m => lim'[k] = MovedTicks[k]
      BY <1>7, <2>1, MovedTicksFacts
    <2>7. \A k \in Modes : lim'[k].ready = lim[k].ready
      BY <2>5, <2>6, MovedTicksFacts DEF L
    <2>8. lim'[schedule_mode].active =>
              lim'[schedule_mode].ticks + lim'[schedule_mode].ts_ticks > 0
      <3>1. CASE schedule_mode = m
        BY <2>5, <2>6, <3>1
      <3>2. CASE schedule_mode # m
        BY <1>t, <2>6, <3>2, MovedTicksFacts DEF LimiterInv
      <3> QED BY <3>1, <3>2
    <2>9. LimiterInv'
      BY <2>1, <2>7, <2>8, <1>t DEF LimiterInv
    <2>10. ASSUME NEW u \in Threads, status'[u] = "WaitSleep"
           PROVE  /\ status[u] = "WaitSleep" /\ u \notin lim[m].sleeping
                  /\ wakeups[u] > 0 => wakeups'[u] > 0
      <3>1. status[u] = "WaitSleep" /\ u \notin L.sleeping
        BY <2>1, <2>10 DEF WakeupSleepingThreads, ResumeFromWait, Resumed, Sleeping
      <3>2. wakeups'[u] = wakeups[u] + ts_wakeups[u]
        BY <2>1 DEF MovedWakeups
      <3> QED BY <1>t, <3>1, <3>2, MovedTicksFacts DEF L
    <2>11. schedule_mode # m => /\ lim'[schedule_mode].sleeping = lim[schedule_mode].sleeping
                                /\ lim'[schedule_mode].ticks + lim'[schedule_mode].ts_ticks
                                       = lim[schedule_mode].ticks + lim[schedule_mode].ts_ticks
      BY <1>t, <2>6, MovedTicksFacts
    <2>12. SleepHasWaker'
      BY <2>1, <2>10, <2>11 DEF SleepHasWaker
    <2> QED BY <2>9, <2>12
  <1>8. CASE LimiterStep
    BY <1>5, <1>6, <1>7, <1>8 DEF LimiterStep
  <1>9. CASE Reschedule
    <2>1. PICK next \in Candidates, equals \in SUBSET Runnable :
              /\ \A t \in equals : DoTimeLimit(t)
              /\ SwitchTo(next, MetFirst(next) \cup equals)
              /\ lim' = [lim EXCEPT ![schedule_mode].sleeping = @ \cup (MetFirst(next) \cup equals)]
      BY <1>9 DEF Reschedule
    <2> DEFINE slept == MetFirst(next) \cup equals
    <2>2. schedule_mode' = schedule_mode
      BY <1>9 DEF Reschedule
    <2>3. \A t \in slept : DoTimeLimit(t)
      BY <2>1 DEF MetFirst
    <2>4. slept # {} => lim[schedule_mode].ticks + lim[schedule_mode].ts_ticks > 0
      BY <2>3 DEF DoTimeLimit, LimiterInv
    <2> HIDE DEF slept
    <2>5. /\ \A m \in Modes : lim'[m].ready = lim[m].ready /\ lim'[m].active = lim[m].active
                              /\ lim'[m].ticks = lim[m].ticks /\ lim'[m].ts_ticks = lim[m].ts_ticks
          /\ lim'[schedule_mode].sleeping = lim[schedule_mode].sleeping \cup slept
      BY <1>0, <1>t, <2>1 DEF TypeInv, LimiterTypeOK, LimiterRecord, slept
    <2>6. LimiterInv'
      BY <1>t, <2>2, <2>5 DEF LimiterInv
    <2>7. next \in Threads => status[next] \in {"Ready", "Running"}
      BY NullAssumption DEF Candidates, BestOf, Free, Runnable
    <2>8. ASSUME NEW u \in Threads, status'[u] = "WaitSleep", u \notin slept
          PROVE  status[u] = "WaitSleep" /\ wakeups'[u] = wakeups[u]
      BY <2>1, <2>7, <2>8 DEF SwitchTo, slept
    <2>9. SleepHasWaker'
      BY <1>t, <2>2, <2>4, <2>5, <2>8 DEF SleepHasWaker
    <2> QED BY <2>6, <2>9
  <1>10. ASSUME lim' = MovedTicks, UNCHANGED schedule_mode,
                \A u \in Threads : status'[u] = "WaitSleep"
                    => status[u] = "WaitSleep" /\ wakeups'[u] >= wakeups[u] /\ wakeups'[u] \in Nat
         PROVE  LimiterInv' /\ SleepHasWaker'
    <2>1. LimiterInv'
      BY <1>t, <1>10, MovedTicksFacts DEF LimiterInv
    <2>2. /\ lim'[schedule_mode].sleeping = lim[schedule_mode].sleeping
          /\ lim'[schedule_mode].ticks + lim'[schedule_mode].ts_ticks
                 = lim[schedule_mode].ticks + lim[schedule_mode].ts_ticks
      BY <1>t, <1>10, MovedTicksFacts
    <2>3. SleepHasWaker'
      BY <1>t, <1>10, <2>2 DEF SleepHasWaker
    <2> QED BY <2>1, <2>3
  <1>11. CASE MoveEvents
    <2>1. /\ lim' = MovedTicks /\ wakeups' = MovedWakeups /\ UNCHANGED <<schedule_mode, status>>
      BY <1>11 DEF MoveEvents
    <2>2. \A u \in Threads : wakeups'[u] >= wakeups[u] /\ wakeups'[u] \in Nat
      BY <1>t, <2>1 DEF MovedWakeups
    <2> QED BY <1>10, <2>1, <2>2
  <1>12. ASSUME NEW t \in Threads, ThreadWakeupCallback(t) PROVE LimiterInv' /\ SleepHasWaker'
    <2>1. /\ lim' = MovedTicks /\ wakeups' = [MovedWakeups EXCEPT ![t] = @ - 1]
          /\ UNCHANGED schedule_mode
      BY <1>12 DEF ThreadWakeupCallback
    <2>a. status[t] = "Dead" => UNCHANGED status
      BY <1>12 DEF ThreadWakeupCallback
    <2>b. status[t] # "Dead" => ResumeFromWait({t}, CallbackFailure(t))
      BY <1>12 DEF ThreadWakeupCallback
    <2>2. ASSUME NEW u \in Threads, status'[u] = "WaitSleep"
          PROVE  u # t /\ status[u] = "WaitSleep"
      BY <2>a, <2>b, <2>2 DEF ResumeFromWait, Resumed, Sleeping
    <2>3. \A u \in Threads : u # t => wakeups'[u] >= wakeups[u] /\ wakeups'[u] \in Nat
      BY <1>t, <2>1 DEF MovedWakeups
    <2> QED BY <1>10, <2>1, <2>2, <2>3
  <1> QED BY <1>1, <1>2, <1>3, <1>4, <1>8, <1>9, <1>11, <1>12 DEF Next

-----------------------------------------------------------------------------
(* Why the emulator stops *)

LEMMA FailureStep ==
    ASSUME TypeInv, ThreadInv, ListInv, FailureExplained, [Next]_vars
    PROVE  FailureExplained'
  <1>1. CASE UNCHANGED vars
    BY <1>1 DEF vars, threadVars, arbiterVars, FailureExplained
  <1>2. CASE failed' = {}
    BY <1>2 DEF FailureExplained
  <1>3. ASSUME NEW a \in Addresses, NEW value \in -1 .. 2, Signal(a, value), failed' # {}
        PROVE  FailureExplained'
    <2>0. CASE ~(value # 0 /\ Inconsistent)
      <3>1. ResumeFromWait(Woken(a, value), {})
        BY <1>3, <2>0 DEF Signal, Woken
      <3>2. \A t \in Woken(a, value) : status[t] \in Sleeping
        BY <2>0, WokenWait DEF Sleeping
      <3> QED BY <1>3, <3>1, <3>2, SleepersResume DEF ResumeFromWait
    <2>1. CASE value # 0 /\ Inconsistent
      <3>1. /\ alive /\ Inconsistent /\ UNCHANGED died
            /\ failed' = {"Inconsistent AddressArbiter state"}
        BY <1>3, <2>1 DEF Signal
      <3>2. \E t \in Threads : status[t] = "Dead" /\ died[t] = "WaitArb"
        BY <3>1 DEF Inconsistent, ListInv, InArbiter
      <3> QED BY <3>1, <3>2 DEF FailureExplained
    <2> QED BY <2>0, <2>1
  <1>4. ASSUME NEW t \in Threads, ThreadWakeupCallback(t), failed' # {}
        PROVE  FailureExplained'
    <2>1. failed = {} /\ UNCHANGED <<died, alive>>
      BY <1>4 DEF ThreadWakeupCallback
    <2>2. CallbackInv(t) /\ WakeupInv(t)
      BY DEF ThreadInv
    <2>3. CASE status[t] = "Dead"
      <3>1. failed' = {"wakeup_callback_table.at"}
        BY <1>4, <2>3 DEF ThreadWakeupCallback
      <3>2. wakeups[t] + ts_wakeups[t] > 0 /\ wakeups[t] \in Nat /\ ts_wakeups[t] \in Nat
        <4>1. MovedWakeups[t] > 0
          BY <1>4 DEF ThreadWakeupCallback
        <4> QED BY <4>1 DEF MovedWakeups, TypeInv, ThreadTypeOK
      <3>3. died[t] = "WaitHleEvent"
        BY <2>2, <2>3, <3>2 DEF WakeupInv, OnItsWay
      <3> QED BY <2>1, <3>1, <3>3 DEF FailureExplained
    <2>4. CASE status[t] # "Dead"
      <3>1. failed' = CallbackFailure(t) \cup Refused({t})
        BY <1>4, <2>4 DEF ThreadWakeupCallback, ResumeFromWait
      <3>2. Refused({t}) = {}
        <4>1. status[t] # "Running"
          <5>1. MovedWakeups[t] > 0
            BY <1>4 DEF ThreadWakeupCallback
          <5> QED BY <2>2, <5>1 DEF MovedWakeups, TypeInv, ThreadTypeOK, WakeupInv, OnItsWay
        <4>2. status[t] = "Ready" => wakeup_callback[t] = None
          BY <2>2 DEF CallbackInv
        <4> QED BY <2>4, <4>1, <4>2 DEF Refused
      <3>3. CallbackFailure(t) = {} \/ (~alive /\ CallbackFailure(t) = {"arbiter destroyed"})
        BY <2>2 DEF CallbackFailure, CallbackDue, CallbackInv
      <3> QED BY <1>4, <2>1, <3>1, <3>2, <3>3 DEF FailureExplained
    <2> QED BY <2>3, <2>4
  <1>5. CASE ThreadStep
    <2>1. failed' = {}
      BY <1>5 DEF ThreadStep, SleepThread, ExitThread, TerminateProcess, Stop, Runs
    <2> QED BY <1>2, <2>1
  <1>6. CASE ArbiterStep
    <2>1. ASSUME NEW t \in Threads, NEW a \in Addresses, NEW withTimeout \in BOOLEAN,
                 NEW timed \in BOOLEAN, WaitIfLessThan(t, a, withTimeout, timed)
          PROVE  failed' = {}
      BY <2>1 DEF WaitIfLessThan, WaitThread, Runs
    <2>2. Destroy => failed' = {}
      BY DEF Destroy, threadVars
    <2> QED BY <1>2, <1>3, <1>6, <2>1, <2>2 DEF ArbiterStep
  <1>7. CASE LimiterStep
    <2>1. PICK S : WakeupSleepingThreads(S)
      BY <1>7 DEF LimiterStep, UpdateResourceLimit, ApplyAppMaxCPUSetting, OnTick
    <2>2. failed' = {}
      BY <2>1, SleepersResume DEF WakeupSleepingThreads, ResumeFromWait, Sleeping
    <2> QED BY <1>2, <2>2
  <1>8. CASE AsyncStep
    <2>1. failed' = {}
      BY <1>8 DEF AsyncStep, RunAsync, RunDeterministic, TaskEnds, Runs
    <2> QED BY <1>2, <2>1
  <1>9. CASE Reschedule \/ MoveEvents
    <2>1. failed' = {}
      BY <1>9 DEF Reschedule, MoveEvents
    <2> QED BY <1>2, <2>1
  <1> QED BY <1>1, <1>2, <1>4, <1>5, <1>6, <1>7, <1>8, <1>9 DEF Next

-----------------------------------------------------------------------------
(* The inductive invariant of core 1: it holds at the start and every       *)
(* system call, callback, tick, host task and reschedule keeps it.          *)
THEOREM Invariant == Spec => []IInv
  <1>1. Init => IInv
    <2> SUFFICES ASSUME Init PROVE IInv
      OBVIOUS
    <2>1. FailureExplained
      BY DEF Init, ThreadInit, FailureExplained
    <2> QED BY <2>1, TypeInit, ThreadInvInit, ListInvInit, AsyncInvInit, LimiterInvInit DEF IInv
  <1>2. IInv /\ [Next]_vars => IInv'
    BY TypeStep, ThreadInvStep, ListInvStep, AsyncInvStep, LimiterInvStep, FailureStep DEF IInv
  <1> QED BY <1>1, <1>2, PTL DEF Spec

(* Every variable of core 1 keeps its type; pending_async_operations, an    *)
(* int in the code, never falls below zero.                                 *)
THEOREM TypeCorrect == Spec => []TypeOK
  <1>1. IInv => TypeOK
    <2> SUFFICES ASSUME IInv PROVE TypeOK
      OBVIOUS
    <2>1. TypeInv /\ ListInv /\ AsyncInv
      BY DEF IInv
    <2>2. pending_async_operations \in Nat
      BY <2>1, FS_CardinalityType DEF AsyncInv
    <2> QED BY <2>1, <2>2 DEF TypeOK, TypeInv, ListInv, Holds, ArbiterTypeOK, AsyncTypeOK
  <1> QED BY <1>1, Invariant, PTL

(* AddressArbiter::waiting_threads names the threads in WaitArb and those   *)
(* that were killed in it, each once, however signals, timeouts, time       *)
(* limits and kills follow each other.                                      *)
THEOREM ArbiterListCorrect == Spec => []ArbiterListExact
  <1>1. IInv => ArbiterListExact
    <2> SUFFICES ASSUME IInv PROVE ArbiterListExact
      OBVIOUS
    <2>1. waiting_threads \in Seq(Threads) /\ DOMAIN waiting_threads = 1 .. Len(waiting_threads)
      BY DEF IInv, ListInv, Holds
    <2>2. \A i, j \in 1 .. Len(waiting_threads) : waiting_threads[i] = waiting_threads[j] => i = j
      BY DEF IInv, ListInv, Holds
    <2>3. alive => Listed = {t \in Threads : InArbiter(t)}
      BY DEF IInv, ListInv
    <2> QED BY <2>1, <2>2, <2>3 DEF ArbiterListExact, InArbiter
  <1> QED BY <1>1, Invariant, PTL

(* std::stable_partition and the removals keep the threads of one address   *)
(* in the order of their arrival.                                           *)
THEOREM ArrivalOrder == Spec => []OrderKept
  <1>1. IInv => OrderKept
    <2> SUFFICES ASSUME IInv, NEW i \in DOMAIN waiting_threads, NEW j \in DOMAIN waiting_threads,
                        i < j,
                        wait_address[waiting_threads[i]] = wait_address[waiting_threads[j]]
                 PROVE  \E k, l \in DOMAIN arrived :
                            k < l /\ arrived[k] = waiting_threads[i] /\ arrived[l] = waiting_threads[j]
      BY DEF OrderKept
    <2>1. /\ waiting_threads \in Seq(Threads) /\ DOMAIN waiting_threads = 1 .. Len(waiting_threads)
          /\ arrived \in Seq(Threads) /\ DOMAIN arrived = 1 .. Len(arrived)
      BY DEF IInv, ListInv, Holds
    <2>2. Precedes(waiting_threads, waiting_threads[i], waiting_threads[j])
      BY <2>1 DEF Precedes
    <2>3. waiting_threads[i] \in Threads /\ waiting_threads[j] \in Threads
      BY <2>1
    <2>4. Precedes(arrived, waiting_threads[i], waiting_threads[j])
      BY <2>2, <2>3 DEF IInv, OrderInv
    <2> QED BY <2>1, <2>4 DEF Precedes
  <1> QED BY <1>1, Invariant, PTL

(* No mode switch, disabled limit, reschedule or cancelled event strands a  *)
(* thread in WaitSleep.                                                     *)
THEOREM SleepersAreWoken == Spec => []SleepHasWaker
  <1>1. IInv => SleepHasWaker
    BY DEF IInv
  <1> QED BY <1>1, Invariant, PTL

(* A thread that waits for a service has one wakeup on its way and a        *)
(* running thread none: no stale event ends a later wait.                   *)
THEOREM WakeupsCounted == Spec => []OneWakeupOnItsWay
  <1>1. IInv => OneWakeupOnItsWay
    BY DEF IInv, ThreadInv, WakeupInv, OnItsWay, OneWakeupOnItsWay
  <1> QED BY <1>1, Invariant, PTL

(* When pending_async_operations is zero, no host task runs and no result   *)
(* is in a thread-safe queue: a state saved then misses nothing.            *)
THEOREM SavestateIsQuiet == Spec => []QuietWhenNoAsync
  <1>1. IInv => QuietWhenNoAsync
    <2> SUFFICES ASSUME IInv, pending_async_operations = 0
                 PROVE  tasks = {} /\ \A t \in Threads : ts_wakeups[t] = 0
      BY DEF QuietWhenNoAsync
    <2>1. Asked = {}
      BY FS_EmptySet DEF IInv, AsyncInv
    <2>2. ASSUME NEW t \in Threads PROVE t \notin tasks /\ ~(ts_wakeups[t] > 0)
      BY <2>1 DEF IInv, ThreadInv, WakeupInv, Asked
    <2>3. tasks \subseteq Threads /\ \A t \in Threads : ts_wakeups[t] \in Nat
      BY DEF IInv, TypeInv, ThreadTypeOK
    <2> QED BY <2>2, <2>3
  <1> QED BY <1>1, Invariant, PTL

(* No assertion fails and no exception is thrown unless a thread was killed *)
(* while it waited or the arbiter was closed under a waiting thread.        *)
THEOREM FailuresAreExplained == Spec => []FailureExplained
  <1>1. IInv => FailureExplained
    BY DEF IInv
  <1> QED BY <1>1, Invariant, PTL
=============================================================================
