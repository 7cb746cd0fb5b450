----------------------------- MODULE KernelSync -----------------------------
(***************************************************************************)
(* Threads that wait, and the objects they wait for: the synchronisation   *)
(* half of the HLE kernel.                                                 *)
(*                                                                         *)
(*   wait_object.cpp  waiting lists and WakeupAllWaitingThreads            *)
(*   mutex.cpp        recursive mutexes with priority inheritance          *)
(*   semaphore.cpp, event.cpp, timer.cpp                                   *)
(*   thread.cpp       a thread as a wait object, Stop, wakeups, priorities *)
(*   svc.cpp          the system calls that drive them                     *)
(*                                                                         *)
(* One host thread runs all emulated cores in turn, so a system call or a  *)
(* timing callback is one step.  The functions of the code appear as       *)
(* operators from a kernel state S to a kernel state, under their own      *)
(* names; an action applies one handler to the current state.              *)
(*                                                                         *)
(* The scheduler is abstracted here: each core may give the CPU to any of  *)
(* its Ready threads and take it back at any time.  ThreadManager models   *)
(* the choice it really makes.  Waits inside HLE services (WaitHleEvent,   *)
(* WaitIPC) and address arbitration are not part of this module.           *)
(***************************************************************************)
EXTENDS Integers, FiniteSetsExt, Sequences, Filters

CONSTANTS
    Threads, Mutexes, Semaphores, Events, Timers,
    None,            \* a null pointer
    ThreadPrioLowest,\* 63 in the code; 0 is the best priority
    InitPriority,    \* the priority each thread is created with
    Priorities,      \* arguments of svcSetThreadPriority
    NumCores,        \* Core::GetNumCores()
    CoreOf,          \* the core each thread runs on
    ProcessOf,       \* owner_process
    ThreadList,      \* ThreadManager::thread_list, in creation order
    MutexOrder,      \* held_mutexes and pending_mutexes iterate by address
    ResetType,       \* of each event and timer
    MaxCount,        \* max_count of each semaphore; initial_count is 0
    WaitTargets,     \* the objects svcWaitSynchronization1 is called with
    HandleLists,     \* the lists svcWaitSynchronizationN is called with
    SelfWait,        \* whether a thread may wait for itself
    MaxLock          \* bound on recursive locking

Resettable == Events \cup Timers
Objects == Threads \cup Mutexes \cup Semaphores \cup Resettable

ASSUME KindAssumption ==
    /\ None \notin Threads
    /\ Threads \cap (Mutexes \cup Semaphores \cup Resettable) = {}
    /\ Mutexes \cap (Semaphores \cup Resettable) = {}
    /\ Semaphores \cap Resettable = {}
ASSUME OrderAssumption ==
    /\ ThreadList \in Seq(Threads) /\ MutexOrder \in Seq(Mutexes)
    /\ IsInjective(ThreadList) /\ IsInjective(MutexOrder)
    /\ Elements(ThreadList) = Threads /\ Elements(MutexOrder) = Mutexes
ASSUME PriorityAssumption ==
    /\ ThreadPrioLowest \in Nat
    /\ InitPriority \in [Threads -> 0 .. ThreadPrioLowest]
    /\ Priorities \subseteq 0 .. ThreadPrioLowest
ASSUME CoreAssumption == NumCores \in Nat /\ CoreOf \in [Threads -> 0 .. NumCores - 1]
ASSUME ResetTypeAssumption ==
    ResetType \in [Resettable -> {"OneShot", "Sticky", "Pulse"}]
ASSUME CountAssumption == MaxCount \in [Semaphores -> Nat]
ASSUME CallAssumption ==
    /\ WaitTargets \subseteq Objects
    /\ HandleLists \subseteq Seq(Objects)
    /\ SelfWait \in BOOLEAN

VARIABLE kernel  \* the fields of the threads and of the objects, one function each

vars == <<kernel>>

Waiting == {"WaitSynchAny", "WaitSynchAll"}
Statuses == Waiting \cup {"Running", "Ready", "WaitSleep", "Dead"}
Prio == 0 .. ThreadPrioLowest

(* The ASSERTs on the paths of this module. *)
Assertions ==
    {"object unavailable!",
     "Inconsistent thread statuses in waiting_threads",
     "Thread is waking up while waiting for objects",
     "wakeup_callback == nullptr",
     "Thread has already resumed",
     "Thread cannot be resumed because it's DEAD"}

(* The fields of Thread, with a flag or a pointer that is only compared to  *)
(* null as the set of the threads that have it; what the last wait of a     *)
(* thread answered and acquired; the fields of WaitObject, Mutex,           *)
(* Semaphore, Event and Timer; the ASSERTs that did not hold.               *)
KState ==
    [status : [Threads -> Statuses],
     nominal_priority : [Threads -> Prio], current_priority : [Threads -> Prio],
     held_mutexes : [Threads -> SUBSET Mutexes], pending_mutexes : [Threads -> SUBSET Mutexes],
     wait_objects : [Threads -> Seq(Objects)],
     wakeup_callback : SUBSET Threads, wakeup_event : SUBSET Threads, timed : SUBSET Threads,
     result : [Threads -> {"none", "Success", "Timeout"}],
     granted : [Threads -> SUBSET Objects],
     waiting_threads : [Objects -> Seq(Threads)],
     lock_count : [Mutexes -> Nat], holding_thread : [Mutexes -> Threads \cup {None}],
     priority : [Mutexes -> Prio],
     available_count : [Semaphores -> Nat],
     signaled : SUBSET Resettable, scheduled : SUBSET Timers, interval : SUBSET Timers,
     failed : SUBSET Assertions]

-----------------------------------------------------------------------------
(* ASSERT_MSG(holds, text): the emulator stops at the first that fails. *)
Claim(S, holds, text) ==
    IF holds THEN S ELSE [S EXCEPT !.failed = @ \cup {text}]

(* ShouldWait of Mutex, Semaphore, Event, Timer and Thread. *)
ShouldWait(S, o, t) ==
    \/ o \in Mutexes /\ S.lock_count[o] > 0 /\ S.holding_thread[o] # t
    \/ o \in Semaphores /\ S.available_count[o] <= 0
    \/ o \in Resettable /\ o \notin S.signaled
    \/ o \in Threads /\ S.status[o] # "Dead"

(* The best of the nominal priority of t and those of the mutexes it holds. *)
BestPriority(S, t) ==
    Min({S.nominal_priority[t]} \cup {S.priority[m] : m \in S.held_mutexes[t]})

(* Thread::UpdatePriority and BoostPriority. *)
UpdatePriority(S, t) == [S EXCEPT !.current_priority[t] = BestPriority(S, t)]

(* The best priority among the threads that wait for m. *)
BestWaiter(S, m) ==
    Min({ThreadPrioLowest} \cup {S.current_priority[w] : w \in Elements(S.waiting_threads[m])})

(* Mutex::UpdatePriority. *)
MutexUpdatePriority(S, m) ==
    IF S.holding_thread[m] = None \/ S.priority[m] = BestWaiter(S, m)
    THEN S
    ELSE UpdatePriority([S EXCEPT !.priority[m] = BestWaiter(S, m)], S.holding_thread[m])

(* Faulty variant: the holder does not inherit from a new waiter. *)
AddWaitingThreadNoUpdate(S, o, t) ==
    LET added == [S EXCEPT !.waiting_threads[o] = Append(@, t)]
    IN  IF o \in Mutexes THEN [added EXCEPT !.pending_mutexes[t] = @ \cup {o}] ELSE added

(* WaitObject::AddWaitingThread and its override in Mutex. *)
AddWaitingThread(S, o, t) ==
    LET added == IF t \in Elements(S.waiting_threads[o])
                 THEN S
                 ELSE [S EXCEPT !.waiting_threads[o] = Append(@, t)]
    IN  IF o \in Mutexes
        THEN MutexUpdatePriority([added EXCEPT !.pending_mutexes[t] = @ \cup {o}], o)
        ELSE added

(* q without the first x in it. *)
Erased(q, x) ==
    LET at == Min({i \in 1 .. Len(q) : q[i] = x})
    IN  IF x \in Elements(q) THEN SubSeq(q, 1, at - 1) \o SubSeq(q, at + 1, Len(q)) ELSE q

(* Faulty variant: the boost of a waiter outlasts its wait. *)
RemoveWaitingThreadNoUpdate(S, o, t) ==
    LET removed == [S EXCEPT !.waiting_threads[o] = Erased(@, t)]
    IN  IF o \in Mutexes THEN [removed EXCEPT !.pending_mutexes[t] = @ \ {o}] ELSE removed

(* WaitObject::RemoveWaitingThread and its override in Mutex. *)
RemoveWaitingThread(S, o, t) ==
    LET removed == [S EXCEPT !.waiting_threads[o] = Erased(@, t)]
    IN  IF o \in Mutexes
        THEN MutexUpdatePriority([removed EXCEPT !.pending_mutexes[t] = @ \ {o}], o)
        ELSE removed

(* for (auto& object : wait_objects) object->RemoveWaitingThread(t);        *)
(* wait_objects.clear();                                                    *)
LeaveWaitObjects(S, t) ==
    LET objects == S.wait_objects[t]
        left[i \in 0 .. Len(objects)] ==
            IF i = 0 THEN S ELSE RemoveWaitingThread(left[i - 1], objects[i], t)
    IN  [left[Len(objects)] EXCEPT !.wait_objects[t] = << >>]

(* Mutex::Acquire of a mutex that nobody holds. *)
TakeMutex(S, m, t) ==
    UpdatePriority([S EXCEPT !.priority[m] = S.current_priority[t],
                             !.holding_thread[m] = t,
                             !.held_mutexes[t] = @ \cup {m}], t)

(* Acquire of Mutex, Semaphore, Event, Timer and Thread.  Semaphore alone   *)
(* does not assert that it is available.                                    *)
Acquire(S, o, t) ==
    LET ok == Claim(S, o \in Semaphores \/ ~ShouldWait(S, o, t), "object unavailable!")
        owned == IF ok.lock_count[o] = 0 THEN TakeMutex(ok, o, t) ELSE ok
    IN  IF o \in Mutexes THEN [owned EXCEPT !.lock_count[o] = @ + 1]
        ELSE IF o \in Semaphores /\ ok.available_count[o] > 0
             THEN [ok EXCEPT !.available_count[o] = @ - 1]
        ELSE IF o \in Resettable /\ ResetType[o] = "OneShot"
             THEN [ok EXCEPT !.signaled = @ \ {o}]
        ELSE ok

AcquireAll(S, objects, t) ==
    LET acquired[i \in 0 .. Len(objects)] ==
            IF i = 0 THEN S ELSE Acquire(acquired[i - 1], objects[i], t)
    IN  acquired[Len(objects)]

(* Thread::ResumeFromWait: the thread becomes Ready once. *)
ResumeFromWait(S, t) ==
    LET ok == Claim(S, S.wait_objects[t] = << >>, "Thread is waking up while waiting for objects")
    IN  CASE S.status[t] = "Ready"   -> Claim(ok, t \notin S.wakeup_callback, "wakeup_callback == nullptr")
          [] S.status[t] = "Running" -> Claim(ok, FALSE, "Thread has already resumed")
          [] S.status[t] = "Dead"    -> Claim(ok, FALSE, "Thread cannot be resumed because it's DEAD")
          [] OTHER -> [ok EXCEPT !.wakeup_callback = @ \ {t}, !.status[t] = "Ready"]

(* Faulty variant: a thread that waits for all is served by one object. *)
ReadyToRunOne(S, o, t) == S.status[t] \in Waiting /\ ~ShouldWait(S, o, t)

(* A waiting thread can run: what it waits for is available to it. *)
ReadyToRun(S, o, t) ==
    /\ ~ShouldWait(S, o, t)
    /\ S.status[t] = "WaitSynchAll" =>
         \A p \in Elements(S.wait_objects[t]) : ~ShouldWait(S, p, t)

(* Faulty variant: only the first waiter is looked at. *)
GetFirstReadyThread(S, o) ==
    LET list == S.waiting_threads[o]
    IN  IF list # << >> /\ ReadyToRun(S, o, list[1]) THEN list[1] ELSE None

(* WaitObject::GetHighestPriorityReadyThread: the first of the best, or     *)
(* None.                                                                    *)
GetHighestPriorityReadyThread(S, o) ==
    LET list == S.waiting_threads[o]
        prio(i) == S.current_priority[list[i]]
        ready == {i \in 1 .. Len(list) : ReadyToRun(S, o, list[i])}
        best == {i \in ready : \A j \in ready : prio(i) <= prio(j)}
    IN  IF ready = {} THEN None ELSE list[Min(best)]

(* What a thread woken by o acquires. *)
Wanted(S, o, t) == IF S.status[t] = "WaitSynchAll" THEN S.wait_objects[t] ELSE <<o>>

(* SVC_SyncCallback with ThreadWakeupReason::Signal, where one is set.      *)
(* `granted' records what the thread acquired.                              *)
TellSuccess(S, t, objects) ==
    IF t \in S.wakeup_callback
    THEN [S EXCEPT !.result[t] = "Success", !.granted[t] = Elements(objects)]
    ELSE S

(* The body of the loop in WaitObject::WakeupAllWaitingThreads. *)
WakeThread(S, o, t) ==
    LET acquired == AcquireAll(S, Wanted(S, o, t), t)
        told == TellSuccess(acquired, t, Wanted(S, o, t))
    IN  ResumeFromWait(LeaveWaitObjects(told, t), t)

(* One turn of that loop; the last ones find no thread that is ready. *)
WakeTurn(S, o) ==
    LET ok == Claim(S, \A w \in Elements(S.waiting_threads[o]) : S.status[w] \in Waiting,
                    "Inconsistent thread statuses in waiting_threads")
        t == GetHighestPriorityReadyThread(S, o)
    IN  IF ok.failed = {} /\ t # None THEN WakeThread(ok, o, t) ELSE ok

(* A thread that is woken leaves the list, so there are no more turns than  *)
(* the list has threads.                                                    *)
WakeAll(S, o) ==
    LET turns == Len(S.waiting_threads[o])
        woken[i \in 0 .. turns] == IF i = 0 THEN S ELSE WakeTurn(woken[i - 1], o)
    IN  woken[turns]

(* WaitObject::WakeupAllWaitingThreads; Event and Timer override it to      *)
(* lower a Pulse again.                                                     *)
WakeupAllWaitingThreads(S, o) ==
    IF o \in Resettable /\ ResetType[o] = "Pulse"
    THEN [WakeAll(S, o) EXCEPT !.signaled = @ \ {o}]
    ELSE WakeAll(S, o)

-----------------------------------------------------------------------------
(* One turn of ReleaseThreadMutexes. *)
AbandonMutex(S, m) ==
    WakeupAllWaitingThreads([S EXCEPT !.lock_count[m] = 0, !.holding_thread[m] = None], m)

(* ReleaseThreadMutexes: one mutex at a time, in address order. *)
ReleaseThreadMutexes(S, t) ==
    LET order == Kept(MutexOrder, S.held_mutexes[t])
        released[i \in 0 .. Len(order)] ==
            IF i = 0 THEN S ELSE AbandonMutex(released[i - 1], order[i])
    IN  [released[Len(order)] EXCEPT !.held_mutexes[t] = {}]

(* The first lines of Thread::Stop. *)
MarkDead(S, t) == [S EXCEPT !.wakeup_event = @ \ {t}, !.status[t] = "Dead"]

(* Faulty variant: the mutexes of a stopped thread stay locked. *)
StopKeepingMutexes(S, t) == LeaveWaitObjects(WakeupAllWaitingThreads(MarkDead(S, t), t), t)

(* Faulty variant: a stopped thread stays in the lists it was waiting in. *)
StopKeepingWaits(S, t) == ReleaseThreadMutexes(WakeupAllWaitingThreads(MarkDead(S, t), t), t)

(* Thread::Stop.  The ready queue is ThreadManager's part; TLS slots and    *)
(* resource limits are left out.                                            *)
Stop(S, t) ==
    ReleaseThreadMutexes(LeaveWaitObjects(WakeupAllWaitingThreads(MarkDead(S, t), t), t), t)

StopAll(S, threads) ==
    LET stopped[i \in 0 .. Len(threads)] ==
            IF i = 0 THEN S ELSE Stop(stopped[i - 1], threads[i])
    IN  stopped[Len(threads)]

(* The threads of process p on core c that TerminateProcessThreads stops:   *)
(* those that are not current, in list order, and then the current one.     *)
Victims(S, p, c) ==
    LET live == {t \in Threads : ProcessOf[t] = p /\ CoreOf[t] = c /\ S.status[t] # "Dead"}
        current == {t \in live : S.status[t] = "Running"}
    IN  Kept(ThreadList, live \ current) \o Kept(ThreadList, current)

(* KernelSystem::TerminateProcess: one core after the other. *)
TerminateProcess(S, p) ==
    LET terminated[c \in 0 .. NumCores] ==
            IF c = 0 THEN S ELSE StopAll(terminated[c - 1], Victims(S, p, c - 1))
    IN  terminated[NumCores]

(* Event::Signal, and the first half of Timer::Signal. *)
Raise(S, o) == WakeupAllWaitingThreads([S EXCEPT !.signaled = @ \cup {o}], o)

(* Timer::Signal: wake the waiters, then reload the interval. *)
TimerSignal(S, o) ==
    IF o \in S.interval THEN [Raise(S, o) EXCEPT !.scheduled = @ \cup {o}] ELSE Raise(S, o)

-----------------------------------------------------------------------------
Running(t) == kernel.failed = {} /\ kernel.status[t] = "Running"

Init ==
    kernel = [status |-> [t \in Threads |-> "Ready"],
              nominal_priority |-> InitPriority, current_priority |-> InitPriority,
              held_mutexes |-> [t \in Threads |-> {}], pending_mutexes |-> [t \in Threads |-> {}],
              wait_objects |-> [t \in Threads |-> << >>],
              wakeup_callback |-> {}, wakeup_event |-> {}, timed |-> {},
              result |-> [t \in Threads |-> "none"], granted |-> [t \in Threads |-> {}],
              waiting_threads |-> [o \in Objects |-> << >>],
              lock_count |-> [m \in Mutexes |-> 0], holding_thread |-> [m \in Mutexes |-> None],
              priority |-> [m \in Mutexes |-> ThreadPrioLowest],
              available_count |-> [s \in Semaphores |-> 0],
              signaled |-> {}, scheduled |-> {}, interval |-> {},
              failed |-> {}]

(* for (auto& object : objects) object->AddWaitingThread(thread); *)
AddToAll(S, objects, t) ==
    LET listed[i \in 0 .. Len(objects)] ==
            IF i = 0 THEN S ELSE AddWaitingThread(listed[i - 1], objects[i], t)
    IN  listed[Len(objects)]

(* The thread t suspends: SVC_SyncCallback installed, and a wakeup event    *)
(* when the call has a timeout.  `timed' records whether it has.            *)
Suspend(S, t, timed) ==
    [S EXCEPT !.wakeup_callback = @ \cup {t},
              !.timed = IF timed THEN @ \cup {t} ELSE @ \ {t},
              !.wakeup_event = IF timed THEN @ \cup {t} ELSE @]

(* A mutex t holds already is locked again only within the model's bound. *)
WithinBound(t, objects) ==
    \A o \in Elements(objects) \cap Mutexes :
        kernel.holding_thread[o] = t => kernel.lock_count[o] < MaxLock

(* svcWaitSynchronization1.  With nano_seconds = 0 a call that would wait   *)
(* returns Timeout and changes nothing.                                     *)
WaitSynchronization1(t, o, timed) ==
    /\ Running(t)
    /\ WithinBound(t, <<o>>)
    /\ IF ShouldWait(kernel, o, t)
       THEN LET listed == AddWaitingThread([kernel EXCEPT !.wait_objects[t] = <<o>>], o, t)
            IN  kernel' = Suspend([listed EXCEPT !.status[t] = "WaitSynchAny"], t, timed)
       ELSE kernel' = Acquire(kernel, o, t)

(* svcWaitSynchronizationN that has to wait. *)
SuspendN(t, objects, status, timed) ==
    LET listed == AddToAll([kernel EXCEPT !.status[t] = status], objects, t)
    IN  kernel' = Suspend([listed EXCEPT !.wait_objects[t] = objects], t, timed)

(* svcWaitSynchronizationN with wait_all. *)
WaitSynchronizationAll(t, objects, timed) ==
    /\ Running(t)
    /\ WithinBound(t, objects)
    /\ IF \A o \in Elements(objects) : ~ShouldWait(kernel, o, t)
       THEN kernel' = AcquireAll(kernel, objects, t)
       ELSE SuspendN(t, objects, "WaitSynchAll", timed)

(* svcWaitSynchronizationN without wait_all: the first available object. *)
WaitSynchronizationAny(t, objects, timed) ==
    LET available == {i \in 1 .. Len(objects) : ~ShouldWait(kernel, objects[i], t)}
    IN  /\ Running(t)
        /\ WithinBound(t, objects)
        /\ IF available # {}
           THEN kernel' = Acquire(kernel, objects[Min(available)], t)
           ELSE SuspendN(t, objects, "WaitSynchAny", timed)

(* svcReleaseMutex, Mutex::Release.  A thread that does not hold the mutex  *)
(* gets WrongLockingThread and changes nothing.                             *)
ReleaseMutex(t, m) ==
    /\ Running(t)
    /\ kernel.holding_thread[m] = t
    /\ kernel.lock_count[m] > 0
    /\ LET dec == [kernel EXCEPT !.lock_count[m] = @ - 1]
           freed == UpdatePriority([dec EXCEPT !.held_mutexes[t] = @ \ {m}], t)
       IN  kernel' = IF dec.lock_count[m] > 0
                     THEN dec
                     ELSE WakeupAllWaitingThreads([freed EXCEPT !.holding_thread[m] = None], m)

(* svcReleaseSemaphore, Semaphore::Release. *)
ReleaseSemaphore(t, s, release_count) ==
    /\ Running(t)
    /\ MaxCount[s] >= release_count + kernel.available_count[s]
    /\ kernel' = WakeupAllWaitingThreads(
                     [kernel EXCEPT !.available_count[s] = @ + release_count], s)

(* svcSignalEvent, Event::Signal; HLE services call it too. *)
SignalEvent(t, e) == Running(t) /\ kernel' = Raise(kernel, e)

(* svcClearEvent and svcClearTimer. *)
Clear(t, o) == Running(t) /\ kernel' = [kernel EXCEPT !.signaled = @ \ {o}]

(* svcSetTimer, Timer::Set: a pending expiry is cancelled first. *)
SetTimer(t, o, initial, interval) ==
    /\ Running(t)
    /\ LET set == [kernel EXCEPT !.interval = IF interval THEN @ \cup {o} ELSE @ \ {o},
                                 !.scheduled = IF initial THEN @ \cup {o} ELSE @ \ {o}]
       IN  kernel' = IF initial THEN set ELSE TimerSignal(set, o)

(* svcCancelTimer. *)
CancelTimer(t, o) == Running(t) /\ kernel' = [kernel EXCEPT !.scheduled = @ \ {o}]

(* TimerManager::TimerCallback: the scheduled expiry is due. *)
TimerCallback(o) ==
    /\ kernel.failed = {}
    /\ o \in kernel.scheduled
    /\ kernel' = TimerSignal([kernel EXCEPT !.scheduled = @ \ {o}], o)

(* for (auto& mutex : pending_mutexes) mutex->UpdatePriority(); *)
UpdatePending(S, t) ==
    LET pending == Kept(MutexOrder, S.pending_mutexes[t])
        updated[i \in 0 .. Len(pending)] ==
            IF i = 0 THEN S ELSE MutexUpdatePriority(updated[i - 1], pending[i])
    IN  updated[Len(pending)]

(* svcSetThreadPriority: the thread, then the mutexes it waits for. *)
SetThreadPriority(t, target, priority) ==
    /\ Running(t)
    /\ LET set == [kernel EXCEPT !.nominal_priority[target] = priority,
                                 !.current_priority[target] = priority]
       IN  kernel' = UpdatePending(UpdatePriority(set, target), target)

(* svcSleepThread with a positive time. *)
SleepThread(t) ==
    /\ Running(t)
    /\ kernel' = [kernel EXCEPT !.status[t] = "WaitSleep", !.wakeup_event = @ \cup {t}]

(* svcExitThread. *)
ExitThread(t) == Running(t) /\ kernel' = Stop(kernel, t)

(* svcExitProcess and svcTerminateProcess of a process that still runs. *)
ExitProcess(t, p) == Running(t) /\ kernel' = TerminateProcess(kernel, p)

(* SVC_SyncCallback with ThreadWakeupReason::Timeout, where one is set. *)
TellTimeout(S, t) == IF t \in S.wakeup_callback THEN [S EXCEPT !.result[t] = "Timeout"] ELSE S

(* Faulty variant: a late timeout is not ignored by a thread already woken. *)
ThreadWakeupCallbackLate(t) ==
    /\ kernel.failed = {}
    /\ t \in kernel.wakeup_event
    /\ LET due == [kernel EXCEPT !.wakeup_event = @ \ {t}, !.result[t] = "Timeout"]
       IN  kernel' = ResumeFromWait(LeaveWaitObjects(due, t), t)

(* ThreadManager::ThreadWakeupCallback: the wakeup event of t is due. *)
ThreadWakeupCallback(t) ==
    /\ kernel.failed = {}
    /\ t \in kernel.wakeup_event
    /\ LET due == [kernel EXCEPT !.wakeup_event = @ \ {t}]
           left == IF kernel.status[t] \in Waiting
                   THEN LeaveWaitObjects(TellTimeout(due, t), t)
                   ELSE due
       IN  kernel' = ResumeFromWait(left, t)

(* ThreadManager::SwitchContext to t.  Its wakeup event is unscheduled, and *)
(* LoadContext hands the result of the last wait to the program.            *)
SwitchIn(t) ==
    /\ kernel.failed = {}
    /\ kernel.status[t] = "Ready"
    /\ \A u \in Threads : CoreOf[u] = CoreOf[t] => kernel.status[u] # "Running"
    /\ kernel' = [kernel EXCEPT !.status[t] = "Running", !.wakeup_event = @ \ {t},
                                !.timed = @ \ {t}, !.result[t] = "none", !.granted[t] = {}]

(* ThreadManager::SwitchContext away from a thread that did not block. *)
SwitchOut(t) == Running(t) /\ kernel' = [kernel EXCEPT !.status[t] = "Ready"]

Syscall(t) ==
    \/ \E o \in WaitTargets, timed \in BOOLEAN :
          (o = t => SelfWait) /\ WaitSynchronization1(t, o, timed)
    \/ \E l \in HandleLists, timed \in BOOLEAN :
          (t \in Elements(l) => SelfWait) /\ WaitSynchronizationAll(t, l, timed)
    \/ \E l \in HandleLists, timed \in BOOLEAN :
          (t \in Elements(l) => SelfWait) /\ WaitSynchronizationAny(t, l, timed)
    \/ \E m \in Mutexes : ReleaseMutex(t, m)
    \/ \E s \in Semaphores : \E n \in 1 .. MaxCount[s] : ReleaseSemaphore(t, s, n)
    \/ \E e \in Events : SignalEvent(t, e)
    \/ \E o \in Resettable : Clear(t, o)
    \/ \E o \in Timers, initial, interval \in BOOLEAN : SetTimer(t, o, initial, interval)
    \/ \E o \in Timers : CancelTimer(t, o)
    \/ \E u \in Threads, p \in Priorities : SetThreadPriority(t, u, p)
    \/ SleepThread(t)
    \/ ExitThread(t)
    \/ \E u \in Threads : ExitProcess(t, ProcessOf[u])

Next ==
    \/ \E t \in Threads : Syscall(t)
    \/ \E t \in Threads : ThreadWakeupCallback(t)
    \/ \E o \in Timers : TimerCallback(o)
    \/ \E t \in Threads : SwitchIn(t)
    \/ \E t \in Threads : SwitchOut(t)

Spec == Init /\ [][Next]_vars
-----------------------------------------------------------------------------
(* The type invariant. *)
TypeOK ==
    /\ kernel \in KState
    /\ \A s \in Semaphores : kernel.available_count[s] <= MaxCount[s]

(* No lost wakeup: between two steps no thread sleeps on objects it could   *)
(* have.  A thread waiting for any object finds them all unavailable, a     *)
(* thread waiting for all finds one unavailable, whichever of Release,      *)
(* Signal, an expiry, Stop or TerminateProcess made the others available    *)
(* and whoever was served first.                                            *)
NoLostWakeup ==
    \A t \in Threads :
        LET wanted == Elements(kernel.wait_objects[t])
        IN  /\ kernel.status[t] = "WaitSynchAny" => \A o \in wanted : ShouldWait(kernel, o, t)
            /\ kernel.status[t] = "WaitSynchAll" => \E o \in wanted : ShouldWait(kernel, o, t)

(* A thread is in the waiting list of an object, once, exactly when the     *)
(* object is one of those it waits for, and it waits for objects exactly    *)
(* while its status says so: RemoveWaitingThread leaves no stale entry      *)
(* behind on a wakeup, a timeout or a Stop.                                 *)
WaitListsMatch ==
    /\ \A t \in Threads, o \in Objects :
          t \in Elements(kernel.waiting_threads[o]) <=> o \in Elements(kernel.wait_objects[t])
    /\ \A o \in Objects : IsInjective(kernel.waiting_threads[o])
    /\ \A t \in Threads :
          /\ kernel.wait_objects[t] # << >> <=> kernel.status[t] \in Waiting
          /\ kernel.pending_mutexes[t] = Elements(kernel.wait_objects[t]) \cap Mutexes

(* A mutex is locked exactly while one live thread holds it, and that       *)
(* thread's held_mutexes says so: no mutex outlives its holder, neither     *)
(* when the holder exits nor when its process is terminated.                *)
MutexOwnership ==
    \A m \in Mutexes :
        /\ kernel.lock_count[m] > 0 <=> kernel.holding_thread[m] # None
        /\ \A t \in Threads :
              /\ kernel.holding_thread[m] = t <=> m \in kernel.held_mutexes[t]
              /\ kernel.holding_thread[m] = t => kernel.status[t] # "Dead"

(* A thread that waits for any of its objects and holds no mutex: nothing   *)
(* but its own nominal priority, of which its mutexes are told, changes     *)
(* what it has to lend.                                                     *)
Simple(w) == kernel.status[w] = "WaitSynchAny" /\ kernel.held_mutexes[w] = {}

(* What a mutex may add to the priority of its holder: the priority of the  *)
(* best of its waiters now, wherever one step of inheritance is all there   *)
(* is to it.  Nobody may be waiting: then it is what the mutex recorded     *)
(* last, the priority its holder had when it took it, boosts included       *)
(* (Mutex::Acquire), or none once a waiter has come and gone.               *)
Owed(m) ==
    LET W == Elements(kernel.waiting_threads[m])
    IN  IF W # {} /\ \A w \in W : Simple(w) THEN BestWaiter(kernel, m) ELSE kernel.priority[m]

(* The priority of a live thread is the best of its nominal priority and    *)
(* what the mutexes it holds owe it, at every moment and not just after the *)
(* calls that recompute it: a waiter that leaves by a timeout, a wakeup     *)
(* through another object or a Stop takes its boost with it while others    *)
(* wait on, a waiter whose priority changes lends the new one, and a thread *)
(* that holds nothing is at its nominal priority.  It does not say that a   *)
(* boost ends with its cause: a thread boosted through one mutex that takes *)
(* a free one keeps the boost in that one after it has released the first   *)
(* (mutex.cpp:62).                                                          *)
PriorityExact ==
    \A t \in Threads :
        kernel.status[t] # "Dead" =>
            kernel.current_priority[t] =
                Min({kernel.nominal_priority[t]} \cup {Owed(m) : m \in kernel.held_mutexes[t]})

(* Inheritance in one step: a thread that holds a mutex runs at least at    *)
(* the priority of every thread that waits for any one of its objects, has  *)
(* no mutex itself and waits for this mutex, across timeouts, kills,        *)
(* releases and changes of priority on either side.                         *)
DirectInheritance ==
    \A m \in Mutexes, w \in Threads :
        (/\ w \in Elements(kernel.waiting_threads[m])
         /\ kernel.status[w] = "WaitSynchAny"
         /\ kernel.held_mutexes[w] = {})
        => kernel.current_priority[kernel.holding_thread[m]] <= kernel.current_priority[w]

(* "This prevents priority inversion via priority inheritance" (thread.h,   *)
(* on Thread::UpdatePriority): whoever holds a mutex runs at least at the   *)
(* priority of everyone who waits for it.                                   *)
NoPriorityInversion ==
    \A m \in Mutexes, w \in Threads :
        (w \in Elements(kernel.waiting_threads[m]) /\ kernel.holding_thread[m] # None)
        => kernel.current_priority[kernel.holding_thread[m]] <= kernel.current_priority[w]

(* The answer of a wait and what it acquired agree until the thread runs    *)
(* again: Timeout means nothing was acquired, Success means something was,  *)
(* and the mutexes among it are still the thread's.  A wakeup event that is *)
(* due between the signal and the switch must not turn the answer round.    *)
(* And a wait that was given no timeout has no wakeup event: the event of   *)
(* an earlier timed wait or sleep that was cut short never fires into it.   *)
ResultMatchesOwnership ==
    \A t \in Threads :
        /\ kernel.status[t] = "Ready" =>
              /\ kernel.result[t] = "Success" <=> kernel.granted[t] # {}
              /\ kernel.granted[t] \cap Mutexes \subseteq kernel.held_mutexes[t]
        /\ kernel.status[t] \in Waiting /\ t \in kernel.wakeup_event => t \in kernel.timed

(* None of the assertions on these paths fails: every Acquire finds the     *)
(* object available, waiting lists hold waiting threads only, and every     *)
(* thread that is resumed was asleep with its wait objects cleared.         *)
AssertionsHold == kernel.failed = {}

(* "object unavailable!" (the ASSERT in Event::Acquire and its siblings):   *)
(* whatever is acquired on behalf of a thread is available to it.           *)
AcquiresWhatIsAvailable == "object unavailable!" \notin kernel.failed

(* "The list of waiting threads must not contain threads that are not       *)
(* waiting to be awakened" (wait_object.cpp).                               *)
WaitingListsHoldWaiters == "Inconsistent thread statuses in waiting_threads" \notin kernel.failed
=============================================================================
