--------------------------- MODULE ThreadManager ---------------------------
(***************************************************************************)
(* The scheduler of one emulated core: Kernel::ThreadManager (thread.cpp)  *)
(* and its ready queue Common::ThreadQueueList (thread_queue_list.h).      *)
(*                                                                         *)
(* A ready queue is an array of deques, one per priority, and a chain of   *)
(* next_nonempty pointers through the priorities that were ever used.  The *)
(* chain is built by prepare/link only; push_front and push_back assume    *)
(* that the priority is on it, and pop_first and pop_first_better see only *)
(* what is on it.  Pointers are indices, with -1 for UnlinkedTag and -2    *)
(* for nullptr as ToIndex writes them.                                     *)
(*                                                                         *)
(* What makes threads wait is outside this module: "Blocked" stands for    *)
(* WaitSynchAny, WaitSynchAll, WaitArb, WaitIPC and WaitHleEvent, and the  *)
(* objects that resume a blocked thread are free to do so at any time.     *)
(* The CPU limiter of core 1 is left out.                                  *)
(***************************************************************************)
EXTENDS Integers, Sequences

CONSTANTS
    Threads,
    None,        \* a null Thread pointer
    NumQueues    \* ThreadQueueList::NUM_QUEUES, ThreadPrioLowest + 1 in the code

ASSUME NumQueuesAssumption == NumQueues \in Nat \ {0}
ASSUME NoneAssumption == None \notin Threads

VARIABLES
    status, current_priority,
    can_schedule,     \* Thread::CanSchedule(): unschedule_mode = 0
    wakeup_event,     \* a ThreadWakeupEventType event is scheduled
    current_thread,
    queues,           \* Queue::data of each priority
    next_nonempty,    \* Queue::next_nonempty of each priority
    first,
    yielded           \* svcSleepThread asked for a yield since the last Reschedule

threadVars == <<status, current_priority, can_schedule, wakeup_event, current_thread>>
listVars == <<queues, next_nonempty, first>>
vars == <<status, current_priority, can_schedule, wakeup_event, current_thread,
          queues, next_nonempty, first, yielded>>

Priorities == 0 .. NumQueues - 1
UnlinkedTag == -1
Nullptr == -2

Statuses == {"Absent", "Ready", "Running", "Blocked", "WaitSleep", "Dead"}

-----------------------------------------------------------------------------
(* Common::ThreadQueueList *)

Linked(p) == next_nonempty[p] # UnlinkedTag

RangeOf(q) == {q[i] : i \in 1 .. Len(q)}

(* std::deque without t; a thread is in a queue at most once. *)
Without(q, t) ==
    IF t \in RangeOf(q)
    THEN LET i == CHOOSE k \in 1 .. Len(q) : q[k] = t
         IN  SubSeq(q, 1, i - 1) \o SubSeq(q, i + 1, Len(q))
    ELSE q

(* push_front, push_back and remove, on an array of deques. *)
PushFront(qs, p, t) == [qs EXCEPT ![p] = <<t>> \o @]
PushBack(qs, p, t) == [qs EXCEPT ![p] = Append(@, t)]
RemoveFrom(qs, p, t) == [qs EXCEPT ![p] = Without(@, t)]

(* link(p) after a lower priority i that is linked, with none in between. *)
LinkAfter(i, p) ==
    /\ Linked(i)
    /\ \A j \in i + 1 .. p - 1 : ~Linked(j)
    /\ next_nonempty' = [next_nonempty EXCEPT ![p] = next_nonempty[i], ![i] = p]
    /\ first' = first

(* link(p) when no lower priority is linked. *)
LinkFirst(p) ==
    /\ \A j \in 0 .. p - 1 : ~Linked(j)
    /\ next_nonempty' = [next_nonempty EXCEPT ![p] = first]
    /\ first' = p

(* Faulty variant: the new priority is always put at the head. *)
PrepareAtHead(p) ==
    \/ Linked(p) /\ UNCHANGED <<next_nonempty, first>>
    \/ /\ ~Linked(p)
       /\ next_nonempty' = [next_nonempty EXCEPT ![p] = first]
       /\ first' = p

(* Faulty variant: the priority is not linked. *)
PrepareNothing(p) == p \in Priorities /\ UNCHANGED <<next_nonempty, first>>

(* prepare(p) *)
Prepare(p) ==
    \/ Linked(p) /\ UNCHANGED <<next_nonempty, first>>
    \/ ~Linked(p) /\ \E i \in 0 .. p - 1 : LinkAfter(i, p)
    \/ ~Linked(p) /\ LinkFirst(p)

-----------------------------------------------------------------------------
(* Thread and ThreadManager *)

Init ==
    /\ status = [t \in Threads |-> "Absent"]
    /\ current_priority = [t \in Threads |-> NumQueues - 1]
    /\ can_schedule = [t \in Threads |-> TRUE]
    /\ wakeup_event = [t \in Threads |-> FALSE]
    /\ current_thread = None
    /\ queues = [p \in Priorities |-> << >>]
    /\ next_nonempty = [p \in Priorities |-> UnlinkedTag]
    /\ first = Nullptr
    /\ yielded = FALSE

(* KernelSystem::CreateThread with make_ready. *)
CreateThread(t, p) ==
    /\ status[t] = "Absent"
    /\ Prepare(p)
    /\ current_priority' = [current_priority EXCEPT ![t] = p]
    /\ queues' = PushBack(queues, p, t)
    /\ status' = [status EXCEPT ![t] = "Ready"]
    /\ UNCHANGED <<can_schedule, wakeup_event, current_thread, yielded>>

(* SetupMainThread with a delayed start: CreateThread without make_ready,   *)
(* then WaitSleep with a wakeup event.                                      *)
SetupMainThread(t, p) ==
    /\ status[t] = "Absent"
    /\ Prepare(p)
    /\ current_priority' = [current_priority EXCEPT ![t] = p]
    /\ status' = [status EXCEPT ![t] = "WaitSleep"]
    /\ wakeup_event' = [wakeup_event EXCEPT ![t] = TRUE]
    /\ UNCHANGED <<can_schedule, current_thread, queues, yielded>>

(* The current thread executes: only then can it call the kernel. *)
Executes(t) == current_thread = t /\ status[t] = "Running"

(* Faulty variant: -1 takes the timed path, where WakeAfterDelay returns    *)
(* without an event.                                                        *)
SleepThreadNoAlarm(t) ==
    /\ Executes(t)
    /\ status' = [status EXCEPT ![t] = "WaitSleep"]
    /\ \E ns \in {-1, 1} : wakeup_event' = [wakeup_event EXCEPT ![t] = @ \/ ns # -1]
    /\ UNCHANGED <<current_priority, can_schedule, current_thread, listVars, yielded>>

(* svcSleepThread of a time >= 0: WaitCurrentThread_Sleep, WakeAfterDelay.  *)
(* (Zero with nothing else ready returns at once.)                          *)
SleepThread(t) ==
    /\ Executes(t)
    /\ status' = [status EXCEPT ![t] = "WaitSleep"]
    /\ wakeup_event' = [wakeup_event EXCEPT ![t] = TRUE]
    /\ UNCHANGED <<current_priority, can_schedule, current_thread, listVars, yielded>>

(* svcSleepThread of a negative time: PrepareReschedule and nothing else. *)
Yield(t) ==
    /\ Executes(t)
    /\ yielded' = TRUE
    /\ UNCHANGED <<threadVars, listVars>>

(* A system call that makes the current thread wait, with or without a      *)
(* timeout.                                                                 *)
Block(t, timed) ==
    /\ Executes(t)
    /\ status' = [status EXCEPT ![t] = "Blocked"]
    /\ wakeup_event' = [wakeup_event EXCEPT ![t] = @ \/ timed]
    /\ UNCHANGED <<current_priority, can_schedule, current_thread, listVars, yielded>>

(* Thread::ResumeFromWait: a waiting thread becomes Ready, one that is      *)
(* Ready already stays as it is.                                            *)
ResumeFromWait(t) ==
    /\ IF status[t] \in {"Blocked", "WaitSleep"}
       THEN /\ queues' = PushBack(queues, current_priority[t], t)
            /\ status' = [status EXCEPT ![t] = "Ready"]
       ELSE UNCHANGED <<queues, status>>
    /\ UNCHANGED <<current_priority, can_schedule, current_thread, next_nonempty, first, yielded>>

(* An object a blocked thread waits for resumes it. *)
Signal(t) ==
    /\ status[t] \in {"Blocked", "Ready"}
    /\ ResumeFromWait(t)
    /\ UNCHANGED wakeup_event

(* ThreadManager::ThreadWakeupCallback: the wakeup event is due. *)
ThreadWakeupCallback(t) ==
    /\ wakeup_event[t]
    /\ wakeup_event' = [wakeup_event EXCEPT ![t] = FALSE]
    /\ ResumeFromWait(t)

(* Faulty variant: a Ready thread is left in the queue of its old priority. *)
SetPriorityInPlace(t, p) ==
    /\ status[t] # "Absent"
    /\ Prepare(p)
    /\ current_priority' = [current_priority EXCEPT ![t] = p]
    /\ UNCHANGED <<status, can_schedule, wakeup_event, current_thread, queues, yielded>>

(* Thread::SetPriority and Thread::BoostPriority. *)
SetPriority(t, p) ==
    /\ status[t] # "Absent"
    /\ Prepare(p)
    /\ queues' = IF status[t] = "Ready"
                 THEN PushBack(RemoveFrom(queues, current_priority[t], t), p, t)
                 ELSE queues
    /\ current_priority' = [current_priority EXCEPT ![t] = p]
    /\ UNCHANGED <<status, can_schedule, wakeup_event, current_thread, yielded>>

(* Thread::Stop, by the thread itself or with its process. *)
Stop(t) ==
    /\ status[t] \notin {"Absent", "Dead"}
    /\ wakeup_event' = [wakeup_event EXCEPT ![t] = FALSE]
    /\ queues' = IF status[t] = "Ready"
                 THEN RemoveFrom(queues, current_priority[t], t)
                 ELSE queues
    /\ status' = [status EXCEPT ![t] = "Dead"]
    /\ UNCHANGED <<current_priority, can_schedule, current_thread, next_nonempty, first, yielded>>

(* Thread::SetUnscheduleMode and ClearUnscheduleMode (debugger, plugins). *)
ChangeUnscheduleMode(t) ==
    /\ status[t] \notin {"Absent", "Dead"}
    /\ can_schedule' = [can_schedule EXCEPT ![t] = ~@]
    /\ UNCHANGED <<status, current_priority, wakeup_event, current_thread, listVars, yielded>>

-----------------------------------------------------------------------------
(* ThreadManager::Reschedule = PopNextReadyThread and SwitchContext *)

CurrentStays ==
    /\ current_thread # None
    /\ status[current_thread] = "Running"
    /\ can_schedule[current_thread]

(* "We have to do better than the current thread": pop_first_better stops   *)
(* at its priority, pop_first goes to the end.                              *)
Limit == IF CurrentStays THEN current_priority[current_thread] ELSE NumQueues

(* PopNextReadyThread finds t: the first thread on the chain below Limit    *)
(* that may be scheduled.  The ones skipped before it are pushed back in    *)
(* their old places.  ChainSorted makes a walk along the chain a walk in    *)
(* the order of priorities.                                                 *)
IsNext(t) ==
    \E p \in Priorities :
        /\ p < Limit /\ Linked(p)
        /\ \E i \in 1 .. Len(queues[p]) :
              /\ queues[p][i] = t /\ can_schedule[t]
              /\ \A j \in 1 .. i - 1 : ~can_schedule[queues[p][j]]
        /\ \A q \in 0 .. p - 1 : Linked(q) =>
              \A j \in 1 .. Len(queues[q]) : ~can_schedule[queues[q][j]]

NoNext ==
    \A q \in Priorities : (q < Limit /\ Linked(q)) =>
        \A j \in 1 .. Len(queues[q]) : ~can_schedule[queues[q][j]]

(* SwitchContext, previous thread: one that still runs goes to the front of *)
(* its queue.                                                               *)
PreviousRuns == current_thread # None /\ status[current_thread] = "Running"
PutBackPrevious(qs) ==
    IF PreviousRuns THEN PushFront(qs, current_priority[current_thread], current_thread) ELSE qs

(* Faulty variant: the thread that loses the CPU keeps its status. *)
PreviousUnchanged(st) == st

(* The thread that loses the CPU while it still runs becomes Ready. *)
PreviousReady(st) ==
    IF PreviousRuns THEN [st EXCEPT ![current_thread] = "Ready"] ELSE st

(* Reschedule to the thread t, which is in the queue of its priority.  A    *)
(* thread found in the queue that is not Ready is queued again and the      *)
(* switch is given up.                                                      *)
SwitchTo(t) ==
    /\ IsNext(t)
    /\ LET popped == RemoveFrom(queues, current_priority[t], t)
       IN  IF status[t] = "Ready"
           THEN /\ queues' = PutBackPrevious(popped)
                /\ status' = [PreviousReady(status) EXCEPT ![t] = "Running"]
                /\ current_thread' = t
                /\ wakeup_event' = [wakeup_event EXCEPT ![t] = FALSE]
           ELSE /\ queues' = PushBack(PutBackPrevious(popped), current_priority[t], t)
                /\ status' = PreviousReady(status)
                /\ UNCHANGED <<current_thread, wakeup_event>>
    /\ yielded' = FALSE
    /\ UNCHANGED <<current_priority, can_schedule, next_nonempty, first>>

(* Reschedule that keeps the current thread: it is pushed to the front of   *)
(* its queue and taken out again.                                           *)
KeepCurrent ==
    /\ CurrentStays
    /\ NoNext
    /\ wakeup_event' = [wakeup_event EXCEPT ![current_thread] = FALSE]
    /\ yielded' = FALSE
    /\ UNCHANGED <<status, current_priority, can_schedule, current_thread, listVars>>

(* Reschedule to the idle state. *)
GoIdle ==
    /\ ~CurrentStays
    /\ NoNext
    /\ queues' = PutBackPrevious(queues)
    /\ status' = PreviousReady(status)
    /\ current_thread' = None
    /\ yielded' = FALSE
    /\ UNCHANGED <<current_priority, can_schedule, wakeup_event, next_nonempty, first>>

Reschedule == KeepCurrent \/ GoIdle \/ \E t \in Threads : SwitchTo(t)

Next ==
    \/ \E t \in Threads, p \in Priorities : CreateThread(t, p)
    \/ \E t \in Threads, p \in Priorities : SetupMainThread(t, p)
    \/ \E t \in Threads : SleepThread(t)
    \/ \E t \in Threads : Yield(t)
    \/ \E t \in Threads, timed \in BOOLEAN : Block(t, timed)
    \/ \E t \in Threads : Signal(t)
    \/ \E t \in Threads : ThreadWakeupCallback(t)
    \/ \E t \in Threads, p \in Priorities : SetPriority(t, p)
    \/ \E t \in Threads : Stop(t)
    \/ \E t \in Threads : ChangeUnscheduleMode(t)
    \/ Reschedule

Spec == Init /\ [][Next]_vars

(* Every slice of System::RunLoop reschedules every core and advances its   *)
(* timer.                                                                   *)
Fairness ==
    /\ WF_vars(Reschedule)
    /\ \A t \in Threads : WF_vars(ThreadWakeupCallback(t))

FairSpec == Spec /\ Fairness
-----------------------------------------------------------------------------
(* The type invariant. *)
TypeOK ==
    /\ status \in [Threads -> Statuses]
    /\ current_priority \in [Threads -> Priorities]
    /\ can_schedule \in [Threads -> BOOLEAN]
    /\ wakeup_event \in [Threads -> BOOLEAN]
    /\ current_thread \in Threads \cup {None}
    /\ queues \in [Priorities -> Seq(Threads)]
    /\ next_nonempty \in [Priorities -> Priorities \cup {UnlinkedTag, Nullptr}]
    /\ first \in Priorities \cup {Nullptr}
    /\ yielded \in BOOLEAN

(* The queue of a priority holds exactly the Ready threads of that          *)
(* priority, each once: no wakeup, change of priority, kill or preemption   *)
(* loses a thread, queues it twice or leaves it under an old priority.  So  *)
(* SwitchContext never meets the thread whose status "changed during        *)
(* scheduling" that it re-enqueues.                                         *)
ReadyQueueExact ==
    \A p \in Priorities :
        /\ \A i, j \in 1 .. Len(queues[p]) : queues[p][i] = queues[p][j] => i = j
        /\ RangeOf(queues[p]) = {t \in Threads : status[t] = "Ready" /\ current_priority[t] = p}

(* The chain starts at the best linked priority and each link points to the *)
(* next better one that is linked, the last to nullptr.                     *)
ChainOrdered ==
    /\ \A p \in Priorities : Linked(p) => first # Nullptr /\ first <= p
    /\ first # Nullptr => Linked(first)
    /\ \A p \in Priorities : Linked(p) =>
          /\ next_nonempty[p] # Nullptr => next_nonempty[p] > p /\ Linked(next_nonempty[p])
          /\ \A q \in Priorities :
                (q > p /\ Linked(q)) => next_nonempty[p] # Nullptr /\ next_nonempty[p] <= q

(* Every thread that exists has its priority on the chain, in order: a      *)
(* Ready thread can be reached, and pop_first_better, which stops only at   *)
(* the address of the current thread's priority, meets it before the end of *)
(* the chain and never follows nullptr.                                     *)
ChainSorted ==
    /\ ChainOrdered
    /\ \A t \in Threads : status[t] # "Absent" => Linked(current_priority[t])

(* A sleeping thread has a wakeup event that will end its sleep, and an     *)
(* event is pending only for a thread that waits or was just woken, so it   *)
(* never fires into a running or a dead thread (the DEBUG_ASSERTs of        *)
(* ResumeFromWait).                                                         *)
AlarmsMatchWaits ==
    \A t \in Threads :
        /\ status[t] = "WaitSleep" => wakeup_event[t]
        /\ wakeup_event[t] => status[t] \in {"Blocked", "WaitSleep", "Ready"}

(* Only the current thread runs. *)
OneRuns == \A t \in Threads : status[t] = "Running" => current_thread = t

(* The core runs something no better than t, or nothing. *)
Overtaken(t) ==
    \/ current_thread = None
    \/ ~can_schedule[current_thread]
    \/ current_priority[t] < current_priority[current_thread]

(* A Ready thread that may be scheduled never waits for ever behind an idle *)
(* core, an unschedulable thread or a thread of worse priority.             *)
NoStarvationBehindWorse ==
    \A t \in Threads : []<>~(status[t] = "Ready" /\ can_schedule[t] /\ Overtaken(t))

(* "ThreadManager::SwitchContext() already re-queues a thread that's still  *)
(* Running when it loses the CPU ..., which is exactly yield semantics"     *)
(* (svc.cpp, SleepThread): after a yield, a Ready thread of the same        *)
(* priority gets the CPU.                                                   *)
YieldGivesTurn ==
    [][(/\ Reschedule /\ yielded /\ CurrentStays
        /\ \E t \in Threads : /\ status[t] = "Ready" /\ can_schedule[t]
                               /\ current_priority[t] = current_priority[current_thread])
       => current_thread' # current_thread]_vars
=============================================================================
