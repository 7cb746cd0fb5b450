------------------------ MODULE ThreadManagerProofs ------------------------
(***************************************************************************)
(* Proofs about ThreadManager, for any set of threads and any number of    *)
(* priorities.  The inductive invariant is the conjunction of TypeOK,      *)
(* ReadyQueueExact, ChainSorted, AlarmsMatchWaits and OneRuns: Reschedule  *)
(* keeps OneRuns and AlarmsMatchWaits only because a thread found in a     *)
(* queue is Ready (ReadyQueueExact), and keeps ReadyQueueExact only        *)
(* because a thread that runs is in no queue.                              *)
(***************************************************************************)
EXTENDS ThreadManager, QueueLemmas

-----------------------------------------------------------------------------
(* The chain of priorities *)

ChainType ==
    /\ next_nonempty \in [Priorities -> Priorities \cup {UnlinkedTag, Nullptr}]
    /\ first \in Priorities \cup {Nullptr}

(* prepare keeps the chain well typed, leaves the priority on it and takes  *)
(* none off.                                                                *)
LEMMA PrepareLinks ==
    ASSUME ChainType, NEW p \in Priorities, Prepare(p)
    PROVE  /\ ChainType'
           /\ Linked(p)'
           /\ \A q \in Priorities : Linked(q) => Linked(q)'
  BY NumQueuesAssumption
     DEF ChainType, Prepare, LinkAfter, LinkFirst, Linked, Priorities, UnlinkedTag, Nullptr

(* prepare keeps the chain in the order of priorities.                      *)
LEMMA PrepareKeepsOrder ==
    ASSUME ChainType, ChainOrdered, NEW p \in Priorities, Prepare(p)
    PROVE  ChainOrdered'
  <1> USE NumQueuesAssumption DEF ChainType, Priorities, UnlinkedTag, Nullptr
  <1>1. CASE UNCHANGED <<next_nonempty, first>>
    BY <1>1 DEF ChainOrdered, Linked
  <1>2. ASSUME NEW i \in 0 .. p - 1, ~Linked(p), LinkAfter(i, p)
        PROVE  ChainOrdered'
    <2>1. /\ i \in Priorities /\ i < p /\ Linked(i)
          /\ \A j \in Priorities : i < j /\ j <= p => ~Linked(j)
      BY <1>2 DEF LinkAfter
    <2>2. /\ first' = first
          /\ next_nonempty'[p] = next_nonempty[i]
          /\ next_nonempty'[i] = p
          /\ \A q \in Priorities : q # p /\ q # i => next_nonempty'[q] = next_nonempty[q]
      BY <1>2, <2>1 DEF LinkAfter
    <2>3. \A q \in Priorities : Linked(q)' <=> (Linked(q) \/ q = p)
      BY <2>1, <2>2 DEF Linked
    <2>4. (\A q \in Priorities : Linked(q) => first # Nullptr /\ first <= q)'
      BY <2>1, <2>2, <2>3 DEF ChainOrdered
    <2>5. (first # Nullptr => Linked(first))'
      BY <2>2, <2>3 DEF ChainOrdered
    <2>6. ASSUME NEW q \in Priorities, Linked(q)'
          PROVE  (next_nonempty[q] # Nullptr
                     => next_nonempty[q] > q /\ Linked(next_nonempty[q]))'
      <3>1. CASE q = i
        BY <2>1, <2>2, <2>3, <3>1
      <3>2. CASE q = p
        BY <2>1, <2>2, <2>3, <3>2 DEF ChainOrdered, Linked
      <3>3. CASE q # i /\ q # p
        BY <2>2, <2>3, <2>6, <3>3 DEF ChainOrdered, Linked
      <3> QED BY <3>1, <3>2, <3>3
    <2>7. ASSUME NEW q \in Priorities, Linked(q)', NEW r \in Priorities, r > q, Linked(r)'
          PROVE  next_nonempty'[q] # Nullptr /\ next_nonempty'[q] <= r
      <3>1. CASE q = i
        BY <2>1, <2>2, <2>3, <2>7, <3>1
      <3>2. CASE q = p
        BY <2>1, <2>2, <2>3, <2>7, <3>2 DEF ChainOrdered
      <3>3. CASE q # i /\ q # p
        <4>1. CASE r # p
          BY <2>2, <2>3, <2>7, <3>3, <4>1 DEF ChainOrdered
        <4>2. CASE r = p
          BY <2>1, <2>2, <2>3, <2>7, <3>3, <4>2 DEF ChainOrdered
        <4> QED BY <4>1, <4>2
      <3> QED BY <3>1, <3>2, <3>3
    <2> QED BY <2>4, <2>5, <2>6, <2>7 DEF ChainOrdered
  <1>3. ASSUME ~Linked(p), LinkFirst(p)
        PROVE  ChainOrdered'
    <2>1. \A j \in Priorities : j <= p => ~Linked(j)
      BY <1>3 DEF LinkFirst
    <2>2. /\ first' = p
          /\ next_nonempty'[p] = first
          /\ \A q \in Priorities : q # p => next_nonempty'[q] = next_nonempty[q]
      BY <1>3 DEF LinkFirst
    <2>3. \A q \in Priorities : Linked(q)' <=> (Linked(q) \/ q = p)
      BY <2>2 DEF Linked
    <2>4. (\A q \in Priorities : Linked(q) => first # Nullptr /\ first <= q)'
      BY <2>1, <2>2, <2>3
    <2>5. (first # Nullptr => Linked(first))'
      BY <2>2, <2>3
    <2>6. ASSUME NEW q \in Priorities, Linked(q)'
          PROVE  (next_nonempty[q] # Nullptr
                     => next_nonempty[q] > q /\ Linked(next_nonempty[q]))'
      <3>1. CASE q = p
        BY <2>1, <2>2, <2>3, <3>1 DEF ChainOrdered
      <3>2. CASE q # p
        BY <2>2, <2>3, <2>6, <3>2 DEF ChainOrdered, Linked
      <3> QED BY <3>1, <3>2
    <2>7. ASSUME NEW q \in Priorities, Linked(q)', NEW r \in Priorities, r > q, Linked(r)'
          PROVE  next_nonempty'[q] # Nullptr /\ next_nonempty'[q] <= r
      <3>1. CASE q = p
        BY <2>1, <2>2, <2>3, <2>7, <3>1 DEF ChainOrdered
      <3>2. CASE q # p
        BY <2>1, <2>2, <2>3, <2>7, <3>2 DEF ChainOrdered
      <3> QED BY <3>1, <3>2
    <2> QED BY <2>4, <2>5, <2>6, <2>7 DEF ChainOrdered
  <1> QED BY <1>1, <1>2, <1>3 DEF Prepare

-----------------------------------------------------------------------------
(* The array of queues *)

(* The queue of each priority p lists the threads R[p], each once. *)
HoldsAll(qs, R) ==
    /\ qs \in [Priorities -> Seq(Threads)]
    /\ \A p \in Priorities : Holds(qs[p], Threads, R[p])

ReadySets == [p \in Priorities |-> {t \in Threads : status[t] = "Ready" /\ current_priority[t] = p}]

(* ReadyQueueExact in the form the lemmas about queues speak of. *)
LEMMA ExactIsHoldsAll ==
    (queues \in [Priorities -> Seq(Threads)] /\ ReadyQueueExact) <=> HoldsAll(queues, ReadySets)
  BY DEF HoldsAll, Holds, ReadyQueueExact, ReadySets, RangeOf, Elements

(* remove: a deque without one thread. *)
LEMMA WithoutHolds ==
    ASSUME NEW q, NEW S, Holds(q, Threads, S), NEW t
    PROVE  Holds(Without(q, t), Threads, S \ {t})
  <1>1. CASE t \notin RangeOf(q)
    BY <1>1 DEF Holds, Without, RangeOf, Elements
  <1>2. CASE t \in RangeOf(q)
    <2> DEFINE k == CHOOSE i \in 1 .. Len(q) : q[i] = t
    <2>1. k \in 1 .. Len(q) /\ q[k] = t
      BY <1>2 DEF RangeOf
    <2>2. Without(q, t) = SubSeq(q, 1, k - 1) \o SubSeq(q, k + 1, Len(q))
      BY <1>2 DEF Without
    <2> HIDE DEF k
    <2> QED BY <2>1, <2>2, CutHolds
  <1> QED BY <1>1, <1>2

(* push_back of a thread onto the queue of one priority. *)
LEMMA PushBackAll ==
    ASSUME NEW qs, NEW R \in [Priorities -> SUBSET Threads], HoldsAll(qs, R),
           NEW p \in Priorities, NEW t \in Threads, t \notin R[p]
    PROVE  HoldsAll(PushBack(qs, p, t), [R EXCEPT ![p] = @ \cup {t}])
  <1>1. Holds(Append(qs[p], t), Threads, R[p] \cup {t})
    BY AppendHolds DEF HoldsAll
  <1>2. Append(qs[p], t) \in Seq(Threads)
    BY <1>1 DEF Holds
  <1> QED BY <1>1, <1>2 DEF HoldsAll, PushBack

(* push_front of a thread onto the queue of one priority. *)
LEMMA PushFrontAll ==
    ASSUME NEW qs, NEW R \in [Priorities -> SUBSET Threads], HoldsAll(qs, R),
           NEW p \in Priorities, NEW t \in Threads, t \notin R[p]
    PROVE  HoldsAll(PushFront(qs, p, t), [R EXCEPT ![p] = @ \cup {t}])
  <1>1. Holds(<<t>> \o qs[p], Threads, R[p] \cup {t})
    BY PrependHolds DEF HoldsAll
  <1>2. <<t>> \o qs[p] \in Seq(Threads)
    BY <1>1 DEF Holds
  <1> QED BY <1>1, <1>2 DEF HoldsAll, PushFront

(* remove of a thread from the queue of one priority. *)
LEMMA RemoveFromAll ==
    ASSUME NEW qs, NEW R \in [Priorities -> SUBSET Threads], HoldsAll(qs, R),
           NEW p \in Priorities, NEW t
    PROVE  HoldsAll(RemoveFrom(qs, p, t), [R EXCEPT ![p] = @ \ {t}])
  <1>1. Holds(Without(qs[p], t), Threads, R[p] \ {t})
    BY WithoutHolds DEF HoldsAll
  <1>2. Without(qs[p], t) \in Seq(Threads)
    BY <1>1 DEF Holds
  <1> QED BY <1>1, <1>2 DEF HoldsAll, RemoveFrom

-----------------------------------------------------------------------------
(* The inductive invariant *)

ThreadType ==
    /\ status \in [Threads -> Statuses]
    /\ current_priority \in [Threads -> Priorities]
    /\ can_schedule \in [Threads -> BOOLEAN]
    /\ wakeup_event \in [Threads -> BOOLEAN]
    /\ current_thread \in Threads \cup {None}
    /\ yielded \in BOOLEAN

PrioritiesLinked == \A t \in Threads : status[t] # "Absent" => Linked(current_priority[t])

IInv ==
    /\ ThreadType
    /\ ChainType
    /\ HoldsAll(queues, ReadySets)
    /\ ChainOrdered
    /\ PrioritiesLinked
    /\ AlarmsMatchWaits
    /\ OneRuns

(* IInv says what the properties say together. *)
LEMMA IInvMeaning ==
    IInv <=> (TypeOK /\ ReadyQueueExact /\ ChainSorted /\ AlarmsMatchWaits /\ OneRuns)
  <1>1. IInv => queues \in [Priorities -> Seq(Threads)] /\ ReadyQueueExact
    BY ExactIsHoldsAll DEF IInv
  <1>2. TypeOK /\ ReadyQueueExact => HoldsAll(queues, ReadySets)
    BY ExactIsHoldsAll DEF TypeOK
  <1> QED BY <1>1, <1>2 DEF IInv, ThreadType, ChainType, TypeOK, ChainSorted, PrioritiesLinked

(* The invariant holds when the emulated core starts. *)
LEMMA InitIInv == Init => IInv
  <1> SUFFICES ASSUME Init PROVE IInv
    OBVIOUS
  <1> USE NumQueuesAssumption, NoneAssumption
  <1>1. ThreadType
    BY DEF Init, ThreadType, Statuses, Priorities
  <1>2. ChainType /\ ChainOrdered
    BY DEF Init, ChainType, ChainOrdered, Linked, Priorities, UnlinkedTag, Nullptr
  <1>3. HoldsAll(queues, ReadySets)
    <2>1. \A p \in Priorities : ReadySets[p] = {} /\ queues[p] = << >>
      BY DEF Init, ReadySets
    <2>2. Holds(<< >>, Threads, {})
      BY EmptyHolds
    <2>3. queues \in [Priorities -> Seq(Threads)]
      BY DEF Init
    <2> QED BY <2>1, <2>2, <2>3 DEF HoldsAll
  <1>4. PrioritiesLinked /\ AlarmsMatchWaits /\ OneRuns
    BY DEF Init, PrioritiesLinked, AlarmsMatchWaits, OneRuns
  <1> QED BY <1>1, <1>2, <1>3, <1>4 DEF IInv

(* The sets of Ready threads are typed, and each thread is in at most one. *)
LEMMA ReadySetsType ==
    /\ ReadySets \in [Priorities -> SUBSET Threads]
    /\ \A p \in Priorities, t \in Threads :
          t \in ReadySets[p] <=> status[t] = "Ready" /\ current_priority[t] = p
  BY DEF ReadySets

(* KernelSystem::CreateThread keeps the invariant. *)
LEMMA CreateThreadStep ==
    ASSUME IInv, NEW t \in Threads, NEW p \in Priorities, CreateThread(t, p)
    PROVE  IInv'
  <1> USE DEF IInv, CreateThread
  <1>1. /\ ChainType' /\ ChainOrdered' /\ Linked(p)'
        /\ \A q \in Priorities : Linked(q) => Linked(q)'
    BY PrepareLinks, PrepareKeepsOrder
  <1>2. ThreadType'
    BY DEF ThreadType, Statuses
  <1>3. HoldsAll(queues, ReadySets)'
    <2>1. t \notin ReadySets[p]
      BY ReadySetsType
    <2>2. HoldsAll(queues', [ReadySets EXCEPT ![p] = @ \cup {t}])
      BY <2>1, ReadySetsType, PushBackAll
    <2>3. ReadySets' = [ReadySets EXCEPT ![p] = @ \cup {t}]
      BY DEF ReadySets, ThreadType
    <2> QED BY <2>2, <2>3
  <1>4. PrioritiesLinked'
    BY <1>1 DEF PrioritiesLinked, ThreadType
  <1>5. AlarmsMatchWaits' /\ OneRuns'
    BY DEF AlarmsMatchWaits, OneRuns, ThreadType
  <1> QED BY <1>1, <1>2, <1>3, <1>4, <1>5

(* A delayed SetupMainThread keeps the invariant. *)
LEMMA SetupMainThreadStep ==
    ASSUME IInv, NEW t \in Threads, NEW p \in Priorities, SetupMainThread(t, p)
    PROVE  IInv'
  <1> USE DEF IInv, SetupMainThread
  <1>1. /\ ChainType' /\ ChainOrdered' /\ Linked(p)'
        /\ \A q \in Priorities : Linked(q) => Linked(q)'
    BY PrepareLinks, PrepareKeepsOrder
  <1>2. ThreadType'
    BY DEF ThreadType, Statuses
  <1>3. HoldsAll(queues, ReadySets)'
    <2>1. ReadySets' = ReadySets
      BY DEF ReadySets, ThreadType
    <2> QED BY <2>1
  <1>4. PrioritiesLinked'
    BY <1>1 DEF PrioritiesLinked, ThreadType
  <1>5. AlarmsMatchWaits' /\ OneRuns'
    BY DEF AlarmsMatchWaits, OneRuns, ThreadType
  <1> QED BY <1>1, <1>2, <1>3, <1>4, <1>5

(* The current thread goes to sleep or blocks. *)
LEMMA WaitStep ==
    ASSUME IInv, NEW t \in Threads,
           SleepThread(t) \/ \E timed \in BOOLEAN : Block(t, timed)
    PROVE  IInv'
  <1> USE DEF IInv
  <1>1. /\ Executes(t)
        /\ \/ /\ status' = [status EXCEPT ![t] = "WaitSleep"]
              /\ wakeup_event' = [wakeup_event EXCEPT ![t] = TRUE]
           \/ /\ status' = [status EXCEPT ![t] = "Blocked"]
              /\ wakeup_event' \in [Threads -> BOOLEAN]
              /\ \A u \in Threads \ {t} : wakeup_event'[u] = wakeup_event[u]
        /\ UNCHANGED <<current_priority, can_schedule, current_thread, listVars, yielded>>
    BY DEF SleepThread, Block, ThreadType
  <1>2. ThreadType'
    BY <1>1 DEF ThreadType, Statuses
  <1>3. HoldsAll(queues, ReadySets)'
    <2>1. ReadySets' = ReadySets
      BY <1>1 DEF ReadySets, ThreadType, Executes
    <2> QED BY <1>1, <2>1 DEF listVars
  <1>4. ChainType' /\ ChainOrdered' /\ PrioritiesLinked'
    BY <1>1 DEF ChainType, ChainOrdered, PrioritiesLinked, Linked, listVars, Executes, ThreadType
  <1>5. AlarmsMatchWaits'
    BY <1>1 DEF AlarmsMatchWaits, ThreadType
  <1>6. OneRuns'
    BY <1>1 DEF OneRuns, ThreadType
  <1> QED BY <1>2, <1>3, <1>4, <1>5, <1>6

(* A thread is resumed by an object or by its wakeup event.  Either way a   *)
(* sleeping thread is left without an event only when it is Ready.          *)
LEMMA ResumeStep ==
    ASSUME IInv, NEW t \in Threads, Signal(t) \/ ThreadWakeupCallback(t)
    PROVE  IInv'
  <1> USE DEF IInv
  <1>1. /\ ResumeFromWait(t)
        /\ status[t] \in {"Blocked", "WaitSleep", "Ready"}
        /\ wakeup_event' \in [Threads -> BOOLEAN]
        /\ wakeup_event'[t] => wakeup_event[t]
        /\ \A u \in Threads \ {t} : wakeup_event'[u] = wakeup_event[u]
    BY DEF Signal, ThreadWakeupCallback, ThreadType, AlarmsMatchWaits
  <1>2. UNCHANGED <<current_priority, can_schedule, current_thread, next_nonempty, first, yielded>>
    BY <1>1 DEF ResumeFromWait
  <1>3. ChainType' /\ ChainOrdered'
    BY <1>2 DEF ChainType, ChainOrdered, Linked
  <1>4. CASE status[t] = "Ready"
    <2>1. UNCHANGED <<queues, status>>
      BY <1>1, <1>4 DEF ResumeFromWait
    <2>2. ThreadType' /\ OneRuns' /\ PrioritiesLinked'
      BY <1>1, <1>2, <2>1 DEF ThreadType, OneRuns, PrioritiesLinked, Linked
    <2>3. HoldsAll(queues, ReadySets)'
      BY <1>2, <2>1 DEF ReadySets
    <2>4. AlarmsMatchWaits'
      BY <1>1, <1>4, <2>1 DEF AlarmsMatchWaits
    <2> QED BY <1>3, <2>2, <2>3, <2>4
  <1>5. CASE status[t] # "Ready"
    <2> DEFINE p == current_priority[t]
    <2>1. p \in Priorities
      BY DEF ThreadType
    <2>2. /\ queues' = PushBack(queues, p, t)
          /\ status' = [status EXCEPT ![t] = "Ready"]
      BY <1>1, <1>5 DEF ResumeFromWait
    <2>3. ThreadType' /\ OneRuns' /\ PrioritiesLinked'
      BY <1>1, <1>2, <2>2 DEF ThreadType, Statuses, OneRuns, PrioritiesLinked, Linked
    <2>4. HoldsAll(queues, ReadySets)'
      <3>1. HoldsAll(queues', [ReadySets EXCEPT ![p] = @ \cup {t}])
        BY <1>5, <2>1, <2>2, ReadySetsType, PushBackAll
      <3>2. ReadySets' = [ReadySets EXCEPT ![p] = @ \cup {t}]
        BY <1>2, <2>1, <2>2 DEF ReadySets, ThreadType
      <3> QED BY <3>1, <3>2
    <2>5. AlarmsMatchWaits'
      BY <1>1, <2>2 DEF AlarmsMatchWaits, ThreadType
    <2> QED BY <1>3, <2>3, <2>4, <2>5
  <1> QED BY <1>4, <1>5

(* SetPriority and BoostPriority keep the invariant. *)
LEMMA SetPriorityStep ==
    ASSUME IInv, NEW t \in Threads, NEW p \in Priorities, SetPriority(t, p)
    PROVE  IInv'
  <1> USE DEF IInv
  <1>1. /\ Prepare(p)
        /\ current_priority' = [current_priority EXCEPT ![t] = p]
        /\ UNCHANGED <<status, can_schedule, wakeup_event, current_thread, yielded>>
    BY DEF SetPriority
  <1>2. /\ ChainType' /\ ChainOrdered' /\ Linked(p)'
        /\ \A q \in Priorities : Linked(q) => Linked(q)'
    BY <1>1, PrepareLinks, PrepareKeepsOrder
  <1>3. ThreadType' /\ PrioritiesLinked' /\ AlarmsMatchWaits' /\ OneRuns'
    BY <1>1, <1>2 DEF ThreadType, PrioritiesLinked, AlarmsMatchWaits, OneRuns
  <1>4. HoldsAll(queues, ReadySets)'
    <2> DEFINE old == current_priority[t]
               R1 == [ReadySets EXCEPT ![old] = @ \ {t}]
    <2>0. old \in Priorities
      BY DEF ThreadType
    <2>1. CASE status[t] = "Ready"
      <3>1. queues' = PushBack(RemoveFrom(queues, old, t), p, t)
        BY <2>1 DEF SetPriority
      <3>2. HoldsAll(RemoveFrom(queues, old, t), R1)
        BY <2>0, ReadySetsType, RemoveFromAll
      <3>3. R1 \in [Priorities -> SUBSET Threads] /\ t \notin R1[p]
        BY <2>0, ReadySetsType
      <3> HIDE DEF R1
      <3>4. HoldsAll(queues', [R1 EXCEPT ![p] = @ \cup {t}])
        BY <3>1, <3>2, <3>3, PushBackAll
      <3>5. ReadySets' = [R1 EXCEPT ![p] = @ \cup {t}]
        <4>1. ASSUME NEW q \in Priorities
              PROVE  ReadySets'[q] = [R1 EXCEPT ![p] = @ \cup {t}][q]
          BY <1>1, <2>0, <2>1 DEF ReadySets, ThreadType, R1
        <4>2. /\ ReadySets' \in [Priorities -> SUBSET Threads]
              /\ [R1 EXCEPT ![p] = @ \cup {t}] \in [Priorities -> SUBSET Threads]
          BY <3>3 DEF ReadySets
        <4> QED BY <4>1, <4>2
      <3> QED BY <3>4, <3>5
    <2>2. CASE status[t] # "Ready"
      <3>1. queues' = queues
        BY <2>2 DEF SetPriority
      <3>2. ReadySets' = ReadySets
        BY <1>1, <2>2 DEF ReadySets, ThreadType
      <3> QED BY <3>1, <3>2
    <2> QED BY <2>1, <2>2
  <1> QED BY <1>2, <1>3, <1>4

(* Thread::Stop keeps the invariant. *)
LEMMA StopStep ==
    ASSUME IInv, NEW t \in Threads, Stop(t)
    PROVE  IInv'
  <1> USE DEF IInv
  <1>1. /\ status' = [status EXCEPT ![t] = "Dead"]
        /\ status[t] # "Absent"
        /\ wakeup_event' = [wakeup_event EXCEPT ![t] = FALSE]
        /\ UNCHANGED <<current_priority, can_schedule, current_thread, next_nonempty, first, yielded>>
    BY DEF Stop
  <1>2. ChainType' /\ ChainOrdered' /\ PrioritiesLinked'
    BY <1>1 DEF ChainType, ChainOrdered, PrioritiesLinked, Linked, ThreadType
  <1>3. ThreadType' /\ AlarmsMatchWaits' /\ OneRuns'
    BY <1>1 DEF ThreadType, Statuses, AlarmsMatchWaits, OneRuns
  <1>4. HoldsAll(queues, ReadySets)'
    <2> DEFINE p == current_priority[t]
    <2>0. p \in Priorities
      BY DEF ThreadType
    <2>1. CASE status[t] = "Ready"
      <3>1. HoldsAll(queues', [ReadySets EXCEPT ![p] = @ \ {t}])
        BY <2>0, <2>1, ReadySetsType, RemoveFromAll DEF Stop
      <3>2. ReadySets' = [ReadySets EXCEPT ![p] = @ \ {t}]
        BY <1>1, <2>0 DEF ReadySets, ThreadType
      <3> QED BY <3>1, <3>2
    <2>2. CASE status[t] # "Ready"
      <3>1. queues' = queues
        BY <2>2 DEF Stop
      <3>2. ReadySets' = ReadySets
        BY <1>1, <2>2 DEF ReadySets, ThreadType
      <3> QED BY <3>1, <3>2
    <2> QED BY <2>1, <2>2
  <1> QED BY <1>2, <1>3, <1>4

(* Steps that move no thread: a yield, a change of unschedule mode, a       *)
(* reschedule that keeps the current thread, and stuttering.                *)
LEMMA QuietStep ==
    ASSUME IInv,
           \/ \E t \in Threads : Yield(t) \/ ChangeUnscheduleMode(t)
           \/ KeepCurrent
           \/ UNCHANGED vars
    PROVE  IInv'
  <1> USE DEF IInv
  <1>1. /\ UNCHANGED <<status, current_priority, current_thread, listVars>>
        /\ can_schedule' \in [Threads -> BOOLEAN]
        /\ yielded' \in BOOLEAN
        /\ \/ wakeup_event' = wakeup_event
           \/ /\ current_thread \in Threads /\ status[current_thread] = "Running"
              /\ wakeup_event' = [wakeup_event EXCEPT ![current_thread] = FALSE]
    BY DEF Yield, ChangeUnscheduleMode, KeepCurrent, CurrentStays, vars, threadVars, listVars, ThreadType
  <1>2. ThreadType' /\ OneRuns' /\ PrioritiesLinked'
    BY <1>1 DEF ThreadType, OneRuns, PrioritiesLinked, Linked, listVars
  <1>3. AlarmsMatchWaits'
    BY <1>1 DEF AlarmsMatchWaits, ThreadType
  <1>4. ChainType' /\ ChainOrdered'
    BY <1>1 DEF ChainType, ChainOrdered, Linked, listVars
  <1>5. HoldsAll(queues, ReadySets)'
    BY <1>1 DEF ReadySets, listVars
  <1> QED BY <1>2, <1>3, <1>4, <1>5

-----------------------------------------------------------------------------
(* Reschedule *)

(* The thread PopNextReadyThread finds is Ready: the branch of SwitchContext *)
(* for a thread whose status changed during scheduling is never taken.      *)
LEMMA NextIsReady ==
    ASSUME IInv, NEW t \in Threads, IsNext(t)
    PROVE  status[t] = "Ready" /\ current_priority[t] \in Priorities
  <1>1. PICK p \in Priorities : \E i \in 1 .. Len(queues[p]) : queues[p][i] = t
    BY DEF IsNext
  <1>2. t \in ReadySets[p]
    BY <1>1 DEF IInv, HoldsAll, Holds, Elements
  <1> QED BY <1>2, ReadySetsType DEF IInv, ThreadType

(* SwitchContext's first half: the previous thread, if it still runs, goes  *)
(* back into queues that hold R, where R has only Ready threads.            *)
LEMMA PutBackHolds ==
    ASSUME IInv, NEW qs, NEW R \in [Priorities -> SUBSET Threads], HoldsAll(qs, R),
           \A p \in Priorities : R[p] \subseteq ReadySets[p]
    PROVE  HoldsAll(PutBackPrevious(qs),
                    IF PreviousRuns
                    THEN [R EXCEPT ![current_priority[current_thread]] = @ \cup {current_thread}]
                    ELSE R)
  <1>1. CASE PreviousRuns
    <2>1. /\ current_thread \in Threads
          /\ current_priority[current_thread] \in Priorities
      BY <1>1 DEF IInv, ThreadType, PreviousRuns
    <2>2. current_thread \notin R[current_priority[current_thread]]
      BY <1>1, <2>1, ReadySetsType DEF PreviousRuns
    <2> QED BY <1>1, <2>1, <2>2, PushFrontAll DEF PutBackPrevious
  <1>2. CASE ~PreviousRuns
    BY <1>2 DEF PutBackPrevious
  <1> QED BY <1>1, <1>2

(* A reschedule to the idle state keeps the invariant. *)
LEMMA GoIdleStep ==
    ASSUME IInv, GoIdle
    PROVE  IInv'
  <1>1. /\ queues' = PutBackPrevious(queues)
        /\ status' = PreviousReady(status)
        /\ current_thread' = None
        /\ yielded' = FALSE
        /\ UNCHANGED <<current_priority, can_schedule, wakeup_event, next_nonempty, first>>
    BY DEF GoIdle
  <1>2. ChainType' /\ ChainOrdered'
    BY <1>1 DEF IInv, ChainType, ChainOrdered, Linked
  <1>3. ThreadType' /\ PrioritiesLinked'
    BY <1>1 DEF IInv, ThreadType, Statuses, PrioritiesLinked, Linked, PreviousReady, PreviousRuns
  <1>4. AlarmsMatchWaits' /\ OneRuns'
    BY <1>1 DEF IInv, ThreadType, AlarmsMatchWaits, OneRuns, PreviousReady, PreviousRuns
  <1>5. HoldsAll(queues, ReadySets)'
    <2> DEFINE R2 == IF PreviousRuns
                     THEN [ReadySets EXCEPT ![current_priority[current_thread]] =
                               @ \cup {current_thread}]
                     ELSE ReadySets
    <2>1. HoldsAll(queues', R2)
      BY <1>1, ReadySetsType, PutBackHolds DEF IInv
    <2>2. ReadySets' = R2
      <3>1. ASSUME NEW q \in Priorities PROVE ReadySets'[q] = R2[q]
        <4>1. CASE PreviousRuns
          BY <1>1, <4>1 DEF IInv, ThreadType, ReadySets, PreviousReady, PreviousRuns
        <4>2. CASE ~PreviousRuns
          BY <1>1, <4>2 DEF ReadySets, PreviousReady
        <4> QED BY <4>1, <4>2
      <3>2. ReadySets' \in [Priorities -> SUBSET Threads] /\ R2 \in [Priorities -> SUBSET Threads]
        BY ReadySetsType DEF ReadySets, IInv, ThreadType, PreviousRuns
      <3> HIDE DEF R2
      <3> QED BY <3>1, <3>2
    <2> QED BY <2>1, <2>2
  <1> QED BY <1>2, <1>3, <1>4, <1>5 DEF IInv

(* A switch to another thread keeps the invariant. *)
LEMMA SwitchToStep ==
    ASSUME IInv, NEW t \in Threads, SwitchTo(t)
    PROVE  IInv'
  <1> DEFINE p == current_priority[t]
             R1 == [ReadySets EXCEPT ![p] = @ \ {t}]
             popped == RemoveFrom(queues, p, t)
  <1>1. IsNext(t) /\ status[t] = "Ready" /\ p \in Priorities
    BY NextIsReady DEF SwitchTo
  <1>2. /\ queues' = PutBackPrevious(popped)
        /\ status' = [PreviousReady(status) EXCEPT ![t] = "Running"]
        /\ current_thread' = t
        /\ wakeup_event' = [wakeup_event EXCEPT ![t] = FALSE]
        /\ yielded' = FALSE
        /\ UNCHANGED <<current_priority, can_schedule, next_nonempty, first>>
    BY <1>1 DEF SwitchTo
  <1>3. ChainType' /\ ChainOrdered'
    BY <1>2 DEF IInv, ChainType, ChainOrdered, Linked
  <1>4. ThreadType' /\ PrioritiesLinked'
    BY <1>1, <1>2
       DEF IInv, ThreadType, Statuses, PrioritiesLinked, Linked, PreviousReady, PreviousRuns
  <1>5. AlarmsMatchWaits' /\ OneRuns'
    <2>1. ASSUME NEW u \in Threads, u # t
          PROVE  /\ status[u] # "Running" => status'[u] = status[u]
                 /\ status[u] = "Running" => status'[u] = "Ready"
                 /\ wakeup_event'[u] = wakeup_event[u]
      BY <1>2, <2>1, NoneAssumption DEF IInv, ThreadType, OneRuns, PreviousReady, PreviousRuns
    <2>2. status'[t] = "Running" /\ ~wakeup_event'[t]
      BY <1>2 DEF IInv, ThreadType, PreviousReady, PreviousRuns
    <2>3. AlarmsMatchWaits'
      BY <2>1, <2>2 DEF IInv, AlarmsMatchWaits
    <2>4. OneRuns'
      BY <1>2, <2>1 DEF OneRuns
    <2> QED BY <2>3, <2>4
  <1>6. HoldsAll(queues, ReadySets)'
    <2> DEFINE R2 == IF PreviousRuns
                     THEN [R1 EXCEPT ![current_priority[current_thread]] = @ \cup {current_thread}]
                     ELSE R1
    <2>1. HoldsAll(popped, R1)
      BY <1>1, ReadySetsType, RemoveFromAll DEF IInv
    <2>2. R1 \in [Priorities -> SUBSET Threads] /\ \A q \in Priorities : R1[q] \subseteq ReadySets[q]
      BY <1>1, ReadySetsType
    <2> HIDE DEF R1, popped
    <2>3. HoldsAll(queues', R2)
      BY <1>2, <2>1, <2>2, PutBackHolds
    <2>4. ReadySets' = R2
      <3>1. ASSUME NEW q \in Priorities PROVE ReadySets'[q] = R2[q]
        <4>1. CASE PreviousRuns
          BY <1>1, <1>2, <4>1
             DEF IInv, ThreadType, ReadySets, PreviousReady, PreviousRuns, R1
        <4>2. CASE ~PreviousRuns
          BY <1>1, <1>2, <4>2 DEF IInv, ThreadType, ReadySets, PreviousReady, R1
        <4> QED BY <4>1, <4>2
      <3>2. ReadySets' \in [Priorities -> SUBSET Threads] /\ R2 \in [Priorities -> SUBSET Threads]
        BY <2>2 DEF ReadySets, IInv, ThreadType, PreviousRuns
      <3> HIDE DEF R2
      <3> QED BY <3>1, <3>2
    <2> QED BY <2>3, <2>4
  <1> QED BY <1>3, <1>4, <1>5, <1>6 DEF IInv

-----------------------------------------------------------------------------
(* The theorems *)

(* Every step of the scheduler keeps the invariant. *)
LEMMA NextIInv == IInv /\ [Next]_vars => IInv'
  <1> SUFFICES ASSUME IInv, [Next]_vars PROVE IInv'
    OBVIOUS
  <1>1. ASSUME NEW t \in Threads, NEW p \in Priorities, CreateThread(t, p) PROVE IInv'
    BY <1>1, CreateThreadStep
  <1>2. ASSUME NEW t \in Threads, NEW p \in Priorities, SetupMainThread(t, p) PROVE IInv'
    BY <1>2, SetupMainThreadStep
  <1>3. ASSUME NEW t \in Threads, SleepThread(t) PROVE IInv'
    BY <1>3, WaitStep
  <1>4. ASSUME NEW t \in Threads, Yield(t) PROVE IInv'
    BY <1>4, QuietStep
  <1>5. ASSUME NEW t \in Threads, NEW timed \in BOOLEAN, Block(t, timed) PROVE IInv'
    BY <1>5, WaitStep
  <1>6. ASSUME NEW t \in Threads, Signal(t) PROVE IInv'
    BY <1>6, ResumeStep
  <1>7. ASSUME NEW t \in Threads, ThreadWakeupCallback(t) PROVE IInv'
    BY <1>7, ResumeStep
  <1>8. ASSUME NEW t \in Threads, NEW p \in Priorities, SetPriority(t, p) PROVE IInv'
    BY <1>8, SetPriorityStep
  <1>9. ASSUME NEW t \in Threads, Stop(t) PROVE IInv'
    BY <1>9, StopStep
  <1>10. ASSUME NEW t \in Threads, ChangeUnscheduleMode(t) PROVE IInv'
    BY <1>10, QuietStep
  <1>11. CASE KeepCurrent
    BY <1>11, QuietStep
  <1>12. CASE GoIdle
    BY <1>12, GoIdleStep
  <1>13. ASSUME NEW t \in Threads, SwitchTo(t) PROVE IInv'
    BY <1>13, SwitchToStep
  <1>14. CASE UNCHANGED vars
    BY <1>14, QuietStep
  <1> QED
    BY <1>1, <1>2, <1>3, <1>4, <1>5, <1>6, <1>7, <1>8, <1>9, <1>10, <1>11, <1>12, <1>13, <1>14
       DEF Next, Reschedule

(* IInv is an invariant of the scheduler. *)
THEOREM Invariant == Spec => []IInv
  BY InitIInv, NextIInv, PTL DEF Spec

(* Every variable of the scheduler keeps its type. *)
THEOREM TypeCorrect == Spec => []TypeOK
  <1>1. IInv => TypeOK
    BY IInvMeaning
  <1> QED BY <1>1, Invariant, PTL

(* The ready queue holds exactly the Ready threads, each once and under its *)
(* current priority, whatever wakes, stops, boosts or preempts them.        *)
THEOREM ReadyQueueCorrect == Spec => []ReadyQueueExact
  <1>1. IInv => ReadyQueueExact
    BY IInvMeaning
  <1> QED BY <1>1, Invariant, PTL

(* The chain of priorities is in order and has the priority of every thread *)
(* on it: the walks of pop_first and pop_first_better miss no Ready thread  *)
(* and never leave the chain.                                               *)
THEOREM ChainCorrect == Spec => []ChainSorted
  <1>1. IInv => ChainSorted
    BY IInvMeaning
  <1> QED BY <1>1, Invariant, PTL

(* A sleeping thread has its wakeup event, and no event is left for a       *)
(* running or a dead thread.                                                *)
THEOREM AlarmsCorrect == Spec => []AlarmsMatchWaits
  <1>1. IInv => AlarmsMatchWaits
    BY DEF IInv
  <1> QED BY <1>1, Invariant, PTL

(* At most the current thread runs. *)
THEOREM OneRunsCorrect == Spec => []OneRuns
  <1>1. IInv => OneRuns
    BY DEF IInv
  <1> QED BY <1>1, Invariant, PTL
=============================================================================
