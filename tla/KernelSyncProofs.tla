-------------------------- MODULE KernelSyncProofs --------------------------
(***************************************************************************)
(* The invariants of KernelSync, for any threads, objects, priorities and  *)
(* lists: no wakeup is lost, waiting lists match wait_objects, mutexes     *)
(* have one live owner, priorities are exact and inherited, answers agree  *)
(* with what was acquired, and no ASSERT fails.                            *)
(*                                                                         *)
(* A handler is a composition of functions of the code, and the invariant  *)
(* does not hold between them.  Good(S, D, X, E) says what does: each      *)
(* lemma ending in Keeps takes the state before a function, with the parts *)
(* that are broken there, to the state after it; each one ending in Step   *)
(* says which fields an assignment changes.  A loop is a function from the *)
(* number of turns done to a state, and its lemma ends in Loop.            *)
(***************************************************************************)
EXTENDS KernelSync, QueueLemmas

-----------------------------------------------------------------------------
(* The inductive invariant, as a predicate of a kernel state.  Inside a     *)
(* system call parts of it are suspended: D holds the thread that is being  *)
(* stopped, X the object whose waiters are being woken, and E the mutexes   *)
(* whose priority is about to be recomputed.                                *)

(* The threads whose wait_objects name o. *)
Waiters(S, o) == {t \in Threads : o \in Elements(S.wait_objects[t])}

(* A waiting list holds the threads that wait for the object, once each. *)
ListInv(S) ==
    /\ \A o \in Objects : Holds(S.waiting_threads[o], Threads, Waiters(S, o))
    /\ \A t \in Threads :
          /\ \A i, j \in 1 .. Len(S.wait_objects[t]) :
                S.wait_objects[t][i] = S.wait_objects[t][j] => i = j
          /\ t \notin Elements(S.wait_objects[t])
          /\ S.pending_mutexes[t] = Elements(S.wait_objects[t]) \cap Mutexes

(* A thread waits for objects exactly while its status says so. *)
FitsInv(S, D) ==
    /\ \A t \in Threads \ D : S.wait_objects[t] # << >> <=> S.status[t] \in Waiting
    /\ \A t \in D : S.status[t] = "Dead"

(* A locked mutex has one holder, alive, that lists it among its own. *)
MutexInv(S, D) ==
    \A m \in Mutexes :
        /\ S.lock_count[m] > 0 <=> S.holding_thread[m] # None
        /\ S.holding_thread[m] # None => m \in S.held_mutexes[S.holding_thread[m]]
        /\ \A t \in Threads \ D :
              m \in S.held_mutexes[t] => S.holding_thread[m] = t /\ S.status[t] # "Dead"

(* The priority of a live thread is exact. *)
PrioInv(S) ==
    \A t \in Threads : S.status[t] # "Dead" => S.current_priority[t] = BestPriority(S, t)

(* What is known of the answer of the last wait in each status. *)
AnswerInv(S) ==
    \A t \in Threads :
        /\ S.status[t] = "Ready" =>
              /\ S.result[t] = "Success" <=> S.granted[t] # {}
              /\ S.granted[t] \cap Mutexes \subseteq S.held_mutexes[t]
        /\ S.status[t] \in Waiting \cup {"Running", "WaitSleep"} =>
              S.result[t] = "none" /\ S.granted[t] = {}
        /\ S.status[t] \in {"Ready", "Running", "WaitSleep"} => t \notin S.wakeup_callback
        /\ S.status[t] \in Waiting =>
              t \in S.wakeup_callback /\ (t \in S.wakeup_event => t \in S.timed)
        /\ S.status[t] \in {"Running", "Dead"} => t \notin S.wakeup_event

(* No thread could have what it waits for, but for the objects in X. *)
AvailInv(S, X) ==
    \A t \in Threads :
        /\ S.status[t] = "WaitSynchAny" =>
              \A o \in Elements(S.wait_objects[t]) \ X : ShouldWait(S, o, t)
        /\ S.status[t] = "WaitSynchAll" =>
              \E o \in Elements(S.wait_objects[t]) : o \in X \/ ShouldWait(S, o, t)

(* A held mutex is as urgent as a waiter that waits for any one object and *)
(* holds no mutex, and no more urgent than the best of its waiters, if all *)
(* of them are such.  Of a waiter that holds a mutex, or waits for all, it *)
(* is not true: the priority of a waiter may change without the mutex      *)
(* being told (the run inversion).                                          *)
Plain(S, w) == S.status[w] = "WaitSynchAny" /\ S.held_mutexes[w] = {}
Lends(S, m) ==
    /\ \A w \in Elements(S.waiting_threads[m]) : Plain(S, w) => S.priority[m] <= S.current_priority[w]
    /\ (/\ Elements(S.waiting_threads[m]) # {}
        /\ \A w \in Elements(S.waiting_threads[m]) : Plain(S, w))
       => \E w \in Elements(S.waiting_threads[m]) : S.priority[m] = S.current_priority[w]
InheritInv(S, E) == \A m \in Mutexes \ E : S.holding_thread[m] # None => Lends(S, m)

CountInv(S) == \A s \in Semaphores : S.available_count[s] <= MaxCount[s]

Good(S, D, X, E) ==
    /\ S \in KState
    /\ S.failed = {}
    /\ CountInv(S)
    /\ ListInv(S)
    /\ FitsInv(S, D)
    /\ MutexInv(S, D)
    /\ PrioInv(S)
    /\ AnswerInv(S)
    /\ AvailInv(S, X)
    /\ InheritInv(S, E)

IInv == Good(kernel, {}, {}, {})
-----------------------------------------------------------------------------
(* The groups of fields that two states have in common. *)
SameLists(S, T) ==
    /\ T.waiting_threads = S.waiting_threads
    /\ T.wait_objects = S.wait_objects
    /\ T.pending_mutexes = S.pending_mutexes
SameLocks(S, T) ==
    /\ T.lock_count = S.lock_count
    /\ T.holding_thread = S.holding_thread
    /\ T.held_mutexes = S.held_mutexes
SameStock(S, T) == T.available_count = S.available_count /\ T.signaled = S.signaled
SameAnswers(S, T) ==
    /\ T.wakeup_callback = S.wakeup_callback
    /\ T.wakeup_event = S.wakeup_event
    /\ T.timed = S.timed
    /\ T.result = S.result
    /\ T.granted = S.granted
SameRest(S, T) ==
    /\ T.status = S.status
    /\ T.nominal_priority = S.nominal_priority
    /\ T.failed = S.failed

(* The waiters of a held mutex m lend in T what they lent in S. *)
Unmoved(S, T, m) ==
    /\ S.holding_thread[m] # None
    /\ T.priority[m] = S.priority[m]
    /\ T.waiting_threads[m] = S.waiting_threads[m]
    /\ \A w \in Elements(T.waiting_threads[m]) :
          Plain(T, w) => Plain(S, w) /\ T.current_priority[w] = S.current_priority[w]

LEMMA InheritKept ==
    ASSUME NEW S, NEW T, NEW E, NEW F, InheritInv(S, E),
           \A m \in Mutexes \ F : T.holding_thread[m] # None => m \notin E /\ Unmoved(S, T, m)
    PROVE  InheritInv(T, F)
  <1> SUFFICES ASSUME NEW m \in Mutexes \ F, T.holding_thread[m] # None
               PROVE  Lends(T, m)
    BY DEF InheritInv
  <1>1. Unmoved(S, T, m) /\ Lends(S, m)
    BY DEF InheritInv, Unmoved
  <1> QED BY <1>1 DEF Unmoved, Lends

(* The minimum of a set of naturals is its least element. *)
LEMMA Least ==
    ASSUME NEW A, A \subseteq Nat, A # {}
    PROVE  Min(A) \in A /\ \A x \in A : Min(A) <= x
  <1>1. PICK x \in A : \A y \in A : x <= y
    BY LeastNatural
  <1> QED BY <1>1 DEF Min

(* A best priority is a priority. *)
LEMMA BestPriorityType ==
    ASSUME NEW S \in KState, NEW t \in Threads
    PROVE  BestPriority(S, t) \in Prio
  <1> DEFINE A == {S.nominal_priority[t]} \cup {S.priority[m] : m \in S.held_mutexes[t]}
  <1>1. A \subseteq Prio
    BY DEF KState
  <1>2. A \subseteq Nat
    BY <1>1, PriorityAssumption DEF Prio
  <1> HIDE DEF A
  <1>3. A # {} BY DEF A
  <1> QED BY <1>1, <1>2, <1>3, Least DEF BestPriority, A

(* Thread::UpdatePriority changes the priority of one thread. *)
LEMMA UpdatePriorityStep ==
    ASSUME NEW S \in KState, NEW t \in Threads, NEW T, T = UpdatePriority(S, t)
    PROVE  /\ T \in KState
           /\ T.current_priority = [S.current_priority EXCEPT ![t] = BestPriority(S, t)]
           /\ T.priority = S.priority
           /\ SameLists(S, T) /\ SameLocks(S, T) /\ SameStock(S, T)
           /\ SameAnswers(S, T) /\ SameRest(S, T)
  <1>1. BestPriority(S, t) \in Prio
    BY BestPriorityType
  <1>2. T = [S EXCEPT !.current_priority = [S.current_priority EXCEPT ![t] = BestPriority(S, t)]]
    BY DEF UpdatePriority
  <1>3. [S.current_priority EXCEPT ![t] = BestPriority(S, t)] \in [Threads -> Prio]
    BY <1>1 DEF KState
  <1> QED BY <1>2, <1>3, ZenonT(60) DEF KState, SameLists, SameLocks, SameStock, SameAnswers, SameRest
-----------------------------------------------------------------------------
(* Loops.  A loop of the model is a function from the number of turns done  *)
(* to the state reached; it exists when every turn stays among the states.  *)
LoopOf(f, g, N, s, K) ==
    /\ f = [i \in 0 .. N |-> IF i = 0 THEN s ELSE g[i][f[i - 1]]]
    /\ \A i \in 0 .. N : f[i] \in K

(* The function of a loop exists. *)
LEMMA LoopExists ==
    ASSUME NEW K, NEW s \in K, NEW g, NEW N \in Nat,
           \A i \in 1 .. N : \A x \in K : g[i][x] \in K
    PROVE  \E f : LoopOf(f, g, N, s, K)
  <1> DEFINE Steps(f, n) == /\ f = [i \in 0 .. n |-> IF i = 0 THEN s ELSE g[i][f[i - 1]]]
                            /\ \A i \in 0 .. n : f[i] \in K
             I == {n \in Nat : n <= N => \E f : Steps(f, n)}
  <1>1. 0 \in I
    <2>1. Steps([i \in 0 .. 0 |-> s], 0)
      OBVIOUS
    <2> QED BY <2>1
  <1>2. ASSUME NEW n \in Nat, n \in I PROVE n + 1 \in I
    <2> SUFFICES ASSUME n + 1 <= N PROVE \E f : Steps(f, n + 1)
      OBVIOUS
    <2>1. PICK f : Steps(f, n)
      BY <1>2
    <2> DEFINE h == [i \in 0 .. n + 1 |-> IF i <= n THEN f[i] ELSE g[i][f[i - 1]]]
    <2>2. \A i \in 0 .. n : f[i] = IF i = 0 THEN s ELSE g[i][f[i - 1]]
      BY <2>1, Zenon
    <2>3. \A i \in 0 .. n : h[i] = f[i]
      OBVIOUS
    <2>4. h[n + 1] = g[n + 1][f[n]]
      OBVIOUS
    <2>5. h = [i \in 0 .. n + 1 |-> h[i]]
      OBVIOUS
    <2> HIDE DEF h
    <2>6. ASSUME NEW i \in 0 .. n + 1
          PROVE  h[i] = (IF i = 0 THEN s ELSE g[i][h[i - 1]]) /\ h[i] \in K
      <3>1. CASE i \in 0 .. n
        <4>1. h[i] = f[i] /\ f[i] \in K
          BY <2>1, <2>3, <3>1
        <4>2. CASE i = 0
          BY <2>2, <4>1, <4>2
        <4>3. CASE i # 0
          <5>1. i - 1 \in 0 .. n
            BY <3>1, <4>3
          <5>2. f[i] = g[i][f[i - 1]]
            BY <2>2, <3>1, <4>3
          <5> QED BY <2>3, <4>1, <4>3, <5>1, <5>2
        <4> QED BY <4>2, <4>3
      <3>2. CASE i = n + 1
        <4>1. i # 0 /\ i - 1 = n /\ n \in 0 .. n /\ i \in 1 .. N
          BY <3>2
        <4>2. h[n] = f[n] /\ f[n] \in K
          BY <2>1, <2>3, <4>1
        <4>3. g[i][f[n]] \in K
          BY <4>1, <4>2
        <4> QED BY <2>4, <3>2, <4>1, <4>2, <4>3
      <3> QED BY <3>1, <3>2
    <2>7. h = [i \in 0 .. n + 1 |-> IF i = 0 THEN s ELSE g[i][h[i - 1]]]
      BY <2>5, <2>6
    <2>8. \A i \in 0 .. n + 1 : h[i] \in K
      BY <2>6
    <2> QED BY <2>7, <2>8
  <1>3. \A n \in Nat : n \in I
    <2> HIDE DEF I
    <2> QED BY <1>1, <1>2, SetInduction
  <1>4. N \in I
    BY <1>3
  <1> QED BY <1>4 DEF LoopOf

(* What holds before the first turn, and after a turn if it held before it, *)
(* holds after the last.                                                    *)
LEMMA LoopInduction ==
    ASSUME NEW N \in Nat, NEW I, 0 \in I, \A n \in 0 .. N - 1 : n \in I => n + 1 \in I
    PROVE  \A n \in 0 .. N : n \in I
  <1> DEFINE J == {n \in Nat : n <= N => n \in I}
  <1>1. 0 \in J
    OBVIOUS
  <1>2. ASSUME NEW n \in Nat, n \in J PROVE n + 1 \in J
    <2>1. SUFFICES ASSUME n + 1 <= N PROVE n + 1 \in I
      OBVIOUS
    <2>2. n \in 0 .. N - 1 /\ n \in I
      BY <1>2, <2>1
    <2> QED BY <2>2
  <1>3. \A n \in Nat : n \in J
    <2> HIDE DEF J
    <2> QED BY <1>1, <1>2, SetInduction
  <1> QED BY <1>3

-----------------------------------------------------------------------------
(* Priorities. *)

(* Only priorities may differ. *)
Calm(S, T) ==
    /\ SameLists(S, T) /\ SameLocks(S, T) /\ SameStock(S, T)
    /\ SameAnswers(S, T) /\ SameRest(S, T)

(* The best priority of a thread depends on few fields. *)
SameBest(S, T, t) ==
    /\ T.nominal_priority[t] = S.nominal_priority[t]
    /\ T.held_mutexes[t] = S.held_mutexes[t]
    /\ \A m \in S.held_mutexes[t] : T.priority[m] = S.priority[m]

(* The same fields give the same best priority. *)
LEMMA BestPrioritySame ==
    ASSUME NEW S, NEW T, NEW t, SameBest(S, T, t)
    PROVE  BestPriority(T, t) = BestPriority(S, t)
  <1>1. {T.priority[m] : m \in T.held_mutexes[t]} = {S.priority[m] : m \in S.held_mutexes[t]}
    <2>1. ASSUME NEW x \in {T.priority[m] : m \in T.held_mutexes[t]}
          PROVE  x \in {S.priority[m] : m \in S.held_mutexes[t]}
      BY DEF SameBest
    <2>2. ASSUME NEW x \in {S.priority[m] : m \in S.held_mutexes[t]}
          PROVE  x \in {T.priority[m] : m \in T.held_mutexes[t]}
      BY DEF SameBest
    <2> QED BY <2>1, <2>2
  <1> QED BY <1>1 DEF BestPriority, SameBest

(* The holder of a mutex is at least as urgent as the mutex. *)
LEMMA BestPriorityLeast ==
    ASSUME NEW S \in KState, NEW t \in Threads, NEW m \in S.held_mutexes[t]
    PROVE  BestPriority(S, t) <= S.priority[m]
  <1> DEFINE A == {S.nominal_priority[t]} \cup {S.priority[n] : n \in S.held_mutexes[t]}
  <1>1. A \subseteq Prio
    BY DEF KState
  <1>2. A \subseteq Nat /\ S.priority[m] \in A
    BY <1>1, PriorityAssumption DEF Prio
  <1> HIDE DEF A
  <1> QED BY <1>2, Least DEF BestPriority, A

(* The best waiter is as urgent as each of them, and is one of them. *)
LEMMA BestWaiterLeast ==
    ASSUME NEW S \in KState, NEW m \in Mutexes
    PROVE  /\ BestWaiter(S, m) \in Prio
           /\ \A w \in Elements(S.waiting_threads[m]) : BestWaiter(S, m) <= S.current_priority[w]
           /\ Elements(S.waiting_threads[m]) # {} =>
                 \E w \in Elements(S.waiting_threads[m]) : BestWaiter(S, m) = S.current_priority[w]
  <1> DEFINE W == Elements(S.waiting_threads[m])
             A == {ThreadPrioLowest} \cup {S.current_priority[w] : w \in W}
  <1>1. W \subseteq Threads
    <2>1. S.waiting_threads[m] \in Seq(Threads)
      BY DEF KState, Objects
    <2> QED BY <2>1 DEF Elements
  <1> HIDE DEF W
  <1>2. A \subseteq Prio
    BY <1>1, PriorityAssumption DEF KState, Prio
  <1>3. A \subseteq Nat /\ A # {} /\ \A w \in W : S.current_priority[w] \in A
    BY <1>2, PriorityAssumption DEF Prio
  <1>6. \A x \in A : x = ThreadPrioLowest \/ \E w \in W : x = S.current_priority[w]
    OBVIOUS
  <1> HIDE DEF A
  <1>4. Min(A) \in A /\ \A x \in A : Min(A) <= x
    BY <1>3, Least
  <1>5. BestWaiter(S, m) = Min(A)
    BY DEF BestWaiter, A, W
  <1>7. ASSUME W # {} PROVE \E w \in W : Min(A) = S.current_priority[w]
    <2>1. PICK v \in W : TRUE
      BY <1>7
    <2>2. S.current_priority[v] \in Nat /\ S.current_priority[v] <= ThreadPrioLowest
          /\ Min(A) <= S.current_priority[v] /\ ThreadPrioLowest \in Nat
      BY <1>2, <1>3, <1>4, PriorityAssumption DEF Prio
    <2>3. CASE Min(A) = ThreadPrioLowest
      <3>1. Min(A) = S.current_priority[v]
        BY <2>2, <2>3
      <3> QED BY <3>1
    <2>4. CASE Min(A) # ThreadPrioLowest
      BY <1>4, <1>6, <2>4
    <2> QED BY <2>3, <2>4
  <1> QED BY <1>2, <1>3, <1>4, <1>5, <1>7 DEF W

(* Mutex::UpdatePriority where it changes something. *)
LEMMA MutexUpdateStep ==
    ASSUME NEW S \in KState, NEW m \in Mutexes, NEW T, T = MutexUpdatePriority(S, m),
           S.holding_thread[m] # None, S.priority[m] # BestWaiter(S, m)
    PROVE  /\ T \in KState
           /\ Calm(S, T)
           /\ T.priority = [S.priority EXCEPT ![m] = BestWaiter(S, m)]
           /\ \A u \in Threads :
                 T.current_priority[u] = IF u = S.holding_thread[m] THEN BestPriority(T, u)
                                         ELSE S.current_priority[u]
  <1> DEFINE b == BestWaiter(S, m)
             h == S.holding_thread[m]
             U == [S EXCEPT !.priority[m] = BestWaiter(S, m)]
  <1>1. T = UpdatePriority(U, h)
    BY DEF MutexUpdatePriority
  <1>2. h \in Threads
    BY DEF KState
  <1>3. b \in Prio
    BY BestWaiterLeast
  <1>4. [S.priority EXCEPT ![m] = b] \in [Mutexes -> Prio]
    BY <1>3 DEF KState
  <1>5. U = [S EXCEPT !.priority = [S.priority EXCEPT ![m] = b]]
    OBVIOUS
  <1> HIDE DEF b, h, U
  <1>6. U \in KState /\ Calm(S, U) /\ U.current_priority = S.current_priority
        /\ U.priority = [S.priority EXCEPT ![m] = b]
    BY <1>4, <1>5, ZenonT(60) DEF KState, Calm, SameLists, SameLocks, SameStock, SameAnswers, SameRest
  <1>7. /\ T \in KState
        /\ T.current_priority = [U.current_priority EXCEPT ![h] = BestPriority(U, h)]
        /\ T.priority = U.priority
        /\ Calm(U, T)
    BY <1>1, <1>2, <1>6, UpdatePriorityStep DEF Calm
  <1>8. Calm(S, T)
    BY <1>6, <1>7 DEF Calm, SameLists, SameLocks, SameStock, SameAnswers, SameRest
  <1>9. BestPriority(T, h) = BestPriority(U, h)
    <2>1. SameBest(U, T, h)
      BY <1>7 DEF SameBest, Calm, SameLocks, SameRest
    <2> QED BY <2>1, BestPrioritySame
  <1>10. S.current_priority \in [Threads -> Prio]
    BY DEF KState
  <1> QED BY <1>2, <1>6, <1>7, <1>8, <1>9, <1>10 DEF b, h

(* Mutex::UpdatePriority touches priorities only. *)
LEMMA MutexUpdateFrame ==
    ASSUME NEW S \in KState, NEW m \in Mutexes, NEW T, T = MutexUpdatePriority(S, m)
    PROVE  T \in KState /\ Calm(S, T)
  <1>1. CASE S.holding_thread[m] # None /\ S.priority[m] # BestWaiter(S, m)
    BY <1>1, MutexUpdateStep
  <1>2. CASE ~(S.holding_thread[m] # None /\ S.priority[m] # BestWaiter(S, m))
    <2>1. T = S
      BY <1>2 DEF MutexUpdatePriority
    <2> QED BY <2>1 DEF Calm, SameLists, SameLocks, SameStock, SameAnswers, SameRest
  <1> QED BY <1>1, <1>2

(* It keeps priorities exact and makes that of m right. *)
LEMMA MutexUpdateKeeps ==
    ASSUME NEW S \in KState, NEW m \in Mutexes, NEW T, T = MutexUpdatePriority(S, m),
           NEW D, MutexInv(S, D), \A t \in D : S.status[t] = "Dead",
           PrioInv(S), NEW E, InheritInv(S, E)
    PROVE  PrioInv(T) /\ InheritInv(T, E \ {m})
  <1>1. CASE S.holding_thread[m] # None /\ S.priority[m] # BestWaiter(S, m)
    <2> DEFINE h == S.holding_thread[m]
    <2>1. /\ T \in KState
          /\ Calm(S, T)
          /\ T.priority = [S.priority EXCEPT ![m] = BestWaiter(S, m)]
          /\ \A u \in Threads : T.current_priority[u] = IF u = h THEN BestPriority(T, u)
                                                        ELSE S.current_priority[u]
      BY <1>1, MutexUpdateStep
    <2>2. h \in Threads /\ m \in S.held_mutexes[h]
      BY <1>1 DEF KState, MutexInv
    <2> HIDE DEF h
    <2>3. PrioInv(T)
      <3> SUFFICES ASSUME NEW u \in Threads, T.status[u] # "Dead"
                   PROVE  T.current_priority[u] = BestPriority(T, u)
        BY DEF PrioInv
      <3>1. CASE u = h
        BY <2>1, <3>1
      <3>2. CASE u # h
        <4>1. S.status[u] # "Dead"
          BY <2>1 DEF Calm, SameRest
        <4>2. m \notin S.held_mutexes[u]
          BY <3>2, <4>1 DEF MutexInv, h
        <4>3. \A n \in S.held_mutexes[u] : T.priority[n] = S.priority[n]
          BY <2>1, <4>2 DEF KState
        <4>4. BestPriority(T, u) = BestPriority(S, u)
          <5>1. SameBest(S, T, u)
            BY <2>1, <4>3 DEF SameBest, Calm, SameLocks, SameRest
          <5> QED BY <5>1, BestPrioritySame
        <4>5. S.current_priority[u] = BestPriority(S, u)
          BY <4>1 DEF PrioInv
        <4> QED BY <2>1, <3>2, <4>4, <4>5
      <3> QED BY <3>1, <3>2
    <2>4. InheritInv(T, E \ {m})
      <3>1. ASSUME NEW n \in Mutexes, NEW w \in Elements(T.waiting_threads[n]), Plain(T, w)
            PROVE  Plain(S, w) /\ T.current_priority[w] = S.current_priority[w]
        <4>1. Plain(S, w)
          BY <2>1, <3>1 DEF Calm, SameLocks, SameRest, Plain
        <4>2. w \in Threads
          <5>1. T.waiting_threads[n] \in Seq(Threads)
            BY <2>1 DEF KState, Objects
          <5> QED BY <5>1 DEF Elements
        <4> QED BY <2>1, <2>2, <4>1, <4>2 DEF Plain
      <3>2. Lends(T, m)
        <4>1. T.waiting_threads = S.waiting_threads
          BY <2>1 DEF Calm, SameLists
        <4>2. T.priority[m] = BestWaiter(S, m)
          BY <2>1 DEF KState
        <4> QED BY <3>1, <4>1, <4>2, BestWaiterLeast DEF Lends
      <3>3. ASSUME NEW n \in Mutexes \ E, n # m, T.holding_thread[n] # None PROVE Lends(T, n)
        <4>1. S.holding_thread[n] # None /\ T.waiting_threads[n] = S.waiting_threads[n]
          BY <2>1, <3>3 DEF Calm, SameLists, SameLocks
        <4>2. T.priority[n] = S.priority[n]
          BY <2>1, <3>3 DEF KState
        <4>3. Lends(S, n)
          BY <4>1 DEF InheritInv
        <4> QED BY <3>1, <4>1, <4>2, <4>3 DEF Lends
      <3> QED BY <3>2, <3>3 DEF InheritInv
    <2> QED BY <2>3, <2>4
  <1>2. CASE ~(S.holding_thread[m] # None /\ S.priority[m] # BestWaiter(S, m))
    <2>1. T = S
      BY <1>2 DEF MutexUpdatePriority
    <2>2. ASSUME S.holding_thread[m] # None PROVE Lends(S, m)
      BY <1>2, <2>2, BestWaiterLeast DEF Lends
    <2> QED BY <2>1, <2>2 DEF InheritInv
  <1> QED BY <1>1, <1>2

-----------------------------------------------------------------------------
(* Waiting lists. *)

(* A list without its first x. *)
LEMMA ErasedShape ==
    ASSUME NEW T, NEW q \in Seq(T), NEW x
    PROVE  /\ Erased(q, x) \in Seq(T)
           /\ Elements(Erased(q, x)) \subseteq Elements(q)
           /\ x \in Elements(q) => Len(Erased(q, x)) = Len(q) - 1
           /\ x \notin Elements(q) => Erased(q, x) = q
  <1>1. CASE x \notin Elements(q)
    BY <1>1 DEF Erased
  <1>2. CASE x \in Elements(q)
    <2> DEFINE A == {i \in 1 .. Len(q) : q[i] = x}
               k == Min(A)
               r == Erased(q, x)
    <2>1. A \subseteq Nat /\ A # {}
      BY <1>2 DEF Elements
    <2>2. k \in A
      BY <2>1, Least
    <2>3. r = SubSeq(q, 1, k - 1) \o SubSeq(q, k + 1, Len(q))
      BY <1>2 DEF Erased
    <2>4. k \in 1 .. Len(q)
      BY <2>2
    <2> HIDE DEF A, k, r
    <2>5. /\ r \in Seq(T)
          /\ Len(r) = Len(q) - 1
          /\ \A i \in 1 .. Len(r) : r[i] = IF i < k THEN q[i] ELSE q[i + 1]
      BY <2>3, <2>4, CutShape
    <2>6. ASSUME NEW y \in Elements(r) PROVE y \in Elements(q)
      <3>1. PICK i \in 1 .. Len(r) : y = r[i]
        BY DEF Elements
      <3>2. i \in 1 .. Len(q) /\ i + 1 \in 1 .. Len(q)
        BY <2>4, <2>5
      <3>3. y = q[i] \/ y = q[i + 1]
        BY <2>5, <3>1
      <3> QED BY <3>2, <3>3 DEF Elements
    <2> QED BY <1>2, <2>5, <2>6 DEF r
  <1> QED BY <1>1, <1>2

(* Erasing takes x out of the set that a list holds. *)
LEMMA ErasedHolds ==
    ASSUME NEW q, NEW T, NEW A, Holds(q, T, A), NEW x
    PROVE  Holds(Erased(q, x), T, A \ {x})
  <1>0. Elements(q) = A
    BY DEF Holds
  <1>1. CASE x \notin A
    <2>1. Erased(q, x) = q /\ A \ {x} = A
      BY <1>0, <1>1 DEF Erased
    <2> QED BY <2>1
  <1>2. CASE x \in A
    <2> DEFINE J == {i \in 1 .. Len(q) : q[i] = x}
               k == Min(J)
    <2>1. J \subseteq Nat /\ J # {}
      BY <1>0, <1>2 DEF Elements, Holds
    <2>2. k \in J
      BY <2>1, Least
    <2>3. Erased(q, x) = SubSeq(q, 1, k - 1) \o SubSeq(q, k + 1, Len(q))
      BY <1>0, <1>2 DEF Erased
    <2>4. k \in 1 .. Len(q) /\ q[k] = x
      BY <2>2
    <2> HIDE DEF J, k
    <2> QED BY <2>3, <2>4, CutHolds
  <1> QED BY <1>1, <1>2

(* Everything but the waiting lists and the priorities is the same. *)
Listing(S, T) ==
    /\ T.wait_objects = S.wait_objects
    /\ SameLocks(S, T) /\ SameStock(S, T) /\ SameAnswers(S, T) /\ SameRest(S, T)

(* What RemoveWaitingThread changes. *)
LEMMA RemoveStep ==
    ASSUME NEW S \in KState, NEW o \in Objects, NEW t \in Threads,
           NEW T, T = RemoveWaitingThread(S, o, t)
    PROVE  /\ T \in KState
           /\ Listing(S, T)
           /\ T.waiting_threads = [S.waiting_threads EXCEPT ![o] = Erased(S.waiting_threads[o], t)]
           /\ \A u \in Threads :
                 T.pending_mutexes[u] = S.pending_mutexes[u] \ (IF u = t THEN {o} ELSE {})
  <1> DEFINE q == Erased(S.waiting_threads[o], t)
             R == [S EXCEPT !.waiting_threads = [S.waiting_threads EXCEPT ![o] = q]]
             P == [R EXCEPT !.pending_mutexes = [S.pending_mutexes EXCEPT ![t] = @ \ {o}]]
  <1>1. q \in Seq(Threads)
    BY ErasedShape DEF KState
  <1>2. T = IF o \in Mutexes THEN MutexUpdatePriority(P, o) ELSE R
    BY DEF RemoveWaitingThread
  <1>3. [S.waiting_threads EXCEPT ![o] = q] \in [Objects -> Seq(Threads)]
    BY <1>1 DEF KState
  <1> HIDE DEF q
  <1>4. R \in KState /\ Listing(S, R) /\ R.pending_mutexes = S.pending_mutexes
        /\ R.waiting_threads = [S.waiting_threads EXCEPT ![o] = q]
    BY <1>3, ZenonT(60) DEF KState, Listing, SameLocks, SameStock, SameAnswers, SameRest
  <1>5. [S.pending_mutexes EXCEPT ![t] = @ \ {o}] \in [Threads -> SUBSET Mutexes]
    BY DEF KState
  <1>6. S.pending_mutexes \in [Threads -> SUBSET Mutexes]
    BY DEF KState
  <1> HIDE DEF R
  <1>7. P \in KState /\ Listing(S, P)
        /\ P.pending_mutexes = [S.pending_mutexes EXCEPT ![t] = @ \ {o}]
        /\ P.waiting_threads = [S.waiting_threads EXCEPT ![o] = q]
    BY <1>4, <1>5, ZenonT(60) DEF KState, Listing, SameLocks, SameStock, SameAnswers, SameRest
  <1> HIDE DEF P
  <1>8. CASE o \in Mutexes
    <2>1. T \in KState /\ Calm(P, T)
      BY <1>2, <1>7, <1>8, MutexUpdateFrame
    <2> QED BY <1>6, <1>7, <2>1 DEF q, Calm, Listing, SameLists, SameLocks, SameStock, SameAnswers, SameRest
  <1>9. CASE o \notin Mutexes
    BY <1>2, <1>4, <1>6, <1>9 DEF q
  <1> QED BY <1>8, <1>9

(* A waiter that leaves keeps priorities exact and that of o right. *)
LEMMA RemoveKeeps ==
    ASSUME NEW S \in KState, NEW o \in Objects, NEW t \in Threads,
           NEW T, T = RemoveWaitingThread(S, o, t),
           NEW D, MutexInv(S, D), \A u \in D : S.status[u] = "Dead",
           PrioInv(S), NEW E, InheritInv(S, E)
    PROVE  PrioInv(T) /\ InheritInv(T, E \ {o})
  <1> DEFINE q == Erased(S.waiting_threads[o], t)
             R == [S EXCEPT !.waiting_threads = [S.waiting_threads EXCEPT ![o] = q]]
             P == [R EXCEPT !.pending_mutexes = [S.pending_mutexes EXCEPT ![t] = @ \ {o}]]
  <1>1. q \in Seq(Threads) /\ Elements(q) \subseteq Elements(S.waiting_threads[o])
    BY ErasedShape DEF KState
  <1>2. T = IF o \in Mutexes THEN MutexUpdatePriority(P, o) ELSE R
    BY DEF RemoveWaitingThread
  <1>3. [S.waiting_threads EXCEPT ![o] = q] \in [Objects -> Seq(Threads)]
    BY <1>1 DEF KState
  <1> HIDE DEF q
  <1>4. R \in KState /\ Listing(S, R)
        /\ R.priority = S.priority /\ R.current_priority = S.current_priority
        /\ R.waiting_threads = [S.waiting_threads EXCEPT ![o] = q]
    BY <1>3, ZenonT(60) DEF KState, Listing, SameLocks, SameStock, SameAnswers, SameRest
  <1>5. [S.pending_mutexes EXCEPT ![t] = @ \ {o}] \in [Threads -> SUBSET Mutexes]
    BY DEF KState
  <1> HIDE DEF R
  <1>7. P \in KState /\ Listing(S, P)
        /\ P.priority = S.priority /\ P.current_priority = S.current_priority
        /\ P.waiting_threads = [S.waiting_threads EXCEPT ![o] = q]
    BY <1>4, <1>5, ZenonT(60) DEF KState, Listing, SameLocks, SameStock, SameAnswers, SameRest
  <1> HIDE DEF P
  <1>8. S.waiting_threads \in [Objects -> Seq(Threads)]
    BY DEF KState
  <1>9. ASSUME NEW U \in KState, Listing(S, U),
               U.priority = S.priority, U.current_priority = S.current_priority,
               U.waiting_threads = [S.waiting_threads EXCEPT ![o] = q]
        PROVE  /\ MutexInv(U, D) /\ (\A u \in D : U.status[u] = "Dead") /\ PrioInv(U)
               /\ InheritInv(U, E \cup {o})
    <2>1. MutexInv(U, D) /\ \A u \in D : U.status[u] = "Dead"
      BY <1>9 DEF Listing, SameLocks, SameRest, MutexInv
    <2>2. PrioInv(U)
      BY <1>9 DEF Listing, SameLocks, SameRest, PrioInv, BestPriority
    <2>3. \A m \in Mutexes \ {o} : U.waiting_threads[m] = S.waiting_threads[m]
      BY <1>8, <1>9 DEF Objects
    <2>4. \A m \in Mutexes \ (E \cup {o}) :
              U.holding_thread[m] # None => m \notin E /\ Unmoved(S, U, m)
      BY <1>9, <2>3 DEF Listing, SameLocks, SameRest, Unmoved, Plain
    <2>5. InheritInv(U, E \cup {o})
      BY <2>4, InheritKept
    <2> QED BY <2>1, <2>2, <2>5
  <1>10. CASE o \in Mutexes
    <2>1. /\ MutexInv(P, D) /\ (\A u \in D : P.status[u] = "Dead") /\ PrioInv(P)
          /\ InheritInv(P, E \cup {o})
      BY <1>7, <1>9
    <2>2. PrioInv(T) /\ InheritInv(T, (E \cup {o}) \ {o})
      BY <1>2, <1>7, <1>10, <2>1, MutexUpdateKeeps
    <2> QED BY <2>2 DEF InheritInv
  <1>11. CASE o \notin Mutexes
    <2>1. PrioInv(T) /\ InheritInv(T, E \cup {o})
      BY <1>2, <1>4, <1>9, <1>11
    <2> QED BY <1>11, <2>1 DEF InheritInv
  <1> QED BY <1>10, <1>11

(* AddWaitingThread stays among the states. *)
LEMMA AddType ==
    ASSUME NEW S \in KState, NEW o \in Objects, NEW t \in Threads
    PROVE  AddWaitingThread(S, o, t) \in KState
  <1> DEFINE q == Append(S.waiting_threads[o], t)
             R == IF t \in Elements(S.waiting_threads[o]) THEN S
                  ELSE [S EXCEPT !.waiting_threads = [S.waiting_threads EXCEPT ![o] = q]]
             P == [R EXCEPT !.pending_mutexes[t] = @ \cup {o}]
  <1>1. [S.waiting_threads EXCEPT ![o] = q] \in [Objects -> Seq(Threads)]
    BY DEF KState
  <1> HIDE DEF q
  <1>2. R \in KState
    BY <1>1 DEF KState
  <1>3. AddWaitingThread(S, o, t) = IF o \in Mutexes THEN MutexUpdatePriority(P, o) ELSE R
    BY DEF AddWaitingThread, q
  <1> HIDE DEF R
  <1>4. CASE o \in Mutexes
    <2>1. [R.pending_mutexes EXCEPT ![t] = @ \cup {o}] \in [Threads -> SUBSET Mutexes]
      BY <1>2, <1>4 DEF KState
    <2>2. P \in KState
      BY <1>2, <2>1 DEF KState
    <2> HIDE DEF P
    <2> QED BY <1>3, <1>4, <2>2, MutexUpdateFrame
  <1>5. CASE o \notin Mutexes
    BY <1>2, <1>3, <1>5
  <1> QED BY <1>4, <1>5

(* A thread that is not in the list of o joins it at the end. *)
LEMMA AddStep ==
    ASSUME NEW S \in KState, NEW o \in Objects, NEW t \in Threads,
           NEW T, T = AddWaitingThread(S, o, t), t \notin Elements(S.waiting_threads[o]),
           NEW D, MutexInv(S, D), \A u \in D : S.status[u] = "Dead",
           PrioInv(S), InheritInv(S, {})
    PROVE  /\ T \in KState
           /\ Listing(S, T)
           /\ T.waiting_threads = [S.waiting_threads EXCEPT ![o] = Append(S.waiting_threads[o], t)]
           /\ \A u \in Threads :
                 T.pending_mutexes[u] =
                     S.pending_mutexes[u] \cup (IF u = t THEN {o} \cap Mutexes ELSE {})
           /\ PrioInv(T)
           /\ InheritInv(T, {})
  <1> DEFINE q == Append(S.waiting_threads[o], t)
             R == [S EXCEPT !.waiting_threads = [S.waiting_threads EXCEPT ![o] = q]]
             P == [R EXCEPT !.pending_mutexes = [S.pending_mutexes EXCEPT ![t] = @ \cup {o}]]
  <1>1. [S.waiting_threads EXCEPT ![o] = q] \in [Objects -> Seq(Threads)]
    BY DEF KState
  <1>2. T = IF o \in Mutexes THEN MutexUpdatePriority(P, o) ELSE R
    BY DEF AddWaitingThread
  <1> HIDE DEF q
  <1>3. R \in KState /\ Listing(S, R) /\ R.pending_mutexes = S.pending_mutexes
        /\ R.priority = S.priority /\ R.current_priority = S.current_priority
        /\ R.waiting_threads = [S.waiting_threads EXCEPT ![o] = q]
    BY <1>1, ZenonT(60) DEF KState, Listing, SameLocks, SameStock, SameAnswers, SameRest
  <1>4. S.waiting_threads \in [Objects -> Seq(Threads)]
        /\ S.pending_mutexes \in [Threads -> SUBSET Mutexes]
    BY DEF KState
  <1> HIDE DEF R
  <1>5. ASSUME NEW U \in KState, Listing(S, U),
               U.priority = S.priority, U.current_priority = S.current_priority,
               U.waiting_threads = [S.waiting_threads EXCEPT ![o] = q]
        PROVE  MutexInv(U, D) /\ (\A u \in D : U.status[u] = "Dead") /\ PrioInv(U) /\ InheritInv(U, {o})
    <2>1. MutexInv(U, D) /\ \A u \in D : U.status[u] = "Dead"
      BY <1>5 DEF Listing, SameLocks, SameRest, MutexInv
    <2>2. PrioInv(U)
      BY <1>5 DEF Listing, SameLocks, SameRest, PrioInv, BestPriority
    <2>3. \A m \in Mutexes \ {o} : U.waiting_threads[m] = S.waiting_threads[m]
      BY <1>4, <1>5 DEF Objects
    <2>4. InheritInv(U, {o})
      BY <1>5, <2>3 DEF Listing, SameLocks, SameRest, InheritInv, Lends, Plain
    <2> QED BY <2>1, <2>2, <2>4
  <1>6. CASE o \in Mutexes
    <2>1. [S.pending_mutexes EXCEPT ![t] = @ \cup {o}] \in [Threads -> SUBSET Mutexes]
      BY <1>4, <1>6
    <2>2. P \in KState /\ Listing(S, P)
          /\ P.priority = S.priority /\ P.current_priority = S.current_priority
          /\ P.pending_mutexes = [S.pending_mutexes EXCEPT ![t] = @ \cup {o}]
          /\ P.waiting_threads = [S.waiting_threads EXCEPT ![o] = q]
      BY <1>3, <2>1, ZenonT(60) DEF KState, Listing, SameLocks, SameStock, SameAnswers, SameRest
    <2> HIDE DEF P
    <2>3. T \in KState /\ Calm(P, T)
      BY <1>2, <1>6, <2>2, MutexUpdateFrame
    <2>4. MutexInv(P, D) /\ (\A u \in D : P.status[u] = "Dead") /\ PrioInv(P) /\ InheritInv(P, {o})
      BY <1>5, <2>2
    <2>5. PrioInv(T) /\ InheritInv(T, {o} \ {o})
      BY <1>2, <1>6, <2>2, <2>4, MutexUpdateKeeps
    <2>6. Listing(S, T) /\ T.waiting_threads = P.waiting_threads /\ T.pending_mutexes = P.pending_mutexes
      BY <2>2, <2>3 DEF Calm, Listing, SameLists, SameLocks, SameStock, SameAnswers, SameRest
    <2>7. ASSUME NEW u \in Threads
          PROVE  T.pending_mutexes[u] =
                     S.pending_mutexes[u] \cup (IF u = t THEN {o} \cap Mutexes ELSE {})
      BY <1>4, <1>6, <2>2, <2>6
    <2>8. {o} \ {o} = {}
      OBVIOUS
    <2> QED BY <2>2, <2>3, <2>5, <2>6, <2>7, <2>8 DEF q
  <1>7. CASE o \notin Mutexes
    <2>1. T = R
      BY <1>2, <1>7
    <2>2. PrioInv(T) /\ InheritInv(T, {o})
      BY <1>3, <1>5, <2>1
    <2>3. InheritInv(T, {})
      BY <1>7, <2>2 DEF InheritInv, Lends, Plain
    <2>4. ASSUME NEW u \in Threads
          PROVE  T.pending_mutexes[u] =
                     S.pending_mutexes[u] \cup (IF u = t THEN {o} \cap Mutexes ELSE {})
      BY <1>3, <1>4, <1>7, <2>1
    <2> QED BY <1>3, <2>1, <2>2, <2>3, <2>4 DEF q
  <1> QED BY <1>6, <1>7

(* The loop of LeaveWaitObjects. *)
LeaveSteps(f, S, t) ==
    f = [i \in 0 .. Len(S.wait_objects[t]) |->
            IF i = 0 THEN S ELSE RemoveWaitingThread(f[i - 1], S.wait_objects[t][i], t)]

(* LeaveWaitObjects as a sequence of removals. *)
LEMMA LeaveLoop ==
    ASSUME NEW S \in KState, NEW t \in Threads
    PROVE  \E f : /\ f[0] = S
                  /\ \A i \in 1 .. Len(S.wait_objects[t]) :
                        f[i] = RemoveWaitingThread(f[i - 1], S.wait_objects[t][i], t)
                  /\ \A i \in 0 .. Len(S.wait_objects[t]) : f[i] \in KState
                  /\ LeaveWaitObjects(S, t)
                         = [f[Len(S.wait_objects[t])] EXCEPT !.wait_objects[t] = << >>]
  <1> DEFINE q == S.wait_objects[t]
             N == Len(q)
             g == [i \in 1 .. N |-> [x \in KState |-> RemoveWaitingThread(x, q[i], t)]]
  <1>1. q \in Seq(Objects) /\ N \in Nat /\ \A i \in 1 .. N : q[i] \in Objects
    BY DEF KState
  <1>2. \A i \in 1 .. N : \A x \in KState : g[i][x] = RemoveWaitingThread(x, q[i], t)
    BY Zenon
  <1>3. \A i \in 1 .. N : \A x \in KState : g[i][x] \in KState
    BY <1>1, <1>2, RemoveStep
  <1> HIDE DEF g, N, q
  <1>4. PICK h : LoopOf(h, g, N, S, KState)
    BY <1>1, <1>3, LoopExists
  <1>5. LeaveSteps(h, S, t)
    <2>1. ASSUME NEW i \in 1 .. N PROVE g[i][h[i - 1]] = RemoveWaitingThread(h[i - 1], q[i], t)
      <3>1. h[i - 1] \in KState
        BY <1>1, <1>4 DEF LoopOf
      <3> QED BY <1>2, <3>1
    <2>2. \A i \in 0 .. N : i # 0 => i \in 1 .. N
      BY <1>1
    <2>3. h = [i \in 0 .. N |-> IF i = 0 THEN S ELSE RemoveWaitingThread(h[i - 1], q[i], t)]
      BY <1>4, <2>1, <2>2 DEF LoopOf
    <2> QED BY <2>3 DEF LeaveSteps, N, q
  <1>6. PICK f : LeaveSteps(f, S, t) /\ LeaveWaitObjects(S, t) = [f[N] EXCEPT !.wait_objects[t] = << >>]
    BY <1>5, Zenon DEF LeaveSteps, LeaveWaitObjects, N, q
  <1>7. \A i \in 0 .. N : f[i] = IF i = 0 THEN S ELSE RemoveWaitingThread(f[i - 1], q[i], t)
    BY <1>6, Zenon DEF LeaveSteps, N, q
  <1>8. f[0] = S /\ \A i \in 1 .. N : f[i] = RemoveWaitingThread(f[i - 1], q[i], t)
    BY <1>1, <1>7
  <1>9. \A i \in 0 .. N : f[i] \in KState
    <2> DEFINE I == {n \in 0 .. N : f[n] \in KState}
    <2>1. 0 \in I
      BY <1>1, <1>8
    <2>2. ASSUME NEW n \in 0 .. N - 1, n \in I PROVE n + 1 \in I
      <3>1. n + 1 \in 1 .. N /\ n + 1 \in 0 .. N /\ (n + 1) - 1 = n
        BY <1>1
      <3>2. f[n + 1] = RemoveWaitingThread(f[n], q[n + 1], t)
        BY <1>8, <3>1
      <3>3. f[n] \in KState /\ q[n + 1] \in Objects
        BY <1>1, <2>2, <3>1
      <3>4. RemoveWaitingThread(f[n], q[n + 1], t) \in KState
        BY <3>3, RemoveStep
      <3> QED BY <3>1, <3>2, <3>4
    <2> HIDE DEF I
    <2>3. \A n \in 0 .. N : n \in I
      BY <1>1, <2>1, <2>2, LoopInduction
    <2> QED BY <2>3 DEF I
  <1> QED BY <1>6, <1>8, <1>9 DEF N, q

(* LeaveWaitObjects stays among the states. *)
LEMMA LeaveType ==
    ASSUME NEW S \in KState, NEW t \in Threads
    PROVE  LeaveWaitObjects(S, t) \in KState
  <1> DEFINE N == Len(S.wait_objects[t])
  <1>1. N \in 0 .. N
    BY DEF KState
  <1>2. PICK f : /\ \A i \in 0 .. N : f[i] \in KState
                 /\ LeaveWaitObjects(S, t) = [f[N] EXCEPT !.wait_objects[t] = << >>]
    BY LeaveLoop
  <1>3. PICK x : x = f[N]
    OBVIOUS
  <1>4. x \in KState
    BY <1>1, <1>2, <1>3
  <1>5. [x.wait_objects EXCEPT ![t] = << >>] \in [Threads -> Seq(Objects)]
    BY <1>4 DEF KState
  <1>6. LeaveWaitObjects(S, t) = [x EXCEPT !.wait_objects = [x.wait_objects EXCEPT ![t] = << >>]]
    BY <1>2, <1>3
  <1> QED BY <1>4, <1>5, <1>6 DEF KState

(* The elements of q up to position n. *)
First(q, n) == {q[i] : i \in 1 .. n}

(* One more element of q. *)
LEMMA FirstStep ==
    ASSUME NEW A, NEW q \in Seq(A), NEW n \in 0 .. Len(q) - 1
    PROVE  /\ First(q, n + 1) = First(q, n) \cup {q[n + 1]}
           /\ q[n + 1] \in A /\ q[n + 1] \in Elements(q)
           /\ (\A i, j \in 1 .. Len(q) : q[i] = q[j] => i = j) => q[n + 1] \notin First(q, n)
  <1>1. Len(q) \in Nat /\ n + 1 \in 1 .. Len(q)
    OBVIOUS
  <1>2. First(q, n + 1) \subseteq First(q, n) \cup {q[n + 1]}
    BY <1>1 DEF First
  <1>3. First(q, n) \cup {q[n + 1]} \subseteq First(q, n + 1)
    BY <1>1 DEF First
  <1>4. q[n + 1] \in A /\ q[n + 1] \in Elements(q)
    BY <1>1 DEF Elements
  <1>5. ASSUME \A i, j \in 1 .. Len(q) : q[i] = q[j] => i = j
        PROVE  q[n + 1] \notin First(q, n)
    BY <1>1, <1>5 DEF First
  <1> QED BY <1>2, <1>3, <1>4, <1>5

(* T comes from S when t leaves the lists it is in. *)
HasLeft(S, T, t, E) ==
    /\ T \in KState
    /\ T.wait_objects = [S.wait_objects EXCEPT ![t] = << >>]
    /\ SameLocks(S, T) /\ SameStock(S, T) /\ SameAnswers(S, T) /\ SameRest(S, T)
    /\ ListInv(T)
    /\ PrioInv(T)
    /\ InheritInv(T, E \ Elements(S.wait_objects[t]))
    /\ \A o \in Elements(S.wait_objects[t]) :
          Len(T.waiting_threads[o]) = Len(S.waiting_threads[o]) - 1

AllDead(S, D) == \A u \in D : S.status[u] = "Dead"

(* A thread leaves every list it is in, and only the order of the others    *)
(* in them, their priorities and those of the mutexes remain to be seen.    *)
LEMMA LeaveKeeps ==
    ASSUME NEW S \in KState, NEW t \in Threads, NEW T, T = LeaveWaitObjects(S, t),
           ListInv(S), NEW D, MutexInv(S, D), AllDead(S, D),
           PrioInv(S), NEW E, InheritInv(S, E)
    PROVE  HasLeft(S, T, t, E)
  <1> DEFINE q == S.wait_objects[t]
             N == Len(q)
  <1>1. q \in Seq(Objects) /\ N \in Nat
    BY DEF KState
  <1>2. \A i, j \in 1 .. N : q[i] = q[j] => i = j
    BY DEF ListInv
  <1>3. S.waiting_threads \in [Objects -> Seq(Threads)] /\ S.pending_mutexes \in [Threads -> SUBSET Mutexes]
        /\ S.wait_objects \in [Threads -> Seq(Objects)]
    BY DEF KState
  <1>4. PICK f : /\ f[0] = S
                 /\ \A i \in 1 .. N : f[i] = RemoveWaitingThread(f[i - 1], q[i], t)
                 /\ \A i \in 0 .. N : f[i] \in KState
                 /\ LeaveWaitObjects(S, t) = [f[N] EXCEPT !.wait_objects[t] = << >>]
    BY LeaveLoop
  <1> DEFINE Left(x, n) ==
                /\ Listing(S, x)
                /\ \A o \in Objects :
                      x.waiting_threads[o] = IF o \in First(q, n)
                                             THEN Erased(S.waiting_threads[o], t)
                                             ELSE S.waiting_threads[o]
                /\ \A u \in Threads :
                      x.pending_mutexes[u] = S.pending_mutexes[u] \ (IF u = t THEN First(q, n) ELSE {})
                /\ PrioInv(x)
                /\ InheritInv(x, E \ First(q, n))
             I == {n \in 0 .. N : Left(f[n], n)}
  <1>5. 0 \in I
    <2>1. First(q, 0) = {}
      BY DEF First
    <2>2. Left(S, 0)
      BY <2>1 DEF Listing, SameLocks, SameStock, SameAnswers, SameRest
    <2> QED BY <1>1, <1>4, <2>2
  <1>6. ASSUME NEW n \in 0 .. N - 1, n \in I PROVE n + 1 \in I
    <2>1. n + 1 \in 1 .. N /\ n + 1 \in 0 .. N /\ (n + 1) - 1 = n /\ n \in 0 .. N
      BY <1>1
    <2>2. PICK x : x = f[n]
      OBVIOUS
    <2>3. PICK y : y = f[n + 1]
      OBVIOUS
    <2>4. PICK o : o = q[n + 1]
      OBVIOUS
    <2>5. y = RemoveWaitingThread(x, o, t) /\ x \in KState
      BY <1>4, <2>1, <2>2, <2>3, <2>4
    <2>6. Left(x, n)
      BY <1>6, <2>2
    <2>7. First(q, n + 1) = First(q, n) \cup {o} /\ o \in Objects /\ o \notin First(q, n)
      BY <1>1, <1>2, <2>4, FirstStep
    <2>8. /\ y \in KState
          /\ Listing(x, y)
          /\ y.waiting_threads = [x.waiting_threads EXCEPT ![o] = Erased(x.waiting_threads[o], t)]
          /\ \A u \in Threads : y.pending_mutexes[u] = x.pending_mutexes[u] \ (IF u = t THEN {o} ELSE {})
      BY <2>5, <2>7, RemoveStep
    <2>9. MutexInv(x, D) /\ \A u \in D : x.status[u] = "Dead"
      BY <2>6 DEF Listing, SameLocks, SameRest, MutexInv, AllDead
    <2>10. PrioInv(y) /\ InheritInv(y, (E \ First(q, n)) \ {o})
      <3>1. PrioInv(x) /\ InheritInv(x, E \ First(q, n))
        BY <2>6
      <3>2. PICK F : F = E \ First(q, n)
        OBVIOUS
      <3>3. x \in KState /\ o \in Objects /\ y = RemoveWaitingThread(x, o, t) /\ InheritInv(x, F)
        BY <2>5, <2>7, <3>1, <3>2
      <3> HIDE DEF Left, I
      <3>4. PrioInv(y) /\ InheritInv(y, F \ {o})
        BY <2>9, <3>1, <3>3, RemoveKeeps
      <3> QED BY <3>2, <3>4
    <2>11. (E \ First(q, n)) \ {o} = E \ First(q, n + 1)
      BY <2>7
    <2>12. x.waiting_threads \in [Objects -> Seq(Threads)]
      BY <2>5 DEF KState
    <2>13. ASSUME NEW p \in Objects
           PROVE  y.waiting_threads[p] = IF p \in First(q, n + 1)
                                         THEN Erased(S.waiting_threads[p], t)
                                         ELSE S.waiting_threads[p]
      BY <2>6, <2>7, <2>8, <2>12
    <2>14. ASSUME NEW u \in Threads
           PROVE  y.pending_mutexes[u] = S.pending_mutexes[u] \ (IF u = t THEN First(q, n + 1) ELSE {})
      BY <2>6, <2>7, <2>8
    <2>15. Listing(S, y)
      BY <2>6, <2>8 DEF Listing, SameLocks, SameStock, SameAnswers, SameRest
    <2>16. Left(y, n + 1)
      BY <2>10, <2>11, <2>13, <2>14, <2>15
    <2> QED BY <2>1, <2>3, <2>16
  <1>7. \A n \in 0 .. N : n \in I
    <2> HIDE DEF I
    <2> QED BY <1>1, <1>5, <1>6, LoopInduction
  <1>8. PICK x : x = f[N]
    OBVIOUS
  <1>9. Left(x, N) /\ x \in KState
    <2>1. N \in 0 .. N
      BY <1>1
    <2>2. x \in KState
      BY <1>4, <1>8, <2>1
    <2>3. N \in I
      BY <1>7, <2>1
    <2> HIDE DEF Left
    <2> QED BY <1>8, <2>2, <2>3
  <1>10. First(q, N) = Elements(q)
    BY DEF First, Elements
  <1>11. T = [x EXCEPT !.wait_objects = [x.wait_objects EXCEPT ![t] = << >>]]
    BY <1>4, <1>8
  <1> HIDE DEF N
  <1>12. /\ T \in KState
         /\ T.wait_objects = [S.wait_objects EXCEPT ![t] = << >>]
         /\ T.waiting_threads = x.waiting_threads /\ T.pending_mutexes = x.pending_mutexes
         /\ T.priority = x.priority /\ T.current_priority = x.current_priority
         /\ SameLocks(x, T) /\ SameStock(x, T) /\ SameAnswers(x, T) /\ SameRest(x, T)
    <2>1. x.wait_objects = S.wait_objects
      BY <1>9 DEF Listing
    <2>2. [S.wait_objects EXCEPT ![t] = << >>] \in [Threads -> Seq(Objects)]
      BY <1>3
    <2>3. x \in KState
      BY <1>9
    <2>4. PICK w : w = [S.wait_objects EXCEPT ![t] = << >>]
      OBVIOUS
    <2>5. T = [x EXCEPT !.wait_objects = w] /\ w \in [Threads -> Seq(Objects)]
      BY <1>11, <2>1, <2>2, <2>4
    <2> HIDE DEF Left, I, q
    <2>6. /\ T \in KState /\ T.wait_objects = w
          /\ T.waiting_threads = x.waiting_threads /\ T.pending_mutexes = x.pending_mutexes
          /\ T.priority = x.priority /\ T.current_priority = x.current_priority
          /\ SameLocks(x, T) /\ SameStock(x, T) /\ SameAnswers(x, T) /\ SameRest(x, T)
      BY <2>3, <2>5, ZenonT(60) DEF KState, SameLocks, SameStock, SameAnswers, SameRest
    <2> QED BY <2>4, <2>6
  <1>13. SameLocks(S, T) /\ SameStock(S, T) /\ SameAnswers(S, T) /\ SameRest(S, T)
    BY <1>9, <1>12 DEF Listing, SameLocks, SameStock, SameAnswers, SameRest
  <1>14. PrioInv(T) /\ InheritInv(T, E \ Elements(q))
    <2>1. PrioInv(x) /\ InheritInv(x, E \ Elements(q))
      BY <1>9, <1>10
    <2>2. PrioInv(T)
      BY <1>12, <2>1 DEF SameLocks, SameRest, PrioInv, BestPriority
    <2>3. \A m \in Mutexes : T.holding_thread[m] # None => Unmoved(x, T, m)
      BY <1>12 DEF SameLocks, SameRest, Unmoved, Plain
    <2>4. InheritInv(T, E \ Elements(q))
      BY <2>1, <2>3, InheritKept
    <2> QED BY <2>2, <2>4
  <1>15. ASSUME NEW o \in Objects
         PROVE  Holds(T.waiting_threads[o], Threads, Waiters(T, o))
    <2>1. Holds(S.waiting_threads[o], Threads, Waiters(S, o))
      BY DEF ListInv
    <2>2. Waiters(T, o) = Waiters(S, o) \ {t}
      <3>1. ASSUME NEW u \in Threads
            PROVE  T.wait_objects[u] = IF u = t THEN << >> ELSE S.wait_objects[u]
        BY <1>3, <1>12
      <3>2. Elements(<< >>) = {}
        BY DEF Elements
      <3> QED BY <3>1, <3>2 DEF Waiters
    <2>3. CASE o \in Elements(q)
      <3>1. T.waiting_threads[o] = Erased(S.waiting_threads[o], t)
        BY <1>9, <1>10, <1>12, <2>3
      <3> QED BY <2>1, <2>2, <3>1, ErasedHolds
    <2>4. CASE o \notin Elements(q)
      <3>1. T.waiting_threads[o] = S.waiting_threads[o]
        BY <1>9, <1>10, <1>12, <2>4
      <3>2. Waiters(S, o) \ {t} = Waiters(S, o)
        BY <2>4 DEF Waiters
      <3> QED BY <2>1, <2>2, <3>1, <3>2
    <2> QED BY <2>3, <2>4
  <1>16. ListInv(T)
    <2> SUFFICES ASSUME NEW u \in Threads
                 PROVE  /\ \A i, j \in 1 .. Len(T.wait_objects[u]) :
                              T.wait_objects[u][i] = T.wait_objects[u][j] => i = j
                        /\ u \notin Elements(T.wait_objects[u])
                        /\ T.pending_mutexes[u] = Elements(T.wait_objects[u]) \cap Mutexes
      BY <1>15 DEF ListInv
    <2>1. T.wait_objects[u] = IF u = t THEN << >> ELSE S.wait_objects[u]
      BY <1>3, <1>12
    <2>2. T.pending_mutexes[u] = S.pending_mutexes[u] \ (IF u = t THEN Elements(q) ELSE {})
      BY <1>9, <1>10, <1>12
    <2>3. /\ \A i, j \in 1 .. Len(S.wait_objects[u]) :
                S.wait_objects[u][i] = S.wait_objects[u][j] => i = j
          /\ u \notin Elements(S.wait_objects[u])
          /\ S.pending_mutexes[u] = Elements(S.wait_objects[u]) \cap Mutexes
      BY DEF ListInv
    <2>4. CASE u = t
      <3>1. Elements(<< >>) = {} /\ Len(<< >>) = 0
        BY DEF Elements
      <3>2. T.pending_mutexes[u] = {}
        BY <2>2, <2>3, <2>4
      <3> QED BY <2>1, <2>4, <3>1, <3>2
    <2>5. CASE u # t
      BY <2>1, <2>2, <2>3, <2>5
    <2> QED BY <2>4, <2>5
  <1>17. ASSUME NEW o \in Elements(q)
         PROVE  Len(T.waiting_threads[o]) = Len(S.waiting_threads[o]) - 1
    <2>1. o \in Objects
      BY <1>1 DEF Elements
    <2>2. T.waiting_threads[o] = Erased(S.waiting_threads[o], t)
      BY <1>9, <1>10, <1>12, <2>1
    <2>3. t \in Elements(S.waiting_threads[o])
      BY <2>1 DEF ListInv, Holds, Waiters
    <2>4. S.waiting_threads[o] \in Seq(Threads)
      BY <1>3, <2>1
    <2> QED BY <2>2, <2>3, <2>4, ErasedShape
  <1> QED BY <1>12, <1>13, <1>14, <1>16, <1>17 DEF HasLeft

-----------------------------------------------------------------------------
(* Acquiring. *)

(* A state in which an assertion fails is a state. *)
LEMMA FailType ==
    ASSUME NEW S \in KState, NEW text \in Assertions
    PROVE  [S EXCEPT !.failed = @ \cup {text}] \in KState
  <1>1. PICK F : F = S.failed \cup {text}
    OBVIOUS
  <1>2. S.failed \in SUBSET Assertions
    BY DEF KState
  <1>3. F \in SUBSET Assertions
    BY <1>1, <1>2, Zenon
  <1>4. [S EXCEPT !.failed = F] \in KState
    BY <1>3 DEF KState
  <1> QED BY <1>1, <1>4

(* What taking a free mutex changes. *)
LEMMA TakeMutexStep ==
    ASSUME NEW S \in KState, NEW m \in Mutexes, NEW t \in Threads, NEW T, T = TakeMutex(S, m, t)
    PROVE  /\ T \in KState
           /\ SameLists(S, T) /\ SameStock(S, T) /\ SameAnswers(S, T) /\ SameRest(S, T)
           /\ T.lock_count = S.lock_count
           /\ T.priority = [S.priority EXCEPT ![m] = S.current_priority[t]]
           /\ T.holding_thread = [S.holding_thread EXCEPT ![m] = t]
           /\ T.held_mutexes = [S.held_mutexes EXCEPT ![t] = @ \cup {m}]
           /\ T.current_priority = [S.current_priority EXCEPT ![t] = BestPriority(T, t)]
  <1> DEFINE p == [S.priority EXCEPT ![m] = S.current_priority[t]]
             h == [S.holding_thread EXCEPT ![m] = t]
             l == [S.held_mutexes EXCEPT ![t] = @ \cup {m}]
             U == [S EXCEPT !.priority[m] = S.current_priority[t],
                            !.holding_thread[m] = t,
                            !.held_mutexes[t] = @ \cup {m}]
             V == [S EXCEPT !.priority = p, !.holding_thread = h, !.held_mutexes = l]
  <1>1. p \in [Mutexes -> Prio] /\ h \in [Mutexes -> Threads \cup {None}]
        /\ l \in [Threads -> SUBSET Mutexes]
    BY DEF KState
  <1>2. U = V
    OBVIOUS
  <1>3. T = UpdatePriority(V, t)
    BY <1>2 DEF TakeMutex
  <1> HIDE DEF p, h, l, U
  <1>4. /\ V \in KState
        /\ SameLists(S, V) /\ SameStock(S, V) /\ SameAnswers(S, V) /\ SameRest(S, V)
        /\ V.lock_count = S.lock_count /\ V.current_priority = S.current_priority
        /\ V.priority = p /\ V.holding_thread = h /\ V.held_mutexes = l
    BY <1>1, ZenonT(60) DEF KState, SameLists, SameStock, SameAnswers, SameRest
  <1> HIDE DEF V
  <1>5. /\ T \in KState
        /\ T.current_priority = [V.current_priority EXCEPT ![t] = BestPriority(V, t)]
        /\ T.priority = V.priority
        /\ Calm(V, T)
    BY <1>3, <1>4, UpdatePriorityStep DEF Calm
  <1>6. BestPriority(T, t) = BestPriority(V, t)
    <2>1. SameBest(V, T, t)
      BY <1>5 DEF SameBest, Calm, SameLocks, SameRest
    <2> QED BY <2>1, BestPrioritySame
  <1>7. /\ SameLists(S, T) /\ SameStock(S, T) /\ SameAnswers(S, T) /\ SameRest(S, T)
        /\ T.lock_count = S.lock_count
        /\ T.priority = p /\ T.holding_thread = h /\ T.held_mutexes = l
    BY <1>4, <1>5 DEF Calm, SameLists, SameLocks, SameStock, SameAnswers, SameRest
  <1>8. T.current_priority = [S.current_priority EXCEPT ![t] = BestPriority(T, t)]
    BY <1>4, <1>5, <1>6
  <1> QED BY <1>5, <1>7, <1>8 DEF p, h, l

(* The last line of Mutex::Acquire. *)
CountLock(S, m) == [S EXCEPT !.lock_count[m] = @ + 1]

(* What counting a lock changes. *)
LEMMA CountLockStep ==
    ASSUME NEW S \in KState, NEW m \in Mutexes, NEW T, T = CountLock(S, m)
    PROVE  /\ T \in KState
           /\ SameLists(S, T) /\ SameStock(S, T) /\ SameAnswers(S, T) /\ SameRest(S, T)
           /\ T.lock_count = [S.lock_count EXCEPT ![m] = @ + 1]
           /\ T.holding_thread = S.holding_thread /\ T.held_mutexes = S.held_mutexes
           /\ T.priority = S.priority /\ T.current_priority = S.current_priority
  <1> DEFINE c == [S.lock_count EXCEPT ![m] = @ + 1]
  <1>1. c \in [Mutexes -> Nat]
    BY DEF KState
  <1>2. T = [S EXCEPT !.lock_count = c]
    BY DEF CountLock
  <1> HIDE DEF c
  <1>3. /\ T \in KState
        /\ SameLists(S, T) /\ SameStock(S, T) /\ SameAnswers(S, T) /\ SameRest(S, T)
        /\ T.lock_count = c
        /\ T.holding_thread = S.holding_thread /\ T.held_mutexes = S.held_mutexes
        /\ T.priority = S.priority /\ T.current_priority = S.current_priority
    BY <1>1, <1>2, ZenonT(60) DEF KState, SameLists, SameStock, SameAnswers, SameRest
  <1> QED BY <1>3 DEF c

(* Only the stock of what can be acquired and the timers may differ. *)
ButStock(S, T) ==
    /\ SameLists(S, T) /\ SameLocks(S, T) /\ SameAnswers(S, T) /\ SameRest(S, T)
    /\ T.priority = S.priority /\ T.current_priority = S.current_priority

SetAvailable(S, s, n) == [S EXCEPT !.available_count[s] = n]

(* What a new count of a semaphore changes. *)
LEMMA AvailableStep ==
    ASSUME NEW S \in KState, NEW s \in Semaphores, NEW n \in Nat, NEW T, T = SetAvailable(S, s, n)
    PROVE  /\ T \in KState /\ ButStock(S, T) /\ T.signaled = S.signaled
           /\ T.available_count = [S.available_count EXCEPT ![s] = n]
  <1> DEFINE c == [S.available_count EXCEPT ![s] = n]
  <1>1. c \in [Semaphores -> Nat]
    BY DEF KState
  <1>2. T = [S EXCEPT !.available_count = c]
    BY DEF SetAvailable
  <1> HIDE DEF c
  <1>3. T \in KState /\ ButStock(S, T) /\ T.signaled = S.signaled /\ T.available_count = c
    BY <1>1, <1>2, ZenonT(60) DEF KState, ButStock, SameLists, SameLocks, SameAnswers, SameRest
  <1> QED BY <1>3 DEF c

SetSignaled(S, R) == [S EXCEPT !.signaled = R]

(* What a signal that is raised or lowered changes. *)
LEMMA SignaledStep ==
    ASSUME NEW S \in KState, NEW R \in SUBSET Resettable, NEW T, T = SetSignaled(S, R)
    PROVE  /\ T \in KState /\ ButStock(S, T) /\ T.signaled = R
           /\ T.available_count = S.available_count
  BY DEF SetSignaled, KState, ButStock, SameLists, SameLocks, SameAnswers, SameRest

(* Acquire stays among the states. *)
LEMMA AcquireType ==
    ASSUME NEW S \in KState, NEW o \in Objects, NEW t \in Threads
    PROVE  Acquire(S, o, t) \in KState
  <1> DEFINE ok == Claim(S, o \in Semaphores \/ ~ShouldWait(S, o, t), "object unavailable!")
             owned == IF ok.lock_count[o] = 0 THEN TakeMutex(ok, o, t) ELSE ok
             A == Acquire(S, o, t)
  <1>1. ok \in KState
    <2>1. [S EXCEPT !.failed = @ \cup {"object unavailable!"}] \in KState
      <3>1. "object unavailable!" \in Assertions
        BY DEF Assertions
      <3> QED BY <3>1, FailType
    <2> QED BY <2>1, Zenon DEF Claim
  <1>2. A = IF o \in Mutexes THEN [owned EXCEPT !.lock_count[o] = @ + 1]
            ELSE IF o \in Semaphores /\ ok.available_count[o] > 0
                 THEN [ok EXCEPT !.available_count[o] = @ - 1]
            ELSE IF o \in Resettable /\ ResetType[o] = "OneShot"
                 THEN [ok EXCEPT !.signaled = @ \ {o}]
            ELSE ok
    BY DEF Acquire
  <1> HIDE DEF ok, A
  <1>3. CASE o \in Mutexes
    <2>1. owned \in KState
      BY <1>1, <1>3, TakeMutexStep
    <2> HIDE DEF owned
    <2>2. CountLock(owned, o) \in KState
      BY <1>3, <2>1, CountLockStep
    <2> QED BY <1>2, <1>3, <2>2 DEF A, CountLock
  <1> HIDE DEF owned
  <1>4. CASE o \notin Mutexes /\ o \in Semaphores /\ ok.available_count[o] > 0
    <2>1. ok.available_count[o] - 1 \in Nat
      BY <1>1, <1>4 DEF KState
    <2>2. PICK n \in Nat : n = ok.available_count[o] - 1
      BY <2>1
    <2>3. A = SetAvailable(ok, o, n)
      BY <1>2, <1>4, <2>2 DEF SetAvailable
    <2>4. A \in KState
      BY <1>1, <1>4, <2>3, AvailableStep
    <2> QED BY <2>4 DEF A
  <1>5. CASE o \notin Mutexes /\ ~(o \in Semaphores /\ ok.available_count[o] > 0)
             /\ o \in Resettable /\ ResetType[o] = "OneShot"
    <2>1. PICK R : R = ok.signaled \ {o}
      OBVIOUS
    <2>2. R \in SUBSET Resettable
      BY <1>1, <2>1 DEF KState
    <2>3. A = SetSignaled(ok, R)
      BY <1>2, <1>5, <2>1 DEF SetSignaled
    <2>4. A \in KState
      BY <1>1, <2>2, <2>3, SignaledStep
    <2> QED BY <2>4 DEF A
  <1>6. CASE o \notin Mutexes /\ ~(o \in Semaphores /\ ok.available_count[o] > 0)
             /\ ~(o \in Resettable /\ ResetType[o] = "OneShot")
    BY <1>1, <1>2, <1>6 DEF A
  <1> QED BY <1>3, <1>4, <1>5, <1>6

(* T comes from S when the thread t acquires the objects O. *)
Acquiring(S, T, t, O) ==
    /\ SameLists(S, T) /\ SameAnswers(S, T) /\ SameRest(S, T)
    /\ \A m \in Mutexes \ O : /\ T.lock_count[m] = S.lock_count[m]
                              /\ T.holding_thread[m] = S.holding_thread[m]
    /\ \A s \in Semaphores \ O : T.available_count[s] = S.available_count[s]
    /\ \A r \in Resettable \ O : r \in T.signaled <=> r \in S.signaled
    /\ \A u \in Threads \ {t} :
          /\ T.held_mutexes[u] = S.held_mutexes[u]
          /\ \A m \in Mutexes : T.holding_thread[m] = u <=> S.holding_thread[m] = u
    /\ S.held_mutexes[t] \subseteq T.held_mutexes[t]
    /\ O \cap Mutexes \subseteq T.held_mutexes[t]
    /\ \A p \in Objects, u \in Threads : ShouldWait(S, p, u) => ShouldWait(T, p, u)

(* Acquire of a free mutex. *)
LEMMA AcquireFree ==
    ASSUME NEW S \in KState, NEW m \in Mutexes, NEW t \in Threads,
           NEW U, U = TakeMutex(S, m, t), NEW T, T = CountLock(U, m),
           S.lock_count[m] = 0, S.status[t] # "Dead",
           NEW D, MutexInv(S, D), \A u \in D : S.status[u] = "Dead",
           PrioInv(S), NEW E, InheritInv(S, E),
           m \notin E => \A w \in Elements(S.waiting_threads[m]) :
                            w = t \/ S.status[w] # "WaitSynchAny"
    PROVE  /\ T \in KState
           /\ Acquiring(S, T, t, {m})
           /\ MutexInv(T, D) /\ PrioInv(T) /\ InheritInv(T, E)
           /\ T.available_count = S.available_count
  <1>2. /\ U \in KState
        /\ SameLists(S, U) /\ SameStock(S, U) /\ SameAnswers(S, U) /\ SameRest(S, U)
        /\ U.lock_count = S.lock_count
        /\ U.priority = [S.priority EXCEPT ![m] = S.current_priority[t]]
        /\ U.holding_thread = [S.holding_thread EXCEPT ![m] = t]
        /\ U.held_mutexes = [S.held_mutexes EXCEPT ![t] = @ \cup {m}]
        /\ U.current_priority = [S.current_priority EXCEPT ![t] = BestPriority(U, t)]
    BY TakeMutexStep
  <1>4. /\ T \in KState
        /\ SameLists(U, T) /\ SameStock(U, T) /\ SameAnswers(U, T) /\ SameRest(U, T)
        /\ T.lock_count = [U.lock_count EXCEPT ![m] = @ + 1]
        /\ T.holding_thread = U.holding_thread /\ T.held_mutexes = U.held_mutexes
        /\ T.priority = U.priority /\ T.current_priority = U.current_priority
    <2>1. U \in KState
      BY <1>2
    <2> QED BY <2>1, CountLockStep
  <1>5. SameLists(S, T) /\ SameStock(S, T) /\ SameAnswers(S, T) /\ SameRest(S, T)
    BY <1>2, <1>4 DEF SameLists, SameStock, SameAnswers, SameRest
  <1>6. /\ S.lock_count \in [Mutexes -> Nat]
        /\ S.holding_thread \in [Mutexes -> Threads \cup {None}]
        /\ S.held_mutexes \in [Threads -> SUBSET Mutexes]
        /\ S.priority \in [Mutexes -> Prio]
        /\ S.current_priority \in [Threads -> Prio]
    BY DEF KState
  <1>7. \A n \in Mutexes :
            /\ T.lock_count[n] = IF n = m THEN 1 ELSE S.lock_count[n]
            /\ T.holding_thread[n] = IF n = m THEN t ELSE S.holding_thread[n]
            /\ n # m => T.priority[n] = S.priority[n]
    BY <1>2, <1>4, <1>6
  <1>8. \A u \in Threads :
            /\ T.held_mutexes[u] = IF u = t THEN S.held_mutexes[t] \cup {m} ELSE S.held_mutexes[u]
            /\ u # t => T.current_priority[u] = S.current_priority[u]
    <2>1. /\ T.held_mutexes = [S.held_mutexes EXCEPT ![t] = @ \cup {m}]
          /\ T.current_priority = [S.current_priority EXCEPT ![t] = BestPriority(U, t)]
      BY <1>2, <1>4
    <2> QED BY <1>6, <2>1
  <1>9. T.current_priority[t] = BestPriority(T, t)
    <2>1. T.current_priority[t] = BestPriority(U, t)
      BY <1>2, <1>4, <1>6
    <2>2. SameBest(U, T, t)
      BY <1>4 DEF SameBest, SameRest
    <2> QED BY <2>1, <2>2, BestPrioritySame
  <1>10. S.holding_thread[m] = None /\ t # None /\ t \notin D
    BY <1>6, KindAssumption DEF MutexInv
  <1>11. \A u \in Threads : S.status[u] # "Dead" => m \notin S.held_mutexes[u] /\ u \notin D
    <2> SUFFICES ASSUME NEW u \in Threads, S.status[u] # "Dead"
                 PROVE  m \notin S.held_mutexes[u] /\ u \notin D
      OBVIOUS
    <2>1. u \notin D
      OBVIOUS
    <2>2. m \in S.held_mutexes[u] => S.holding_thread[m] = u
      BY <2>1 DEF MutexInv
    <2> QED BY <1>10, <2>1, <2>2, KindAssumption
  <1>12. MutexInv(T, D)
    <2> SUFFICES ASSUME NEW n \in Mutexes
                 PROVE  /\ T.lock_count[n] > 0 <=> T.holding_thread[n] # None
                        /\ T.holding_thread[n] # None => n \in T.held_mutexes[T.holding_thread[n]]
                        /\ \A u \in Threads \ D :
                              n \in T.held_mutexes[u] => T.holding_thread[n] = u /\ T.status[u] # "Dead"
      BY DEF MutexInv
    <2>1. /\ S.lock_count[n] > 0 <=> S.holding_thread[n] # None
          /\ S.holding_thread[n] # None => n \in S.held_mutexes[S.holding_thread[n]]
          /\ \A u \in Threads \ D :
                n \in S.held_mutexes[u] => S.holding_thread[n] = u /\ S.status[u] # "Dead"
      BY DEF MutexInv
    <2>2. T.status = S.status
      BY <1>5 DEF SameRest
    <2>3. CASE n = m
      <3>1. T.lock_count[n] > 0 /\ T.holding_thread[n] = t /\ n \in T.held_mutexes[t]
        BY <1>7, <1>8, <2>3
      <3>2. ASSUME NEW u \in Threads \ D, n \in T.held_mutexes[u]
            PROVE  T.holding_thread[n] = u /\ T.status[u] # "Dead"
        <4>1. CASE u = t
          BY <2>2, <3>1, <4>1
        <4>2. CASE u # t
          <5>1. n \in S.held_mutexes[u]
            BY <1>8, <3>2, <4>2
          <5>2. S.holding_thread[n] = u
            BY <2>1, <5>1
          <5> QED BY <1>10, <2>3, <5>2, KindAssumption
        <4> QED BY <4>1, <4>2
      <3> QED BY <1>10, <3>1, <3>2
    <2>4. CASE n # m
      <3>1. T.lock_count[n] = S.lock_count[n] /\ T.holding_thread[n] = S.holding_thread[n]
        BY <1>7, <2>4
      <3>2. \A u \in Threads : n \in T.held_mutexes[u] <=> n \in S.held_mutexes[u]
        BY <1>8, <2>4
      <3>3. S.holding_thread[n] \in Threads \cup {None}
        BY <1>6
      <3> QED BY <2>1, <2>2, <3>1, <3>2, <3>3
    <2> QED BY <2>3, <2>4
  <1>13. PrioInv(T)
    <2> SUFFICES ASSUME NEW u \in Threads, T.status[u] # "Dead"
                 PROVE  T.current_priority[u] = BestPriority(T, u)
      BY DEF PrioInv
    <2>1. CASE u = t
      BY <1>9, <2>1
    <2>2. CASE u # t
      <3>1. S.status[u] # "Dead" /\ T.nominal_priority[u] = S.nominal_priority[u]
        BY <1>5 DEF SameRest
      <3>2. T.held_mutexes[u] = S.held_mutexes[u] /\ T.current_priority[u] = S.current_priority[u]
        BY <1>8, <2>2
      <3>3. m \notin S.held_mutexes[u] /\ S.held_mutexes[u] \subseteq Mutexes
        BY <1>6, <1>11, <3>1
      <3>4. \A n \in S.held_mutexes[u] : T.priority[n] = S.priority[n]
        BY <1>7, <3>3
      <3>5. BestPriority(T, u) = BestPriority(S, u)
        <4>1. SameBest(S, T, u)
          BY <3>1, <3>2, <3>4 DEF SameBest
        <4> QED BY <4>1, BestPrioritySame
      <3>6. S.current_priority[u] = BestPriority(S, u)
        BY <3>1 DEF PrioInv
      <3> QED BY <3>2, <3>5, <3>6
    <2> QED BY <2>1, <2>2
  <1>14. InheritInv(T, E)
    <2> SUFFICES ASSUME NEW n \in Mutexes \ E, T.holding_thread[n] # None PROVE Lends(T, n)
      BY DEF InheritInv
    <2>1. ASSUME NEW w \in Elements(T.waiting_threads[n]), Plain(T, w)
          PROVE  /\ w \in Threads /\ w # t /\ n # m
                 /\ Plain(S, w) /\ T.current_priority[w] = S.current_priority[w]
      <3>1. w \in Elements(S.waiting_threads[n]) /\ S.status[w] = "WaitSynchAny"
        BY <1>5, <2>1 DEF SameLists, SameRest, Plain
      <3>2. w \in Threads
        <4>1. S.waiting_threads[n] \in Seq(Threads)
          BY DEF KState, Objects
        <4> QED BY <3>1, <4>1 DEF Elements
      <3>3. w # t
        BY <1>8, <2>1 DEF Plain
      <3>4. n # m
        BY <3>1, <3>3
      <3>5. Plain(S, w) /\ T.current_priority[w] = S.current_priority[w]
        BY <1>7, <1>8, <2>1, <3>1, <3>2, <3>3 DEF Plain
      <3> QED BY <3>2, <3>3, <3>4, <3>5
    <2>2. CASE n = m
      BY <2>1, <2>2 DEF Lends
    <2>3. CASE n # m
      <3>1. S.holding_thread[n] # None /\ T.priority[n] = S.priority[n]
            /\ T.waiting_threads[n] = S.waiting_threads[n]
        BY <1>5, <1>7, <1>8, <2>3 DEF SameLists
      <3>2. Lends(S, n)
        BY <3>1 DEF InheritInv
      <3> QED BY <2>1, <3>1, <3>2 DEF Lends
    <2> QED BY <2>2, <2>3
  <1>15. Acquiring(S, T, t, {m})
    <2>1. T.available_count = S.available_count /\ T.signaled = S.signaled
      BY <1>5 DEF SameStock
    <2>2. \A u \in Threads \ {t} :
             /\ T.held_mutexes[u] = S.held_mutexes[u]
             /\ \A n \in Mutexes : T.holding_thread[n] = u <=> S.holding_thread[n] = u
      BY <1>7, <1>8, <1>10, KindAssumption
    <2>3. ASSUME NEW p \in Objects, NEW u \in Threads, ShouldWait(S, p, u)
          PROVE  ShouldWait(T, p, u)
      <3>1. T.status = S.status
        BY <1>5 DEF SameRest
      <3>2. ASSUME p \in Mutexes, S.lock_count[p] > 0, S.holding_thread[p] # u
            PROVE  T.lock_count[p] > 0 /\ T.holding_thread[p] # u
        BY <1>7, <3>2
      <3> QED BY <2>1, <2>3, <3>1, <3>2 DEF ShouldWait
    <2>4. S.held_mutexes[t] \subseteq T.held_mutexes[t] /\ {m} \cap Mutexes \subseteq T.held_mutexes[t]
      BY <1>8
    <2>5. \A n \in Mutexes \ {m} : T.lock_count[n] = S.lock_count[n]
                                   /\ T.holding_thread[n] = S.holding_thread[n]
      BY <1>7
    <2> QED BY <1>5, <2>1, <2>2, <2>3, <2>4, <2>5 DEF Acquiring
  <1>16. T.available_count = S.available_count
    BY <1>5 DEF SameStock
  <1> QED BY <1>4, <1>12, <1>13, <1>14, <1>15, <1>16

(* A mutex that t holds already is locked once more. *)
LEMMA AcquireAgain ==
    ASSUME NEW S \in KState, NEW m \in Mutexes, NEW t \in Threads, NEW T, T = CountLock(S, m),
           S.holding_thread[m] = t,
           NEW D, MutexInv(S, D), PrioInv(S), NEW E, InheritInv(S, E)
    PROVE  /\ T \in KState
           /\ Acquiring(S, T, t, {m})
           /\ MutexInv(T, D) /\ PrioInv(T) /\ InheritInv(T, E)
           /\ T.available_count = S.available_count
  <1>1. /\ T \in KState
        /\ SameLists(S, T) /\ SameStock(S, T) /\ SameAnswers(S, T) /\ SameRest(S, T)
        /\ T.lock_count = [S.lock_count EXCEPT ![m] = @ + 1]
        /\ T.holding_thread = S.holding_thread /\ T.held_mutexes = S.held_mutexes
        /\ T.priority = S.priority /\ T.current_priority = S.current_priority
    BY CountLockStep
  <1>2. S.lock_count \in [Mutexes -> Nat]
    BY DEF KState
  <1>3. S.holding_thread[m] # None /\ m \in S.held_mutexes[t]
    BY KindAssumption DEF MutexInv
  <1>4. \A n \in Mutexes : /\ n # m => T.lock_count[n] = S.lock_count[n]
                           /\ T.lock_count[n] > 0 <=> S.lock_count[n] > 0
    <2>1. S.lock_count[m] > 0
      BY <1>3 DEF MutexInv
    <2> QED BY <1>1, <1>2, <2>1
  <1>5. MutexInv(T, D)
    BY <1>1, <1>4 DEF MutexInv, SameRest
  <1>6. PrioInv(T)
    BY <1>1 DEF PrioInv, BestPriority, SameRest
  <1>7. InheritInv(T, E)
    BY <1>1 DEF InheritInv, Lends, Plain, SameLists, SameRest
  <1>8. T.available_count = S.available_count /\ T.signaled = S.signaled /\ T.status = S.status
    BY <1>1 DEF SameStock, SameRest
  <1>9. \A p \in Objects, u \in Threads : ShouldWait(S, p, u) => ShouldWait(T, p, u)
    BY <1>1, <1>4, <1>8 DEF ShouldWait
  <1>10. Acquiring(S, T, t, {m})
    BY <1>1, <1>3, <1>4, <1>8, <1>9 DEF Acquiring
  <1> QED BY <1>1, <1>5, <1>6, <1>7, <1>8, <1>10

(* The stock of objects has no part in these. *)
LEMMA ButStockKeeps ==
    ASSUME NEW S, NEW T, ButStock(S, T)
    PROVE  /\ \A D : MutexInv(S, D) => MutexInv(T, D)
           /\ PrioInv(S) => PrioInv(T)
           /\ \A E : InheritInv(S, E) => InheritInv(T, E)
           /\ ListInv(S) => ListInv(T)
           /\ \A D : FitsInv(S, D) => FitsInv(T, D)
           /\ AnswerInv(S) => AnswerInv(T)
  <1>1. \A D : MutexInv(S, D) => MutexInv(T, D)
    BY DEF ButStock, SameLocks, SameRest, MutexInv
  <1>2. PrioInv(S) => PrioInv(T)
    BY DEF ButStock, SameLocks, SameRest, PrioInv, BestPriority
  <1>3. \A E : InheritInv(S, E) => InheritInv(T, E)
    BY DEF ButStock, SameLists, SameLocks, SameRest, InheritInv, Lends, Plain
  <1>4. ListInv(S) => ListInv(T)
    BY DEF ButStock, SameLists, ListInv, Waiters
  <1>5. \A D : FitsInv(S, D) => FitsInv(T, D)
    BY DEF ButStock, SameLists, SameRest, FitsInv
  <1>6. AnswerInv(S) => AnswerInv(T)
    BY DEF ButStock, SameLocks, SameAnswers, SameRest, AnswerInv
  <1> QED BY <1>1, <1>2, <1>3, <1>4, <1>5, <1>6

(* The stock of what is not a mutex shrinks by what t acquires. *)
LEMMA AcquireStock ==
    ASSUME NEW S \in KState, NEW o \in Objects \ Mutexes, NEW t \in Threads, NEW T, ButStock(S, T),
           \A s \in Semaphores : T.available_count[s] = S.available_count[s]
                                 \/ (s = o /\ S.available_count[s] > 0),
           \A r \in Resettable : (r \in T.signaled <=> r \in S.signaled)
                                 \/ (r = o /\ r \in S.signaled)
    PROVE  Acquiring(S, T, t, {o})
  <1>1. T.status = S.status /\ T.lock_count = S.lock_count /\ T.holding_thread = S.holding_thread
        /\ T.held_mutexes = S.held_mutexes
    BY DEF ButStock, SameLocks, SameRest
  <1>2. S.available_count \in [Semaphores -> Nat]
    BY DEF KState
  <1>3. \A p \in Objects, u \in Threads : ShouldWait(S, p, u) => ShouldWait(T, p, u)
    BY <1>1, <1>2 DEF ShouldWait
  <1> QED BY <1>1, <1>3 DEF Acquiring, ButStock

(* Nobody else waits for the free mutex o alone, unless its priority is     *)
(* about to be recomputed.                                                  *)
NoRival(S, o, t, E) ==
    (o \in Mutexes \ E /\ S.lock_count[o] = 0) =>
        \A w \in Elements(S.waiting_threads[o]) : w = t \/ S.status[w] # "WaitSynchAny"

(* Acquire of an available object keeps ownership and priorities right. *)
LEMMA AcquireKeeps ==
    ASSUME NEW S \in KState, NEW o \in Objects, NEW t \in Threads, NEW T, T = Acquire(S, o, t),
           ~ShouldWait(S, o, t), S.status[t] # "Dead",
           NEW D, MutexInv(S, D), \A u \in D : S.status[u] = "Dead",
           PrioInv(S), NEW E, InheritInv(S, E), CountInv(S),
           NoRival(S, o, t, E)
    PROVE  /\ T \in KState
           /\ Acquiring(S, T, t, {o})
           /\ MutexInv(T, D) /\ PrioInv(T) /\ InheritInv(T, E) /\ CountInv(T)
  <1>1. Claim(S, o \in Semaphores \/ ~ShouldWait(S, o, t), "object unavailable!") = S
    BY DEF Claim
  <1>2. T = IF o \in Mutexes
            THEN CountLock(IF S.lock_count[o] = 0 THEN TakeMutex(S, o, t) ELSE S, o)
            ELSE IF o \in Semaphores /\ S.available_count[o] > 0
                 THEN [S EXCEPT !.available_count[o] = @ - 1]
            ELSE IF o \in Resettable /\ ResetType[o] = "OneShot"
                 THEN [S EXCEPT !.signaled = @ \ {o}]
            ELSE S
    BY <1>1 DEF Acquire, CountLock
  <1>3. S.available_count \in [Semaphores -> Nat] /\ S.lock_count \in [Mutexes -> Nat]
    BY DEF KState
  <1>4. CASE o \in Mutexes /\ S.lock_count[o] = 0
    <2>1. PICK U : U = TakeMutex(S, o, t)
      OBVIOUS
    <2>2. T = CountLock(U, o)
      BY <1>2, <1>4, <2>1
    <2>3. /\ T \in KState
          /\ Acquiring(S, T, t, {o})
          /\ MutexInv(T, D) /\ PrioInv(T) /\ InheritInv(T, E)
          /\ T.available_count = S.available_count
      BY <1>4, <2>1, <2>2, AcquireFree DEF NoRival
    <2> QED BY <2>3 DEF CountInv
  <1>5. CASE o \in Mutexes /\ S.lock_count[o] # 0
    <2>1. T = CountLock(S, o)
      BY <1>2, <1>5
    <2>2. S.holding_thread[o] = t
      BY <1>3, <1>5 DEF ShouldWait
    <2>3. /\ T \in KState
          /\ Acquiring(S, T, t, {o})
          /\ MutexInv(T, D) /\ PrioInv(T) /\ InheritInv(T, E)
          /\ T.available_count = S.available_count
      BY <1>5, <2>1, <2>2, AcquireAgain
    <2> QED BY <2>3 DEF CountInv
  <1>6. ASSUME o \notin Mutexes, T \in KState, ButStock(S, T),
               \A s \in Semaphores : /\ T.available_count[s] <= S.available_count[s]
                                     /\ \/ T.available_count[s] = S.available_count[s]
                                        \/ (s = o /\ S.available_count[s] > 0),
               \A r \in Resettable : (r \in T.signaled <=> r \in S.signaled)
                                     \/ (r = o /\ r \in S.signaled)
        PROVE  /\ T \in KState
               /\ Acquiring(S, T, t, {o})
               /\ MutexInv(T, D) /\ PrioInv(T) /\ InheritInv(T, E) /\ CountInv(T)
    <2>1. Acquiring(S, T, t, {o})
      BY <1>6, AcquireStock
    <2>2. MutexInv(T, D) /\ PrioInv(T) /\ InheritInv(T, E)
      BY <1>6, ButStockKeeps
    <2>3. CountInv(T)
      <3>1. \A s \in Semaphores : S.available_count[s] \in Nat /\ T.available_count[s] \in Nat
                                  /\ MaxCount[s] \in Nat
        BY <1>6, CountAssumption DEF KState
      <3> QED BY <1>6, <3>1 DEF CountInv
    <2> QED BY <1>6, <2>1, <2>2, <2>3
  <1>7. CASE o \notin Mutexes /\ o \in Semaphores /\ S.available_count[o] > 0
    <2>1. S.available_count[o] - 1 \in Nat
      BY <1>3, <1>7
    <2>2. PICK n \in Nat : n = S.available_count[o] - 1
      BY <2>1
    <2>3. T = SetAvailable(S, o, n)
      BY <1>2, <1>7, <2>2 DEF SetAvailable
    <2>4. /\ T \in KState /\ ButStock(S, T) /\ T.signaled = S.signaled
          /\ T.available_count = [S.available_count EXCEPT ![o] = n]
      BY <1>7, <2>3, AvailableStep
    <2>5. \A s \in Semaphores : /\ T.available_count[s] <= S.available_count[s]
                                /\ \/ T.available_count[s] = S.available_count[s]
                                   \/ (s = o /\ S.available_count[s] > 0)
      BY <1>3, <1>7, <2>2, <2>4
    <2> QED BY <1>6, <1>7, <2>4, <2>5
  <1>8. CASE o \notin Mutexes /\ ~(o \in Semaphores /\ S.available_count[o] > 0)
             /\ o \in Resettable /\ ResetType[o] = "OneShot"
    <2>1. PICK R : R = S.signaled \ {o}
      OBVIOUS
    <2>2. R \in SUBSET Resettable
      BY <2>1 DEF KState
    <2>3. T = SetSignaled(S, R)
      BY <1>2, <1>8, <2>1 DEF SetSignaled
    <2>4. /\ T \in KState /\ ButStock(S, T) /\ T.signaled = R
          /\ T.available_count = S.available_count
      BY <2>2, <2>3, SignaledStep
    <2>5. o \in S.signaled
      BY <1>8 DEF ShouldWait
    <2>6. \A r \in Resettable : (r \in T.signaled <=> r \in S.signaled) \/ (r = o /\ r \in S.signaled)
      BY <2>1, <2>4, <2>5
    <2>7. \A s \in Semaphores : /\ T.available_count[s] <= S.available_count[s]
                                /\ T.available_count[s] = S.available_count[s]
      BY <1>3, <2>4
    <2> QED BY <1>6, <1>8, <2>4, <2>6, <2>7
  <1>9. CASE o \notin Mutexes /\ ~(o \in Semaphores /\ S.available_count[o] > 0)
             /\ ~(o \in Resettable /\ ResetType[o] = "OneShot")
    <2>1. T = S
      BY <1>2, <1>9
    <2>2. ButStock(S, T)
      BY <2>1 DEF ButStock, SameLists, SameLocks, SameAnswers, SameRest
    <2>3. \A s \in Semaphores : T.available_count[s] <= S.available_count[s]
      BY <1>3, <2>1
    <2> QED BY <1>6, <1>9, <2>1, <2>2, <2>3
  <1> QED BY <1>4, <1>5, <1>7, <1>8, <1>9

-----------------------------------------------------------------------------
(* Acquiring several objects. *)

(* A loop whose turns stay in K stays in K. *)
LEMMA LoopTyped ==
    ASSUME NEW N \in Nat, NEW K, NEW f, f[0] \in K, \A i \in 1 .. N : f[i - 1] \in K => f[i] \in K
    PROVE  \A i \in 0 .. N : f[i] \in K
  <1> DEFINE I == {n \in 0 .. N : f[n] \in K}
  <1>1. 0 \in I
    OBVIOUS
  <1>2. ASSUME NEW n \in 0 .. N - 1, n \in I PROVE n + 1 \in I
    <2>1. n + 1 \in 1 .. N /\ n + 1 \in 0 .. N /\ (n + 1) - 1 = n
      OBVIOUS
    <2> QED BY <1>2, <2>1
  <1> HIDE DEF I
  <1>3. \A n \in 0 .. N : n \in I
    BY <1>1, <1>2, LoopInduction
  <1> QED BY <1>3 DEF I

(* The loop of AcquireAll. *)
AcquireSteps(f, S, q, t) ==
    f = [i \in 0 .. Len(q) |-> IF i = 0 THEN S ELSE Acquire(f[i - 1], q[i], t)]

(* AcquireAll as a sequence of acquisitions. *)
LEMMA AcquireLoop ==
    ASSUME NEW S \in KState, NEW q \in Seq(Objects), NEW t \in Threads
    PROVE  \E f : /\ f[0] = S
                  /\ \A i \in 1 .. Len(q) : f[i] = Acquire(f[i - 1], q[i], t)
                  /\ \A i \in 0 .. Len(q) : f[i] \in KState
                  /\ AcquireAll(S, q, t) = f[Len(q)]
  <1> DEFINE N == Len(q)
             g == [i \in 1 .. N |-> [x \in KState |-> Acquire(x, q[i], t)]]
  <1>1. N \in Nat /\ \A i \in 1 .. N : q[i] \in Objects
    OBVIOUS
  <1>2. \A i \in 1 .. N : \A x \in KState : g[i][x] = Acquire(x, q[i], t)
    BY Zenon
  <1>3. \A i \in 1 .. N : \A x \in KState : g[i][x] \in KState
    BY <1>1, <1>2, AcquireType
  <1> HIDE DEF g, N
  <1>4. PICK h : LoopOf(h, g, N, S, KState)
    BY <1>1, <1>3, LoopExists
  <1>5. AcquireSteps(h, S, q, t)
    <2>1. ASSUME NEW i \in 1 .. N PROVE g[i][h[i - 1]] = Acquire(h[i - 1], q[i], t)
      <3>1. h[i - 1] \in KState
        BY <1>1, <1>4 DEF LoopOf
      <3> QED BY <1>2, <3>1
    <2>2. \A i \in 0 .. N : i # 0 => i \in 1 .. N
      BY <1>1
    <2>3. h = [i \in 0 .. N |-> IF i = 0 THEN S ELSE Acquire(h[i - 1], q[i], t)]
      BY <1>4, <2>1, <2>2 DEF LoopOf
    <2> QED BY <2>3 DEF AcquireSteps, N
  <1>6. PICK f : AcquireSteps(f, S, q, t) /\ AcquireAll(S, q, t) = f[N]
    BY <1>5, Zenon DEF AcquireSteps, AcquireAll, N
  <1>7. \A i \in 0 .. N : f[i] = IF i = 0 THEN S ELSE Acquire(f[i - 1], q[i], t)
    BY <1>6, Zenon DEF AcquireSteps, N
  <1>8. f[0] = S /\ \A i \in 1 .. N : f[i] = Acquire(f[i - 1], q[i], t)
    BY <1>1, <1>7
  <1>9. \A i \in 0 .. N : f[i] \in KState
    <2>1. \A i \in 1 .. N : f[i - 1] \in KState => f[i] \in KState
      BY <1>1, <1>8, AcquireType
    <2> QED BY <1>1, <1>8, <2>1, LoopTyped
  <1> QED BY <1>6, <1>8, <1>9 DEF N

(* AcquireAll stays among the states. *)
LEMMA AcquireAllType ==
    ASSUME NEW S \in KState, NEW q \in Seq(Objects), NEW t \in Threads
    PROVE  AcquireAll(S, q, t) \in KState
  <1>1. Len(q) \in 0 .. Len(q)
    OBVIOUS
  <1> QED BY <1>1, AcquireLoop

(* Nothing is acquired in no step. *)
LEMMA AcquiringNothing ==
    ASSUME NEW S, NEW t
    PROVE  Acquiring(S, S, t, {})
  BY DEF Acquiring, SameLists, SameAnswers, SameRest

(* One more object is acquired. *)
LEMMA AcquiringMore ==
    ASSUME NEW S, NEW T, NEW U, NEW t, NEW O, NEW o,
           Acquiring(S, T, t, O), Acquiring(T, U, t, {o})
    PROVE  Acquiring(S, U, t, O \cup {o})
  <1>1. SameLists(S, U) /\ SameAnswers(S, U) /\ SameRest(S, U)
    BY DEF Acquiring, SameLists, SameAnswers, SameRest
  <1>2. /\ \A m \in Mutexes \ (O \cup {o}) : /\ U.lock_count[m] = S.lock_count[m]
                                             /\ U.holding_thread[m] = S.holding_thread[m]
        /\ \A s \in Semaphores \ (O \cup {o}) : U.available_count[s] = S.available_count[s]
        /\ \A r \in Resettable \ (O \cup {o}) : r \in U.signaled <=> r \in S.signaled
    BY DEF Acquiring
  <1>3. \A u \in Threads \ {t} :
          /\ U.held_mutexes[u] = S.held_mutexes[u]
          /\ \A m \in Mutexes : U.holding_thread[m] = u <=> S.holding_thread[m] = u
    BY DEF Acquiring
  <1>4. S.held_mutexes[t] \subseteq U.held_mutexes[t] /\ (O \cup {o}) \cap Mutexes \subseteq U.held_mutexes[t]
    BY DEF Acquiring
  <1>5. \A p \in Objects, u \in Threads : ShouldWait(S, p, u) => ShouldWait(U, p, u)
    BY DEF Acquiring
  <1> QED BY <1>1, <1>2, <1>3, <1>4, <1>5 DEF Acquiring

(* A thread acquires a list of different objects that are all available. *)
LEMMA AcquireAllKeeps ==
    ASSUME NEW S \in KState, NEW q \in Seq(Objects), NEW t \in Threads,
           NEW T, T = AcquireAll(S, q, t),
           \A i, j \in 1 .. Len(q) : q[i] = q[j] => i = j,
           \A o \in Elements(q) : ~ShouldWait(S, o, t), S.status[t] # "Dead",
           NEW D, MutexInv(S, D), \A u \in D : S.status[u] = "Dead",
           PrioInv(S), NEW E, InheritInv(S, E), CountInv(S),
           \A o \in Elements(q) : NoRival(S, o, t, E)
    PROVE  /\ T \in KState
           /\ Acquiring(S, T, t, Elements(q))
           /\ MutexInv(T, D) /\ PrioInv(T) /\ InheritInv(T, E) /\ CountInv(T)
  <1> DEFINE N == Len(q)
  <1>1. N \in Nat
    OBVIOUS
  <1>2. PICK f : /\ f[0] = S
                 /\ \A i \in 1 .. N : f[i] = Acquire(f[i - 1], q[i], t)
                 /\ \A i \in 0 .. N : f[i] \in KState
                 /\ AcquireAll(S, q, t) = f[N]
    BY AcquireLoop
  <1> DEFINE Done(x, n) == /\ Acquiring(S, x, t, First(q, n))
                           /\ MutexInv(x, D) /\ PrioInv(x) /\ InheritInv(x, E) /\ CountInv(x)
             I == {n \in 0 .. N : Done(f[n], n)}
  <1>3. 0 \in I
    <2>1. First(q, 0) = {}
      BY DEF First
    <2>2. Done(S, 0)
      BY <2>1, AcquiringNothing
    <2> QED BY <1>1, <1>2, <2>2
  <1>4. ASSUME NEW n \in 0 .. N - 1, n \in I PROVE n + 1 \in I
    <2>1. n + 1 \in 1 .. N /\ n + 1 \in 0 .. N /\ (n + 1) - 1 = n /\ n \in 0 .. N
      BY <1>1
    <2>2. PICK x : x = f[n]
      OBVIOUS
    <2>3. PICK y : y = f[n + 1]
      OBVIOUS
    <2>4. PICK o : o = q[n + 1]
      OBVIOUS
    <2>5. y = Acquire(x, o, t) /\ x \in KState
      BY <1>2, <2>1, <2>2, <2>3, <2>4
    <2>6. Done(x, n)
      BY <1>4, <2>2
    <2>7. First(q, n + 1) = First(q, n) \cup {o} /\ o \in Objects /\ o \in Elements(q) /\ o \notin First(q, n)
      BY <1>1, <2>4, FirstStep
    <2>8. ~ShouldWait(S, o, t)
      BY <2>7
    <2>9. /\ x.status = S.status /\ x.waiting_threads = S.waiting_threads
          /\ o \in Mutexes => x.lock_count[o] = S.lock_count[o] /\ x.holding_thread[o] = S.holding_thread[o]
          /\ o \in Semaphores => x.available_count[o] = S.available_count[o]
          /\ o \in Resettable => (o \in x.signaled <=> o \in S.signaled)
      BY <2>6, <2>7 DEF Acquiring, SameLists, SameRest
    <2>10. ~ShouldWait(x, o, t)
      BY <2>8, <2>9 DEF ShouldWait
    <2>11. x.status[t] # "Dead" /\ \A u \in D : x.status[u] = "Dead"
      BY <2>9
    <2>12. NoRival(x, o, t, E)
      BY <2>7, <2>9 DEF NoRival
    <2>13. x \in KState /\ MutexInv(x, D) /\ PrioInv(x) /\ InheritInv(x, E) /\ CountInv(x)
           /\ Acquiring(S, x, t, First(q, n))
      BY <2>5, <2>6
    <2> HIDE DEF Done, I
    <2>14. /\ Acquiring(x, y, t, {o})
           /\ MutexInv(y, D) /\ PrioInv(y) /\ InheritInv(y, E) /\ CountInv(y)
      <3>1. x \in KState
        BY <2>5
      <3>2. o \in Objects
        BY <2>7
      <3>3. y = Acquire(x, o, t)
        BY <2>5
      <3> QED BY <2>10, <2>11, <2>12, <2>13, <3>1, <3>2, <3>3, AcquireKeeps
    <2>15. Acquiring(S, y, t, First(q, n + 1))
      <3>1. PICK O : O = First(q, n)
        OBVIOUS
      <3>2. Acquiring(S, x, t, O)
        BY <2>13, <3>1
      <3>3. Acquiring(x, y, t, {o})
        BY <2>14
      <3>4. Acquiring(S, y, t, O \cup {o})
        BY <3>2, <3>3, AcquiringMore
      <3> QED BY <2>7, <3>1, <3>4
    <2> QED BY <2>1, <2>3, <2>14, <2>15 DEF Done, I
  <1>5. \A n \in 0 .. N : n \in I
    <2> HIDE DEF I
    <2> QED BY <1>1, <1>3, <1>4, LoopInduction
  <1>6. N \in 0 .. N
    BY <1>1
  <1>7. Done(f[N], N) /\ f[N] \in KState
    BY <1>2, <1>5, <1>6
  <1>8. First(q, N) = Elements(q)
    BY DEF First, Elements
  <1> QED BY <1>2, <1>7, <1>8

-----------------------------------------------------------------------------
(* Waking. *)

(* ResumeFromWait stays among the states. *)
LEMMA ResumeType ==
    ASSUME NEW S \in KState, NEW t \in Threads
    PROVE  ResumeFromWait(S, t) \in KState
  <1> DEFINE ok == Claim(S, S.wait_objects[t] = << >>, "Thread is waking up while waiting for objects")
             R == ResumeFromWait(S, t)
  <1>0. ASSUME NEW x \in KState, NEW y
        PROVE  /\ y = [x EXCEPT !.failed = @ \cup {"Thread is waking up while waiting for objects"}] => y \in KState
               /\ y = [x EXCEPT !.failed = @ \cup {"wakeup_callback == nullptr"}] => y \in KState
               /\ y = [x EXCEPT !.failed = @ \cup {"Thread has already resumed"}] => y \in KState
               /\ y = [x EXCEPT !.failed = @ \cup {"Thread cannot be resumed because it's DEAD"}] => y \in KState
    <2>1. /\ "Thread is waking up while waiting for objects" \in Assertions
          /\ "wakeup_callback == nullptr" \in Assertions
          /\ "Thread has already resumed" \in Assertions
          /\ "Thread cannot be resumed because it's DEAD" \in Assertions
      BY DEF Assertions
    <2> QED BY <2>1, FailType
  <1>1. ok \in KState
    BY <1>0, Zenon DEF Claim
  <1>2. R = CASE S.status[t] = "Ready"   -> Claim(ok, t \notin S.wakeup_callback, "wakeup_callback == nullptr")
              [] S.status[t] = "Running" -> Claim(ok, FALSE, "Thread has already resumed")
              [] S.status[t] = "Dead"    -> Claim(ok, FALSE, "Thread cannot be resumed because it's DEAD")
              [] OTHER -> [ok EXCEPT !.wakeup_callback = @ \ {t}, !.status[t] = "Ready"]
    BY DEF ResumeFromWait
  <1> HIDE DEF ok
  <1>3. Claim(ok, t \notin S.wakeup_callback, "wakeup_callback == nullptr") \in KState
    BY <1>0, <1>1, Zenon DEF Claim
  <1>4. Claim(ok, FALSE, "Thread has already resumed") \in KState
    BY <1>0, <1>1, Zenon DEF Claim
  <1>5. Claim(ok, FALSE, "Thread cannot be resumed because it's DEAD") \in KState
    BY <1>0, <1>1, Zenon DEF Claim
  <1>6. [ok EXCEPT !.wakeup_callback = @ \ {t}, !.status[t] = "Ready"] \in KState
    <2>1. PICK c, s : c = ok.wakeup_callback \ {t} /\ s = [ok.status EXCEPT ![t] = "Ready"]
      OBVIOUS
    <2>2. c \in SUBSET Threads /\ s \in [Threads -> Statuses]
      BY <1>1, <2>1 DEF KState, Statuses
    <2>3. [ok EXCEPT !.wakeup_callback = c, !.status = s] \in KState
      BY <1>1, <2>2 DEF KState
    <2> QED BY <2>1, <2>3
  <1>7. CASE S.status[t] = "Ready"
    BY <1>2, <1>3, <1>7 DEF R
  <1>8. CASE S.status[t] = "Running"
    BY <1>2, <1>4, <1>8 DEF R
  <1>9. CASE S.status[t] = "Dead"
    BY <1>2, <1>5, <1>9 DEF R
  <1>10. CASE S.status[t] \notin {"Ready", "Running", "Dead"}
    BY <1>2, <1>6, <1>10 DEF R
  <1> QED BY <1>7, <1>8, <1>9, <1>10

(* A thread that sleeps and has left its wait objects becomes Ready. *)
LEMMA ResumeStep ==
    ASSUME NEW S \in KState, NEW t \in Threads, NEW T, T = ResumeFromWait(S, t),
           S.wait_objects[t] = << >>, S.status[t] \in Waiting \cup {"WaitSleep"}
    PROVE  /\ T \in KState
           /\ SameLists(S, T) /\ SameLocks(S, T) /\ SameStock(S, T)
           /\ T.priority = S.priority /\ T.current_priority = S.current_priority
           /\ T.nominal_priority = S.nominal_priority /\ T.failed = S.failed
           /\ T.wakeup_callback = S.wakeup_callback \ {t}
           /\ T.wakeup_event = S.wakeup_event /\ T.timed = S.timed
           /\ T.result = S.result /\ T.granted = S.granted
           /\ T.status = [S.status EXCEPT ![t] = "Ready"]
  <1>1. T = [S EXCEPT !.wakeup_callback = @ \ {t}, !.status[t] = "Ready"]
    BY DEF ResumeFromWait, Claim, Waiting
  <1>2. PICK c, s : c = S.wakeup_callback \ {t} /\ s = [S.status EXCEPT ![t] = "Ready"]
    OBVIOUS
  <1>3. c \in SUBSET Threads /\ s \in [Threads -> Statuses]
    BY <1>2 DEF KState, Statuses
  <1>4. T = [S EXCEPT !.wakeup_callback = c, !.status = s]
    BY <1>1, <1>2
  <1>5. /\ T \in KState
        /\ SameLists(S, T) /\ SameLocks(S, T) /\ SameStock(S, T)
        /\ T.priority = S.priority /\ T.current_priority = S.current_priority
        /\ T.nominal_priority = S.nominal_priority /\ T.failed = S.failed
        /\ T.wakeup_callback = c
        /\ T.wakeup_event = S.wakeup_event /\ T.timed = S.timed
        /\ T.result = S.result /\ T.granted = S.granted
        /\ T.status = s
    BY <1>3, <1>4, ZenonT(60) DEF KState, SameLists, SameLocks, SameStock
  <1> QED BY <1>2, <1>5

(* GetHighestPriorityReadyThread finds a thread that is ready if there is   *)
(* one.                                                                     *)
LEMMA HighestReady ==
    ASSUME NEW S \in KState, NEW o \in Objects, NEW t, t = GetHighestPriorityReadyThread(S, o)
    PROVE  \/ t = None /\ \A w \in Elements(S.waiting_threads[o]) : ~ReadyToRun(S, o, w)
           \/ t \in Elements(S.waiting_threads[o]) /\ t \in Threads /\ t # None /\ ReadyToRun(S, o, t)
  <1> DEFINE list == S.waiting_threads[o]
             prio(i) == S.current_priority[list[i]]
             ready == {i \in 1 .. Len(list) : ReadyToRun(S, o, list[i])}
             best == {i \in ready : \A j \in ready : prio(i) <= prio(j)}
             P == {prio(i) : i \in ready}
  <1>1. t = IF ready = {} THEN None ELSE list[Min(best)]
    BY DEF GetHighestPriorityReadyThread
  <1>2. list \in Seq(Threads) /\ S.current_priority \in [Threads -> Prio]
    BY DEF KState
  <1>3. CASE ready = {}
    <2>1. \A w \in Elements(list) : ~ReadyToRun(S, o, w)
      BY <1>3 DEF Elements
    <2> QED BY <1>1, <1>3, <2>1
  <1>4. CASE ready # {}
    <2>1. P \subseteq Nat /\ P # {}
      <3>1. \A i \in ready : list[i] \in Threads
        BY <1>2
      <3>2. \A i \in ready : prio(i) \in Prio
        BY <1>2, <3>1
      <3>3. Prio \subseteq Nat
        BY PriorityAssumption DEF Prio
      <3> HIDE DEF ready, prio
      <3> QED BY <1>4, <3>2, <3>3
    <2>2. PICK p \in P : \A x \in P : p <= x
      BY <2>1, LeastNatural
    <2>3. PICK i \in ready : p = prio(i)
      BY <2>2
    <2>4. best \subseteq Nat /\ i \in best
      BY <2>2, <2>3
    <2> HIDE DEF best
    <2>5. Min(best) \in best
      BY <2>4, Least
    <2>6. PICK k : k = Min(best)
      OBVIOUS
    <2>7. k \in 1 .. Len(list) /\ ReadyToRun(S, o, list[k]) /\ t = list[k]
      BY <1>1, <1>4, <2>5, <2>6 DEF best
    <2>8. t \in Elements(list) /\ t \in Threads
      BY <1>2, <2>7 DEF Elements
    <2> QED BY <2>7, <2>8, KindAssumption
  <1> QED BY <1>3, <1>4

(* What the wakeup callback writes on success. *)
LEMMA TellSuccessStep ==
    ASSUME NEW S \in KState, NEW t \in Threads, NEW q \in Seq(Objects), NEW T, T = TellSuccess(S, t, q)
    PROVE  /\ T \in KState
           /\ SameLists(S, T) /\ SameLocks(S, T) /\ SameStock(S, T) /\ SameRest(S, T)
           /\ T.priority = S.priority /\ T.current_priority = S.current_priority
           /\ T.wakeup_callback = S.wakeup_callback
           /\ T.wakeup_event = S.wakeup_event /\ T.timed = S.timed
           /\ \A u \in Threads \ {t} : T.result[u] = S.result[u] /\ T.granted[u] = S.granted[u]
           /\ t \in S.wakeup_callback => T.result[t] = "Success" /\ T.granted[t] = Elements(q)
  <1>1. CASE t \in S.wakeup_callback
    <2>1. PICK r, g : r = [S.result EXCEPT ![t] = "Success"] /\ g = [S.granted EXCEPT ![t] = Elements(q)]
      OBVIOUS
    <2>2. Elements(q) \in SUBSET Objects
      BY DEF Elements
    <2>3. S.result \in [Threads -> {"none", "Success", "Timeout"}] /\ S.granted \in [Threads -> SUBSET Objects]
      BY DEF KState
    <2>4. r \in [Threads -> {"none", "Success", "Timeout"}] /\ g \in [Threads -> SUBSET Objects]
      BY <2>1, <2>2, <2>3
    <2>5. T = [S EXCEPT !.result = r, !.granted = g]
      BY <1>1, <2>1 DEF TellSuccess
    <2>6. /\ T \in KState
          /\ SameLists(S, T) /\ SameLocks(S, T) /\ SameStock(S, T) /\ SameRest(S, T)
          /\ T.priority = S.priority /\ T.current_priority = S.current_priority
          /\ T.wakeup_callback = S.wakeup_callback
          /\ T.wakeup_event = S.wakeup_event /\ T.timed = S.timed
          /\ T.result = r /\ T.granted = g
      BY <2>4, <2>5, ZenonT(60) DEF KState, SameLists, SameLocks, SameStock, SameRest
    <2>7. \A u \in Threads : /\ T.result[u] = IF u = t THEN "Success" ELSE S.result[u]
                             /\ T.granted[u] = IF u = t THEN Elements(q) ELSE S.granted[u]
      BY <2>1, <2>3, <2>6
    <2> QED BY <2>6, <2>7
  <1>2. CASE t \notin S.wakeup_callback
    <2>1. T = S
      BY <1>2 DEF TellSuccess
    <2> QED BY <1>2, <2>1 DEF SameLists, SameLocks, SameStock, SameRest
  <1> QED BY <1>1, <1>2

(* WakeThread stays among the states. *)
LEMMA WakeThreadType ==
    ASSUME NEW S \in KState, NEW o \in Objects, NEW t \in Threads
    PROVE  WakeThread(S, o, t) \in KState
  <1>1. Wanted(S, o, t) \in Seq(Objects)
    <2>1. S.wait_objects[t] \in Seq(Objects) /\ <<o>> \in Seq(Objects)
      BY DEF KState
    <2> QED BY <2>1 DEF Wanted
  <1>2. PICK q \in Seq(Objects) : q = Wanted(S, o, t)
    BY <1>1
  <1>3. PICK A : A = AcquireAll(S, q, t)
    OBVIOUS
  <1>4. A \in KState
    BY <1>3, AcquireAllType
  <1>5. PICK B : B = TellSuccess(A, t, q)
    OBVIOUS
  <1>6. B \in KState
    BY <1>4, <1>5, TellSuccessStep
  <1>7. PICK C : C = LeaveWaitObjects(B, t)
    OBVIOUS
  <1>8. C \in KState
    BY <1>6, <1>7, LeaveType
  <1>9. WakeThread(S, o, t) = ResumeFromWait(C, t)
    BY <1>2, <1>3, <1>5, <1>7 DEF WakeThread
  <1> QED BY <1>8, <1>9, ResumeType

(* What a step does not do to a thread that is not waiting. *)
Spared(S, T) ==
    \A u \in Threads : S.status[u] \notin Waiting =>
        /\ T.status[u] = S.status[u]
        /\ T.held_mutexes[u] = S.held_mutexes[u]
        /\ T.wait_objects[u] = S.wait_objects[u]
        /\ \A m \in Mutexes : T.holding_thread[m] = u <=> S.holding_thread[m] = u

(* The wait of t has been answered, and with what it has acquired. *)
Served(S, B, t) ==
    /\ SameLists(S, B) /\ SameRest(S, B)
    /\ B.wakeup_callback = S.wakeup_callback /\ B.timed = S.timed
    /\ B.result[t] = "Success" <=> B.granted[t] # {}
    /\ B.granted[t] \cap Mutexes \subseteq B.held_mutexes[t]
    /\ \A u \in Threads \ {t} :
          /\ u \in B.wakeup_event <=> u \in S.wakeup_event
          /\ B.result[u] = S.result[u] /\ B.granted[u] = S.granted[u]
          /\ B.held_mutexes[u] = S.held_mutexes[u]
          /\ \A m \in Mutexes : B.holding_thread[m] = u <=> S.holding_thread[m] = u
    /\ \A p \in Objects, u \in Threads : ShouldWait(S, p, u) => ShouldWait(B, p, u)

(* ListInv depends on the lists only. *)
LEMMA ListInvSame ==
    ASSUME NEW S, NEW T, SameLists(S, T), ListInv(S)
    PROVE  ListInv(T)
  BY DEF ListInv, SameLists, Waiters

(* The thread t has been served: it leaves its lists, C, and resumes, T. *)
LEMMA WokenKeeps ==
    ASSUME NEW S, NEW D, NEW X, Good(S, D, X, {}), NEW t \in Threads, t \notin D,
           S.status[t] \in Waiting, NEW E, E \subseteq Elements(S.wait_objects[t]),
           NEW B \in KState, Served(S, B, t),
           MutexInv(B, D), PrioInv(B), InheritInv(B, E), CountInv(B),
           NEW C, C = LeaveWaitObjects(B, t), NEW T, T = ResumeFromWait(C, t)
    PROVE  /\ Good(T, D, X, {})
           /\ \A o \in Elements(S.wait_objects[t]) :
                 Len(T.waiting_threads[o]) = Len(S.waiting_threads[o]) - 1
           /\ Spared(S, T)
  <1>1. /\ S \in KState /\ S.failed = {} /\ ListInv(S) /\ FitsInv(S, D) /\ AnswerInv(S)
        /\ AvailInv(S, X) /\ MutexInv(S, D)
    BY DEF Good
  <1>0. SameLists(S, B) /\ SameRest(S, B)
    BY DEF Served
  <1>2. AllDead(B, D)
    BY <1>0, <1>1 DEF AllDead, FitsInv, SameRest
  <1>3. ListInv(B)
    <2>1. ListInv(S)
      BY <1>1
    <2> QED BY <1>0, <2>1, ListInvSame
  <1>4. /\ C \in KState
        /\ C.wait_objects = [B.wait_objects EXCEPT ![t] = << >>]
        /\ SameLocks(B, C) /\ SameStock(B, C) /\ SameAnswers(B, C) /\ SameRest(B, C)
        /\ ListInv(C)
        /\ PrioInv(C)
        /\ InheritInv(C, E \ Elements(B.wait_objects[t]))
        /\ \A p \in Elements(B.wait_objects[t]) :
              Len(C.waiting_threads[p]) = Len(B.waiting_threads[p]) - 1
    <2>1. HasLeft(B, C, t, E)
      BY <1>2, <1>3, LeaveKeeps
    <2> QED BY <2>1 DEF HasLeft
  <1>5. S.wait_objects \in [Threads -> Seq(Objects)] /\ S.status \in [Threads -> Statuses]
    BY <1>1 DEF KState
  <1>6. C.status = S.status /\ C.failed = S.failed /\ C.nominal_priority = S.nominal_priority
    BY <1>0, <1>4 DEF SameRest
  <1>7. C.wait_objects[t] = << >> /\ \A u \in Threads \ {t} : C.wait_objects[u] = S.wait_objects[u]
    BY <1>0, <1>4, <1>5 DEF SameLists
  <1>8. /\ T \in KState
        /\ SameLists(C, T) /\ SameLocks(C, T) /\ SameStock(C, T)
        /\ T.priority = C.priority /\ T.current_priority = C.current_priority
        /\ T.nominal_priority = C.nominal_priority /\ T.failed = C.failed
        /\ T.wakeup_callback = C.wakeup_callback \ {t}
        /\ T.wakeup_event = C.wakeup_event /\ T.timed = C.timed
        /\ T.result = C.result /\ T.granted = C.granted
        /\ T.status = [C.status EXCEPT ![t] = "Ready"]
    <2>1. C \in KState
      BY <1>4
    <2>2. C.status[t] \in Waiting \cup {"WaitSleep"}
      BY <1>6
    <2> QED BY <1>7, <2>1, <2>2, ResumeStep
  <1>9. \A u \in Threads : T.status[u] = IF u = t THEN "Ready" ELSE S.status[u]
    BY <1>5, <1>6, <1>8
  <1>10. /\ T.held_mutexes = B.held_mutexes /\ T.holding_thread = B.holding_thread
         /\ T.lock_count = B.lock_count
         /\ T.available_count = B.available_count /\ T.signaled = B.signaled
         /\ T.result = B.result /\ T.granted = B.granted
         /\ T.wakeup_callback = S.wakeup_callback \ {t}
         /\ T.wakeup_event = B.wakeup_event /\ T.timed = S.timed
    BY <1>4, <1>8 DEF SameLocks, SameStock, SameAnswers, Served
  <1>11. \A u \in Threads : T.wait_objects[u] = IF u = t THEN << >> ELSE S.wait_objects[u]
    BY <1>7, <1>8 DEF SameLists
  <1>12. CountInv(T)
    BY <1>10 DEF CountInv
  <1>13. ListInv(T)
    <2>1. ListInv(C) /\ SameLists(C, T)
      BY <1>4, <1>8
    <2> QED BY <2>1, ListInvSame
  <1>14. FitsInv(T, D)
    <2>1. ASSUME NEW u \in Threads \ D
          PROVE  T.wait_objects[u] # << >> <=> T.status[u] \in Waiting
      <3>1. CASE u = t
        BY <1>9, <1>11, <3>1 DEF Waiting
      <3>2. CASE u # t
        BY <1>1, <1>9, <1>11, <3>2 DEF FitsInv
      <3> QED BY <3>1, <3>2
    <2>2. \A u \in D : T.status[u] = "Dead"
      BY <1>1, <1>5, <1>6, <1>8 DEF FitsInv
    <2> QED BY <2>1, <2>2 DEF FitsInv
  <1>15. \A u \in Threads : T.status[u] = "Dead" <=> B.status[u] = "Dead"
    BY <1>0, <1>9 DEF SameRest, Waiting
  <1>16. MutexInv(T, D)
    BY <1>10, <1>15 DEF MutexInv
  <1>17. PrioInv(T)
    <2>1. ASSUME NEW u \in Threads, T.status[u] # "Dead"
          PROVE  T.current_priority[u] = BestPriority(T, u)
      <3>1. C.status[u] # "Dead"
        BY <1>0, <1>6, <1>15, <2>1 DEF SameRest
      <3>2. C.current_priority[u] = BestPriority(C, u)
        BY <1>4, <3>1 DEF PrioInv
      <3>3. SameBest(C, T, u)
        BY <1>8 DEF SameBest, SameLocks
      <3> QED BY <1>8, <3>2, <3>3, BestPrioritySame
    <2> QED BY <2>1 DEF PrioInv
  <1>18. AnswerInv(T)
    <2> SUFFICES ASSUME NEW u \in Threads
                 PROVE  /\ T.status[u] = "Ready" =>
                              /\ T.result[u] = "Success" <=> T.granted[u] # {}
                              /\ T.granted[u] \cap Mutexes \subseteq T.held_mutexes[u]
                        /\ T.status[u] \in Waiting \cup {"Running", "WaitSleep"} =>
                              T.result[u] = "none" /\ T.granted[u] = {}
                        /\ T.status[u] \in {"Ready", "Running", "WaitSleep"} => u \notin T.wakeup_callback
                        /\ T.status[u] \in Waiting =>
                              u \in T.wakeup_callback /\ (u \in T.wakeup_event => u \in T.timed)
                        /\ T.status[u] \in {"Running", "Dead"} => u \notin T.wakeup_event
      BY DEF AnswerInv
    <2>1. CASE u = t
      BY <1>9, <1>10, <2>1 DEF Waiting, Served
    <2>2. CASE u # t
      <3>1. /\ T.status[u] = S.status[u] /\ T.result[u] = S.result[u] /\ T.granted[u] = S.granted[u]
            /\ T.held_mutexes[u] = S.held_mutexes[u]
            /\ u \in T.wakeup_callback <=> u \in S.wakeup_callback
            /\ u \in T.wakeup_event <=> u \in S.wakeup_event
        BY <1>9, <1>10, <2>2 DEF Served
      <3> QED BY <1>1, <1>10, <3>1 DEF AnswerInv
    <2> QED BY <2>1, <2>2
  <1>19. ASSUME NEW p \in Objects, NEW u \in Threads, ShouldWait(S, p, u) PROVE ShouldWait(T, p, u)
    <2>1. ShouldWait(B, p, u)
      BY <1>19 DEF Served
    <2> QED BY <1>10, <1>15, <2>1 DEF ShouldWait
  <1>20. AvailInv(T, X)
    <2> SUFFICES ASSUME NEW u \in Threads
                 PROVE  /\ T.status[u] = "WaitSynchAny" =>
                              \A p \in Elements(T.wait_objects[u]) \ X : ShouldWait(T, p, u)
                        /\ T.status[u] = "WaitSynchAll" =>
                              \E p \in Elements(T.wait_objects[u]) : p \in X \/ ShouldWait(T, p, u)
      BY DEF AvailInv
    <2>1. CASE u = t
      BY <1>9, <2>1
    <2>2. CASE u # t
      <3>1. T.status[u] = S.status[u] /\ T.wait_objects[u] = S.wait_objects[u]
        BY <1>9, <1>11, <2>2
      <3>2. Elements(S.wait_objects[u]) \subseteq Objects
        BY <1>5 DEF Elements
      <3>3. /\ S.status[u] = "WaitSynchAny" =>
                  \A p \in Elements(S.wait_objects[u]) \ X : ShouldWait(S, p, u)
            /\ S.status[u] = "WaitSynchAll" =>
                  \E p \in Elements(S.wait_objects[u]) : p \in X \/ ShouldWait(S, p, u)
        BY <1>1 DEF AvailInv
      <3> QED BY <1>19, <3>1, <3>2, <3>3
    <2> QED BY <2>1, <2>2
  <1>21. InheritInv(T, {})
    <2>1. E \ Elements(B.wait_objects[t]) = {}
      BY <1>0 DEF SameLists
    <2>2. InheritInv(C, {})
      BY <1>4, <2>1
    <2>3. ASSUME NEW m \in Mutexes, NEW w \in Elements(T.waiting_threads[m]), Plain(T, w)
          PROVE  Plain(C, w)
      <3>1. w \in Threads
        <4>1. T.waiting_threads[m] \in Seq(Threads)
          BY <1>8 DEF KState, Objects
        <4> QED BY <4>1 DEF Elements
      <3>2. C.status[w] = "WaitSynchAny"
        BY <1>6, <1>9, <2>3, <3>1 DEF Plain
      <3> QED BY <1>8, <2>3, <3>2 DEF Plain, SameLocks
    <2>4. \A m \in Mutexes : T.holding_thread[m] # None => Unmoved(C, T, m)
      BY <1>8, <2>3 DEF Unmoved, SameLists, SameLocks
    <2> QED BY <2>2, <2>4, InheritKept
  <1>22. T.failed = {}
    BY <1>1, <1>6, <1>8
  <1>23. Good(T, D, X, {})
    BY <1>8, <1>12, <1>13, <1>14, <1>16, <1>17, <1>18, <1>20, <1>21, <1>22 DEF Good
  <1>24. \A o \in Elements(S.wait_objects[t]) :
            Len(T.waiting_threads[o]) = Len(S.waiting_threads[o]) - 1
    BY <1>0, <1>4, <1>8 DEF SameLists
  <1>25. Spared(S, T)
    <2> SUFFICES ASSUME NEW u \in Threads, S.status[u] \notin Waiting
                 PROVE  /\ T.status[u] = S.status[u]
                        /\ T.held_mutexes[u] = S.held_mutexes[u]
                        /\ T.wait_objects[u] = S.wait_objects[u]
                        /\ \A m \in Mutexes : T.holding_thread[m] = u <=> S.holding_thread[m] = u
      BY DEF Spared
    <2>1. u # t
      OBVIOUS
    <2> QED BY <1>9, <1>10, <1>11, <2>1 DEF Served
  <1> QED BY <1>23, <1>24, <1>25

(* None of the threads in D waits for o. *)
Absent(S, D, o) == \A d \in D : o \notin Elements(S.wait_objects[d])

(* A thread waits for o exactly when it is in the list of o. *)
LEMMA WaitersOf ==
    ASSUME NEW S, ListInv(S), NEW o \in Objects, NEW t
    PROVE  t \in Elements(S.waiting_threads[o]) <=> t \in Threads /\ o \in Elements(S.wait_objects[t])
  BY DEF ListInv, Holds, Waiters

(* A thread in a list is waiting. *)
LEMMA WaiterWaits ==
    ASSUME NEW S, NEW D, NEW X, NEW E, Good(S, D, X, E), NEW o \in Objects, Absent(S, D, o),
           NEW t \in Elements(S.waiting_threads[o])
    PROVE  t \in Threads /\ t \notin D /\ o \in Elements(S.wait_objects[t]) /\ S.status[t] \in Waiting
  <1>1. ListInv(S) /\ FitsInv(S, D)
    BY DEF Good
  <1>2. t \in Threads /\ o \in Elements(S.wait_objects[t])
    BY <1>1, WaitersOf
  <1>3. t \notin D
    BY <1>2 DEF Absent
  <1>4. S.wait_objects[t] # << >>
    BY <1>2 DEF Elements
  <1> QED BY <1>1, <1>2, <1>3, <1>4 DEF FitsInv

(* A ready thread is served with what it wants and wakes. *)
LEMMA WakeThreadKeeps ==
    ASSUME NEW S, NEW D, NEW o \in Objects, Good(S, D, {o}, {}), Absent(S, D, o),
           NEW t \in Elements(S.waiting_threads[o]), ReadyToRun(S, o, t),
           NEW T, T = WakeThread(S, o, t)
    PROVE  /\ Good(T, D, {o}, {})
           /\ Len(T.waiting_threads[o]) = Len(S.waiting_threads[o]) - 1
           /\ Spared(S, T)
  <1>1. t \in Threads /\ t \notin D /\ o \in Elements(S.wait_objects[t]) /\ S.status[t] \in Waiting
    BY WaiterWaits
  <1>2. S \in KState
    BY DEF Good
  <1>3. /\ ListInv(S) /\ FitsInv(S, D) /\ MutexInv(S, D) /\ PrioInv(S) /\ CountInv(S)
        /\ AvailInv(S, {o}) /\ InheritInv(S, {}) /\ AnswerInv(S)
    BY DEF Good
  <1>4. PICK q : q = Wanted(S, o, t)
    OBVIOUS
  <1>5. /\ q \in Seq(Objects)
        /\ \A i, j \in 1 .. Len(q) : q[i] = q[j] => i = j
        /\ o \in Elements(q)
        /\ \A p \in Elements(q) : p \in Elements(S.wait_objects[t]) /\ ~ShouldWait(S, p, t)
    <2>1. CASE S.status[t] = "WaitSynchAll"
      <3>1. q = S.wait_objects[t]
        BY <1>4, <2>1 DEF Wanted
      <3>2. S.wait_objects[t] \in Seq(Objects)
        BY <1>1, <1>2 DEF KState
      <3>3. \A i, j \in 1 .. Len(S.wait_objects[t]) :
                S.wait_objects[t][i] = S.wait_objects[t][j] => i = j
        BY <1>1, <1>3 DEF ListInv
      <3>4. \A p \in Elements(S.wait_objects[t]) : ~ShouldWait(S, p, t)
        BY <2>1 DEF ReadyToRun
      <3> QED BY <1>1, <3>1, <3>2, <3>3, <3>4
    <2>2. CASE S.status[t] # "WaitSynchAll"
      <3>1. q = <<o>>
        BY <1>4, <2>2 DEF Wanted
      <3>2. q \in Seq(Objects) /\ Len(q) = 1 /\ q[1] = o
        BY <3>1
      <3>3. Elements(q) = {o}
        BY <3>2 DEF Elements
      <3>4. ~ShouldWait(S, o, t)
        BY DEF ReadyToRun
      <3> QED BY <1>1, <3>2, <3>3, <3>4
    <2> QED BY <2>1, <2>2
  <1>6. PICK F : F = {o}
    OBVIOUS
  <1>7. InheritInv(S, F)
    BY <1>3 DEF InheritInv, Lends, Plain
  <1>8. \A p \in Elements(q) : NoRival(S, p, t, F)
    <2> SUFFICES ASSUME NEW p \in Elements(q), p \in Mutexes, p # o, S.lock_count[p] = 0,
                        NEW w \in Elements(S.waiting_threads[p]), S.status[w] = "WaitSynchAny"
                 PROVE  FALSE
      BY <1>6 DEF NoRival
    <2>1. p \in Objects
      BY DEF Objects
    <2>2. w \in Threads /\ p \in Elements(S.wait_objects[w])
      BY <1>3, <2>1, WaitersOf
    <2>3. ShouldWait(S, p, w)
      BY <1>3, <2>2 DEF AvailInv
    <2> QED BY <2>1, <2>3, KindAssumption DEF ShouldWait, Resettable
  <1>9. AllDead(S, D)
    BY <1>3 DEF FitsInv, AllDead
  <1>10. PICK A : A = AcquireAll(S, q, t)
    OBVIOUS
  <1>11. /\ A \in KState
         /\ Acquiring(S, A, t, Elements(q))
         /\ MutexInv(A, D) /\ PrioInv(A) /\ InheritInv(A, F) /\ CountInv(A)
    <2>1. t \in Threads /\ S.status[t] # "Dead"
      BY <1>1 DEF Waiting
    <2>2. q \in Seq(Objects)
      BY <1>5
    <2>3. \A i, j \in 1 .. Len(q) : q[i] = q[j] => i = j
      BY <1>5
    <2>4. \A p \in Elements(q) : ~ShouldWait(S, p, t)
      BY <1>5
    <2>5. \A u \in D : S.status[u] = "Dead"
      BY <1>9 DEF AllDead
    <2> QED BY <1>2, <1>3, <1>7, <1>8, <1>10, <2>1, <2>2, <2>3, <2>4, <2>5, AcquireAllKeeps
  <1>12. PICK B : B = TellSuccess(A, t, q)
    OBVIOUS
  <1>13. /\ B \in KState
         /\ SameLists(A, B) /\ SameLocks(A, B) /\ SameStock(A, B) /\ SameRest(A, B)
         /\ B.priority = A.priority /\ B.current_priority = A.current_priority
         /\ B.wakeup_callback = A.wakeup_callback
         /\ B.wakeup_event = A.wakeup_event /\ B.timed = A.timed
         /\ \A u \in Threads \ {t} : B.result[u] = A.result[u] /\ B.granted[u] = A.granted[u]
         /\ t \in A.wakeup_callback => B.result[t] = "Success" /\ B.granted[t] = Elements(q)
    <2>1. A \in KState /\ t \in Threads /\ q \in Seq(Objects)
      BY <1>1, <1>5, <1>11
    <2> QED BY <1>12, <2>1, TellSuccessStep
  <1>14. Served(S, B, t)
    <2>1. Elements(q) # {}
      BY <1>5
    <2>2. SameLists(S, B) /\ SameRest(S, B)
      BY <1>11, <1>13 DEF Acquiring, SameLists, SameRest
    <2>3. /\ B.wakeup_callback = S.wakeup_callback /\ B.wakeup_event = S.wakeup_event /\ B.timed = S.timed
          /\ A.wakeup_callback = S.wakeup_callback /\ A.result = S.result /\ A.granted = S.granted
      BY <1>11, <1>13 DEF Acquiring, SameAnswers
    <2>4. t \in A.wakeup_callback
      BY <1>1, <1>3, <2>3 DEF AnswerInv
    <2>5. B.held_mutexes = A.held_mutexes /\ B.holding_thread = A.holding_thread
      BY <1>13 DEF SameLocks
    <2>6. Elements(q) \cap Mutexes \subseteq B.held_mutexes[t]
      BY <1>11, <2>5 DEF Acquiring
    <2>7. \A u \in Threads \ {t} :
            /\ B.result[u] = S.result[u] /\ B.granted[u] = S.granted[u]
            /\ B.held_mutexes[u] = S.held_mutexes[u]
            /\ \A m \in Mutexes : B.holding_thread[m] = u <=> S.holding_thread[m] = u
      BY <1>11, <1>13, <2>3, <2>5 DEF Acquiring
    <2>8. ASSUME NEW p \in Objects, NEW u \in Threads, ShouldWait(S, p, u) PROVE ShouldWait(B, p, u)
      <3>1. ShouldWait(A, p, u)
        BY <1>11, <2>8 DEF Acquiring
      <3> QED BY <1>13, <3>1 DEF ShouldWait, SameLocks, SameStock, SameRest
    <2>9. B.result[t] = "Success" /\ B.granted[t] = Elements(q)
      BY <1>13, <2>4
    <2> QED BY <2>1, <2>2, <2>3, <2>6, <2>7, <2>8, <2>9 DEF Served
  <1>15. MutexInv(B, D)
    BY <1>11, <1>13 DEF MutexInv, SameLocks, SameRest
  <1>16. PrioInv(B)
    BY <1>11, <1>13 DEF PrioInv, BestPriority, SameLocks, SameRest
  <1>17. InheritInv(B, F) /\ F \subseteq Elements(S.wait_objects[t])
    BY <1>1, <1>6, <1>11, <1>13 DEF InheritInv, Lends, Plain, SameLists, SameLocks, SameRest
  <1>18. CountInv(B)
    BY <1>11, <1>13 DEF CountInv, SameStock
  <1>19. PICK C : C = LeaveWaitObjects(B, t)
    OBVIOUS
  <1>20. T = ResumeFromWait(C, t)
    BY <1>4, <1>10, <1>12, <1>19 DEF WakeThread
  <1>21. B \in KState
    BY <1>13
  <1>22. t \in Threads /\ t \notin D /\ S.status[t] \in Waiting
    BY <1>1
  <1>23. PICK X : X = {o}
    OBVIOUS
  <1>24. Good(S, D, X, {})
    BY <1>23
  <1>25. /\ Good(T, D, X, {})
         /\ \A p \in Elements(S.wait_objects[t]) :
               Len(T.waiting_threads[p]) = Len(S.waiting_threads[p]) - 1
         /\ Spared(S, T)
    BY <1>14, <1>15, <1>16, <1>17, <1>18, <1>19, <1>20, <1>21, <1>22, <1>24, WokenKeeps
  <1> QED BY <1>1, <1>23, <1>25

(* No thread in the list of o could run. *)
Quiet(S, o) == \A w \in Elements(S.waiting_threads[o]) : ~ReadyToRun(S, o, w)

(* WakeTurn stays among the states. *)
LEMMA WakeTurnType ==
    ASSUME NEW S \in KState, NEW o \in Objects
    PROVE  WakeTurn(S, o) \in KState
  <1> DEFINE ok == Claim(S, \A w \in Elements(S.waiting_threads[o]) : S.status[w] \in Waiting,
                         "Inconsistent thread statuses in waiting_threads")
             t == GetHighestPriorityReadyThread(S, o)
  <1>1. ok \in KState
    <2>1. "Inconsistent thread statuses in waiting_threads" \in Assertions
      BY DEF Assertions
    <2>2. [S EXCEPT !.failed = @ \cup {"Inconsistent thread statuses in waiting_threads"}] \in KState
      BY <2>1, FailType
    <2> QED BY <2>2, Zenon DEF Claim
  <1>2. t = None \/ t \in Threads
    BY HighestReady
  <1>3. WakeTurn(S, o) = IF ok.failed = {} /\ t # None THEN WakeThread(ok, o, t) ELSE ok
    BY DEF WakeTurn
  <1> HIDE DEF ok, t
  <1>4. t # None => WakeThread(ok, o, t) \in KState
    BY <1>1, <1>2, WakeThreadType
  <1> QED BY <1>1, <1>3, <1>4

(* One turn serves a ready thread, or there is none. *)
LEMMA WakeTurnKeeps ==
    ASSUME NEW S, NEW D, NEW o \in Objects, Good(S, D, {o}, {}), Absent(S, D, o),
           NEW T, T = WakeTurn(S, o)
    PROVE  /\ Good(T, D, {o}, {})
           /\ Spared(S, T)
           /\ \/ Quiet(S, o) /\ Quiet(T, o)
              \/ ~Quiet(S, o) /\ Len(T.waiting_threads[o]) = Len(S.waiting_threads[o]) - 1
  <1>1. S \in KState /\ S.failed = {}
    BY DEF Good
  <1>2. \A w \in Elements(S.waiting_threads[o]) : S.status[w] \in Waiting
    BY WaiterWaits
  <1>3. PICK t : t = GetHighestPriorityReadyThread(S, o)
    OBVIOUS
  <1>4. T = IF t # None THEN WakeThread(S, o, t) ELSE S
    BY <1>1, <1>2, <1>3 DEF WakeTurn, Claim
  <1>5. \/ t = None /\ \A w \in Elements(S.waiting_threads[o]) : ~ReadyToRun(S, o, w)
        \/ t \in Elements(S.waiting_threads[o]) /\ t \in Threads /\ t # None /\ ReadyToRun(S, o, t)
    BY <1>1, <1>3, HighestReady
  <1>6. CASE t = None
    <2>1. T = S
      BY <1>4, <1>6
    <2> QED BY <1>5, <1>6, <2>1 DEF Quiet, Spared
  <1>7. CASE t # None
    <2>1. T = WakeThread(S, o, t)
      BY <1>4, <1>7
    <2>2. t \in Elements(S.waiting_threads[o]) /\ ReadyToRun(S, o, t)
      BY <1>5, <1>7
    <2>3. /\ Good(T, D, {o}, {})
          /\ Len(T.waiting_threads[o]) = Len(S.waiting_threads[o]) - 1
          /\ Spared(S, T)
      BY <2>1, <2>2, WakeThreadKeeps
    <2> QED BY <2>2, <2>3 DEF Quiet
  <1> QED BY <1>6, <1>7

(* The loop of WakeAll. *)
WakeSteps(f, S, o) ==
    f = [i \in 0 .. Len(S.waiting_threads[o]) |-> IF i = 0 THEN S ELSE WakeTurn(f[i - 1], o)]

(* WakeAll as a sequence of turns. *)
LEMMA WakeLoop ==
    ASSUME NEW S \in KState, NEW o \in Objects
    PROVE  \E f : /\ f[0] = S
                  /\ \A i \in 1 .. Len(S.waiting_threads[o]) : f[i] = WakeTurn(f[i - 1], o)
                  /\ \A i \in 0 .. Len(S.waiting_threads[o]) : f[i] \in KState
                  /\ WakeAll(S, o) = f[Len(S.waiting_threads[o])]
  <1> DEFINE N == Len(S.waiting_threads[o])
             g == [i \in 1 .. N |-> [x \in KState |-> WakeTurn(x, o)]]
  <1>1. N \in Nat
    BY DEF KState
  <1>2. \A i \in 1 .. N : \A x \in KState : g[i][x] = WakeTurn(x, o)
    BY Zenon
  <1>3. \A i \in 1 .. N : \A x \in KState : g[i][x] \in KState
    BY <1>2, WakeTurnType
  <1> HIDE DEF g, N
  <1>4. PICK h : LoopOf(h, g, N, S, KState)
    BY <1>1, <1>3, LoopExists
  <1>5. WakeSteps(h, S, o)
    <2>1. ASSUME NEW i \in 1 .. N PROVE g[i][h[i - 1]] = WakeTurn(h[i - 1], o)
      <3>1. h[i - 1] \in KState
        BY <1>1, <1>4 DEF LoopOf
      <3> QED BY <1>2, <3>1
    <2>2. \A i \in 0 .. N : i # 0 => i \in 1 .. N
      BY <1>1
    <2>3. h = [i \in 0 .. N |-> IF i = 0 THEN S ELSE WakeTurn(h[i - 1], o)]
      BY <1>4, <2>1, <2>2 DEF LoopOf
    <2> QED BY <2>3 DEF WakeSteps, N
  <1>6. PICK f : WakeSteps(f, S, o) /\ WakeAll(S, o) = f[N]
    BY <1>5, Zenon DEF WakeSteps, WakeAll, N
  <1>7. \A i \in 0 .. N : f[i] = IF i = 0 THEN S ELSE WakeTurn(f[i - 1], o)
    BY <1>6, Zenon DEF WakeSteps, N
  <1>8. f[0] = S /\ \A i \in 1 .. N : f[i] = WakeTurn(f[i - 1], o)
    BY <1>1, <1>7
  <1>9. \A i \in 0 .. N : f[i] \in KState
    <2>1. \A i \in 1 .. N : f[i - 1] \in KState => f[i] \in KState
      BY <1>8, WakeTurnType
    <2> QED BY <1>1, <1>8, <2>1, LoopTyped
  <1> QED BY <1>6, <1>8, <1>9 DEF N

(* What each of two steps spares, both together spare. *)
LEMMA SparedTwice ==
    ASSUME NEW S, NEW T, NEW U, Spared(S, T), Spared(T, U)
    PROVE  Spared(S, U)
  BY DEF Spared

(* A thread that is not waiting does not join a list. *)
LEMMA SparedAbsent ==
    ASSUME NEW S, NEW T, NEW D, NEW o, Spared(S, T), D \subseteq Threads, AllDead(S, D), Absent(S, D, o)
    PROVE  Absent(T, D, o)
  BY DEF Spared, AllDead, Absent, Waiting

(* After as many turns as the list has threads, no thread in it is ready. *)
LEMMA WakeAllKeeps ==
    ASSUME NEW S, NEW D, D \subseteq Threads, NEW o \in Objects, Good(S, D, {o}, {}), Absent(S, D, o),
           NEW T, T = WakeAll(S, o)
    PROVE  Good(T, D, {o}, {}) /\ Spared(S, T) /\ Quiet(T, o)
  <1> DEFINE N == Len(S.waiting_threads[o])
  <1>1. S \in KState /\ AllDead(S, D)
    BY DEF Good, FitsInv, AllDead
  <1>2. N \in Nat
    BY <1>1 DEF KState
  <1>3. PICK f : /\ f[0] = S
                 /\ \A i \in 1 .. N : f[i] = WakeTurn(f[i - 1], o)
                 /\ \A i \in 0 .. N : f[i] \in KState
                 /\ WakeAll(S, o) = f[N]
    BY <1>1, WakeLoop
  <1> DEFINE Done(x, n) == /\ Good(x, D, {o}, {}) /\ Absent(x, D, o) /\ Spared(S, x)
                           /\ Quiet(x, o) \/ Len(x.waiting_threads[o]) <= N - n
             I == {n \in 0 .. N : Done(f[n], n)}
  <1>4. 0 \in I
    <2>1. Done(S, 0)
      BY <1>2 DEF Spared
    <2> QED BY <1>2, <1>3, <2>1
  <1>5. ASSUME NEW n \in 0 .. N - 1, n \in I PROVE n + 1 \in I
    <2>1. n + 1 \in 1 .. N /\ n + 1 \in 0 .. N /\ (n + 1) - 1 = n /\ n \in 0 .. N
      BY <1>2
    <2>2. PICK x : x = f[n]
      OBVIOUS
    <2>3. PICK y : y = f[n + 1]
      OBVIOUS
    <2>4. y = WakeTurn(x, o)
      BY <1>3, <2>1, <2>2, <2>3
    <2>5. Done(x, n)
      BY <1>5, <2>2
    <2>6. Good(x, D, {o}, {}) /\ Absent(x, D, o) /\ Spared(S, x)
      BY <2>5
    <2>7. Quiet(x, o) \/ Len(x.waiting_threads[o]) <= N - n
      BY <2>5
    <2>8. x \in KState /\ AllDead(x, D)
      BY <2>6 DEF Good, FitsInv, AllDead
    <2> HIDE DEF Done, I, N
    <2>9. /\ Good(y, D, {o}, {})
          /\ Spared(x, y)
          /\ \/ Quiet(x, o) /\ Quiet(y, o)
             \/ ~Quiet(x, o) /\ Len(y.waiting_threads[o]) = Len(x.waiting_threads[o]) - 1
      <3>1. Good(x, D, {o}, {})
        BY <2>6
      <3>2. Absent(x, D, o)
        BY <2>6
      <3>3. Good(y, D, {o}, {})
        BY <2>4, <3>1, <3>2, WakeTurnKeeps
      <3>4. Spared(x, y)
        BY <2>4, <3>1, <3>2, WakeTurnKeeps
      <3>5. \/ Quiet(x, o) /\ Quiet(y, o)
            \/ ~Quiet(x, o) /\ Len(y.waiting_threads[o]) = Len(x.waiting_threads[o]) - 1
        BY <2>4, <3>1, <3>2, WakeTurnKeeps
      <3> QED BY <3>3, <3>4, <3>5
    <2>10. Spared(S, y)
      BY <2>6, <2>9, SparedTwice
    <2>11. Absent(y, D, o)
      BY <2>6, <2>8, <2>9, SparedAbsent
    <2>12. Quiet(y, o) \/ Len(y.waiting_threads[o]) <= N - (n + 1)
      <3>1. Len(x.waiting_threads[o]) \in Nat
        BY <2>8 DEF KState
      <3> QED BY <1>2, <2>7, <2>9, <3>1
    <2> QED BY <2>1, <2>3, <2>9, <2>10, <2>11, <2>12 DEF Done, I
  <1>6. \A n \in 0 .. N : n \in I
    <2> HIDE DEF I
    <2> QED BY <1>2, <1>4, <1>5, LoopInduction
  <1>7. Done(f[N], N) /\ f[N] \in KState
    <2>1. N \in 0 .. N
      BY <1>2
    <2> QED BY <1>3, <1>6, <2>1
  <1>8. T = f[N] /\ T \in KState
    BY <1>3, <1>7
  <1>9. Good(T, D, {o}, {}) /\ Spared(S, T)
    BY <1>7, <1>8
  <1>10. Quiet(T, o) \/ Len(T.waiting_threads[o]) <= N - N
    BY <1>7, <1>8
  <1>11. Quiet(T, o)
    <2>1. Len(T.waiting_threads[o]) \in Nat
      BY <1>8 DEF KState
    <2>2. Len(T.waiting_threads[o]) = 0 => Elements(T.waiting_threads[o]) = {}
      BY DEF Elements
    <2> QED BY <1>2, <1>10, <2>1, <2>2 DEF Quiet
  <1> QED BY <1>9, <1>11

(* Nobody waits for what it could have once the list of o is quiet. *)
LEMMA QuietAvail ==
    ASSUME NEW S, NEW o \in Objects, ListInv(S), AvailInv(S, {o}), Quiet(S, o)
    PROVE  AvailInv(S, {})
  <1> SUFFICES ASSUME NEW u \in Threads
               PROVE  /\ S.status[u] = "WaitSynchAny" =>
                            \A p \in Elements(S.wait_objects[u]) : ShouldWait(S, p, u)
                      /\ S.status[u] = "WaitSynchAll" =>
                            \E p \in Elements(S.wait_objects[u]) : ShouldWait(S, p, u)
    BY DEF AvailInv
  <1>1. /\ S.status[u] = "WaitSynchAny" =>
              \A p \in Elements(S.wait_objects[u]) \ {o} : ShouldWait(S, p, u)
        /\ S.status[u] = "WaitSynchAll" =>
              \E p \in Elements(S.wait_objects[u]) : p = o \/ ShouldWait(S, p, u)
    BY DEF AvailInv
  <1>2. o \in Elements(S.wait_objects[u]) => ~ReadyToRun(S, o, u)
    BY WaitersOf DEF Quiet
  <1> QED BY <1>1, <1>2 DEF ReadyToRun

(* WakeupAllWaitingThreads stays among the states. *)
LEMMA WakeupAllType ==
    ASSUME NEW S \in KState, NEW o \in Objects
    PROVE  WakeupAllWaitingThreads(S, o) \in KState
  <1>1. PICK x : x = WakeAll(S, o)
    OBVIOUS
  <1>2. x \in KState
    <2>1. Len(S.waiting_threads[o]) \in Nat
      BY DEF KState
    <2>2. Len(S.waiting_threads[o]) \in 0 .. Len(S.waiting_threads[o])
      BY <2>1
    <2> QED BY <1>1, <2>2, WakeLoop
  <1>3. PICK R : R = x.signaled \ {o}
    OBVIOUS
  <1>4. R \in SUBSET Resettable
    BY <1>2, <1>3 DEF KState
  <1>5. SetSignaled(x, R) \in KState
    BY <1>2, <1>4, SignaledStep
  <1>6. WakeupAllWaitingThreads(S, o) \in {x, SetSignaled(x, R)}
    BY <1>1, <1>3 DEF WakeupAllWaitingThreads, SetSignaled
  <1> QED BY <1>2, <1>5, <1>6

(* WakeupAllWaitingThreads of the one object whose waiters may be ready. *)
LEMMA WakeupAllKeeps ==
    ASSUME NEW S, NEW D, D \subseteq Threads, NEW o \in Objects, Good(S, D, {o}, {}), Absent(S, D, o),
           NEW T, T = WakeupAllWaitingThreads(S, o)
    PROVE  Good(T, D, {}, {}) /\ Spared(S, T)
  <1>1. PICK x : x = WakeAll(S, o)
    OBVIOUS
  <1>2. Good(x, D, {o}, {}) /\ Spared(S, x) /\ Quiet(x, o)
    BY <1>1, WakeAllKeeps
  <1>3. /\ x \in KState /\ x.failed = {} /\ ListInv(x) /\ FitsInv(x, D) /\ MutexInv(x, D) /\ PrioInv(x)
        /\ CountInv(x) /\ AnswerInv(x) /\ InheritInv(x, {})
    BY <1>2 DEF Good
  <1>4. AvailInv(x, {})
    BY <1>2, QuietAvail DEF Good
  <1>5. CASE o \in Resettable /\ ResetType[o] = "Pulse"
    <2>1. PICK R : R = x.signaled \ {o}
      OBVIOUS
    <2>2. R \in SUBSET Resettable
      BY <1>3, <2>1 DEF KState
    <2>3. T = SetSignaled(x, R)
      BY <1>1, <1>5, <2>1 DEF WakeupAllWaitingThreads, SetSignaled
    <2>4. T \in KState /\ ButStock(x, T) /\ T.signaled = R /\ T.available_count = x.available_count
      <3>1. x \in KState
        BY <1>3
      <3> QED BY <2>2, <2>3, <3>1, SignaledStep
    <2>5. ListInv(T) /\ FitsInv(T, D) /\ MutexInv(T, D) /\ PrioInv(T) /\ AnswerInv(T) /\ InheritInv(T, {})
      BY <1>3, <2>4, ButStockKeeps
    <2>6. CountInv(T)
      BY <1>3, <2>4 DEF CountInv
    <2>7. T.failed = {} /\ T.status = x.status /\ T.wait_objects = x.wait_objects
          /\ T.lock_count = x.lock_count /\ T.holding_thread = x.holding_thread
          /\ T.held_mutexes = x.held_mutexes
      BY <1>3, <2>4 DEF ButStock, SameLists, SameLocks, SameRest
    <2>8. \A p, u : ShouldWait(x, p, u) => ShouldWait(T, p, u)
      BY <2>1, <2>4, <2>7 DEF ShouldWait
    <2>9. AvailInv(T, {})
      BY <1>4, <2>7, <2>8 DEF AvailInv
    <2>10. Spared(S, T)
      BY <1>2, <2>7 DEF Spared
    <2> QED BY <2>4, <2>5, <2>6, <2>7, <2>9, <2>10 DEF Good
  <1>6. CASE ~(o \in Resettable /\ ResetType[o] = "Pulse")
    <2>1. T = x
      BY <1>1, <1>6 DEF WakeupAllWaitingThreads
    <2> QED BY <1>2, <1>3, <1>4, <2>1 DEF Good
  <1> QED BY <1>5, <1>6

-----------------------------------------------------------------------------
(* Stopping a thread. *)

(* A mutex whose holder is gone is free. *)
FreeMutex(S, m) == [S EXCEPT !.lock_count[m] = 0, !.holding_thread[m] = None]

(* What freeing a mutex changes. *)
LEMMA FreeMutexStep ==
    ASSUME NEW S \in KState, NEW m \in Mutexes, NEW T, T = FreeMutex(S, m)
    PROVE  /\ T \in KState
           /\ SameLists(S, T) /\ SameStock(S, T) /\ SameAnswers(S, T) /\ SameRest(S, T)
           /\ T.held_mutexes = S.held_mutexes
           /\ T.priority = S.priority /\ T.current_priority = S.current_priority
           /\ \A n \in Mutexes : /\ T.lock_count[n] = IF n = m THEN 0 ELSE S.lock_count[n]
                                 /\ T.holding_thread[n] = IF n = m THEN None ELSE S.holding_thread[n]
  <1>1. PICK c, h : c = [S.lock_count EXCEPT ![m] = 0] /\ h = [S.holding_thread EXCEPT ![m] = None]
    OBVIOUS
  <1>2. S.lock_count \in [Mutexes -> Nat] /\ S.holding_thread \in [Mutexes -> Threads \cup {None}]
    BY DEF KState
  <1>3. c \in [Mutexes -> Nat] /\ h \in [Mutexes -> Threads \cup {None}]
    BY <1>1, <1>2
  <1>4. T = [S EXCEPT !.lock_count = c, !.holding_thread = h]
    BY <1>1 DEF FreeMutex
  <1>5. /\ T \in KState
        /\ SameLists(S, T) /\ SameStock(S, T) /\ SameAnswers(S, T) /\ SameRest(S, T)
        /\ T.held_mutexes = S.held_mutexes
        /\ T.priority = S.priority /\ T.current_priority = S.current_priority
        /\ T.lock_count = c /\ T.holding_thread = h
    BY <1>3, <1>4, ZenonT(60) DEF KState, SameLists, SameStock, SameAnswers, SameRest
  <1>6. \A n \in Mutexes : /\ c[n] = IF n = m THEN 0 ELSE S.lock_count[n]
                           /\ h[n] = IF n = m THEN None ELSE S.holding_thread[n]
    BY <1>1, <1>2
  <1> QED BY <1>5, <1>6

(* AbandonMutex stays among the states. *)
LEMMA AbandonType ==
    ASSUME NEW S \in KState, NEW m \in Mutexes
    PROVE  AbandonMutex(S, m) \in KState
  <1>1. PICK A : A = FreeMutex(S, m)
    OBVIOUS
  <1>2. A \in KState
    BY <1>1, FreeMutexStep
  <1>3. AbandonMutex(S, m) = WakeupAllWaitingThreads(A, m)
    BY <1>1 DEF AbandonMutex, FreeMutex
  <1>4. m \in Objects
    BY DEF Objects
  <1> QED BY <1>2, <1>3, <1>4, WakeupAllType

(* T comes from S when the stopped thread t loses the mutex m. *)
Abandoned(S, T, t, m) ==
    /\ T.wait_objects[t] = << >>
    /\ T.held_mutexes[t] = S.held_mutexes[t]
    /\ \A n \in Mutexes : T.holding_thread[n] = t <=> n # m /\ S.holding_thread[n] = t

(* One turn of ReleaseThreadMutexes for the stopped thread t. *)
LEMMA AbandonKeeps ==
    ASSUME NEW S, NEW t \in Threads, Good(S, {t}, {}, {}), S.wait_objects[t] = << >>,
           NEW m \in Mutexes, S.holding_thread[m] = t, NEW T, T = AbandonMutex(S, m)
    PROVE  Good(T, {t}, {}, {}) /\ Abandoned(S, T, t, m)
  <1>1. /\ S \in KState /\ S.failed = {} /\ ListInv(S) /\ FitsInv(S, {t}) /\ MutexInv(S, {t}) /\ PrioInv(S)
        /\ CountInv(S) /\ AnswerInv(S) /\ AvailInv(S, {}) /\ InheritInv(S, {})
    BY DEF Good
  <1>2. PICK A : A = FreeMutex(S, m)
    OBVIOUS
  <1>3. /\ A \in KState
        /\ SameLists(S, A) /\ SameStock(S, A) /\ SameAnswers(S, A) /\ SameRest(S, A)
        /\ A.held_mutexes = S.held_mutexes
        /\ A.priority = S.priority /\ A.current_priority = S.current_priority
        /\ \A n \in Mutexes : /\ A.lock_count[n] = IF n = m THEN 0 ELSE S.lock_count[n]
                              /\ A.holding_thread[n] = IF n = m THEN None ELSE S.holding_thread[n]
    <2>1. S \in KState
      BY <1>1
    <2> QED BY <1>2, <2>1, FreeMutexStep
  <1>4. T = WakeupAllWaitingThreads(A, m)
    BY <1>2 DEF AbandonMutex, FreeMutex
  <1>5. A.status = S.status /\ A.failed = S.failed /\ A.nominal_priority = S.nominal_priority
        /\ A.wait_objects = S.wait_objects /\ A.waiting_threads = S.waiting_threads
        /\ A.available_count = S.available_count /\ A.signaled = S.signaled
    BY <1>3 DEF SameRest, SameLists, SameStock
  <1>6. ListInv(A)
    BY <1>1, <1>3, ListInvSame
  <1>7. FitsInv(A, {t})
    BY <1>1, <1>5 DEF FitsInv
  <1>8. MutexInv(A, {t})
    <2> SUFFICES ASSUME NEW n \in Mutexes
                 PROVE  /\ A.lock_count[n] > 0 <=> A.holding_thread[n] # None
                        /\ A.holding_thread[n] # None => n \in A.held_mutexes[A.holding_thread[n]]
                        /\ \A u \in Threads \ {t} :
                              n \in A.held_mutexes[u] => A.holding_thread[n] = u /\ A.status[u] # "Dead"
      BY DEF MutexInv
    <2>1. /\ S.lock_count[n] > 0 <=> S.holding_thread[n] # None
          /\ S.holding_thread[n] # None => n \in S.held_mutexes[S.holding_thread[n]]
          /\ \A u \in Threads \ {t} :
                n \in S.held_mutexes[u] => S.holding_thread[n] = u /\ S.status[u] # "Dead"
      BY <1>1 DEF MutexInv
    <2>2. CASE n = m
      BY <1>3, <2>1, <2>2
    <2>3. CASE n # m
      BY <1>3, <1>5, <2>1, <2>3
    <2> QED BY <2>2, <2>3
  <1>9. PrioInv(A)
    BY <1>1, <1>3, <1>5 DEF PrioInv, BestPriority
  <1>10. CountInv(A)
    BY <1>1, <1>5 DEF CountInv
  <1>11. AnswerInv(A)
    BY <1>1, <1>3, <1>5 DEF AnswerInv, SameAnswers
  <1>12. AvailInv(A, {m})
    <2>1. \A p, u : p # m /\ ShouldWait(S, p, u) => ShouldWait(A, p, u)
      BY <1>3, <1>5 DEF ShouldWait
    <2> QED BY <1>1, <1>5, <2>1 DEF AvailInv
  <1>13. InheritInv(A, {})
    BY <1>1, <1>3, <1>5 DEF InheritInv, Lends, Plain
  <1>14. Good(A, {t}, {m}, {})
    BY <1>1, <1>3, <1>5, <1>6, <1>7, <1>8, <1>9, <1>10, <1>11, <1>12, <1>13 DEF Good
  <1>15. Absent(A, {t}, m)
    BY <1>5 DEF Absent, Elements
  <1>16. m \in Objects /\ {t} \subseteq Threads
    BY DEF Objects
  <1>17. Good(T, {t}, {}, {}) /\ Spared(A, T)
    BY <1>4, <1>14, <1>15, <1>16, WakeupAllKeeps
  <1>18. A.status[t] \notin Waiting
    BY <1>7 DEF FitsInv, Waiting
  <1>19. /\ T.held_mutexes[t] = A.held_mutexes[t]
         /\ T.wait_objects[t] = A.wait_objects[t]
         /\ \A n \in Mutexes : T.holding_thread[n] = t <=> A.holding_thread[n] = t
    BY <1>17, <1>18 DEF Spared
  <1>20. \A n \in Mutexes : A.holding_thread[n] = t <=> n # m /\ S.holding_thread[n] = t
    BY <1>3, KindAssumption
  <1> QED BY <1>3, <1>5, <1>17, <1>19, <1>20 DEF Abandoned

(* The loop of ReleaseThreadMutexes. *)
ReleaseSteps(f, S, q) ==
    f = [i \in 0 .. Len(q) |-> IF i = 0 THEN S ELSE AbandonMutex(f[i - 1], q[i])]

(* ReleaseThreadMutexes as a sequence of abandoned mutexes. *)
LEMMA ReleaseLoop ==
    ASSUME NEW S \in KState, NEW t \in Threads, NEW q \in Seq(Mutexes),
           q = Kept(MutexOrder, S.held_mutexes[t])
    PROVE  \E f : /\ f[0] = S
                  /\ \A i \in 1 .. Len(q) : f[i] = AbandonMutex(f[i - 1], q[i])
                  /\ \A i \in 0 .. Len(q) : f[i] \in KState
                  /\ ReleaseThreadMutexes(S, t) = [f[Len(q)] EXCEPT !.held_mutexes[t] = {}]
  <1> DEFINE N == Len(q)
             g == [i \in 1 .. N |-> [x \in KState |-> AbandonMutex(x, q[i])]]
  <1>1. N \in Nat /\ \A i \in 1 .. N : q[i] \in Mutexes
    OBVIOUS
  <1>2. \A i \in 1 .. N : \A x \in KState : g[i][x] = AbandonMutex(x, q[i])
    BY Zenon
  <1>3. \A i \in 1 .. N : \A x \in KState : g[i][x] \in KState
    BY <1>1, <1>2, AbandonType
  <1> HIDE DEF g, N
  <1>4. PICK h : LoopOf(h, g, N, S, KState)
    BY <1>1, <1>3, LoopExists
  <1>5. ReleaseSteps(h, S, q)
    <2>1. ASSUME NEW i \in 1 .. N PROVE g[i][h[i - 1]] = AbandonMutex(h[i - 1], q[i])
      <3>1. h[i - 1] \in KState
        BY <1>1, <1>4 DEF LoopOf
      <3> QED BY <1>2, <3>1
    <2>2. \A i \in 0 .. N : i # 0 => i \in 1 .. N
      BY <1>1
    <2>3. h = [i \in 0 .. N |-> IF i = 0 THEN S ELSE AbandonMutex(h[i - 1], q[i])]
      BY <1>4, <2>1, <2>2 DEF LoopOf
    <2> QED BY <2>3 DEF ReleaseSteps, N
  <1>6. PICK f : /\ ReleaseSteps(f, S, q)
                 /\ ReleaseThreadMutexes(S, t) = [f[N] EXCEPT !.held_mutexes[t] = {}]
    BY <1>5, Zenon DEF ReleaseSteps, ReleaseThreadMutexes, N
  <1>7. \A i \in 0 .. N : f[i] = IF i = 0 THEN S ELSE AbandonMutex(f[i - 1], q[i])
    BY <1>6, Zenon DEF ReleaseSteps, N
  <1>8. f[0] = S /\ \A i \in 1 .. N : f[i] = AbandonMutex(f[i - 1], q[i])
    BY <1>1, <1>7
  <1>9. \A i \in 0 .. N : f[i] \in KState
    <2>1. \A i \in 1 .. N : f[i - 1] \in KState => f[i] \in KState
      BY <1>1, <1>8, AbandonType
    <2> QED BY <1>1, <1>8, <2>1, LoopTyped
  <1> QED BY <1>6, <1>8, <1>9 DEF N

(* The mutexes of a set, in address order. *)
LEMMA MutexesInOrder ==
    ASSUME NEW M \in SUBSET Mutexes
    PROVE  Holds(Kept(MutexOrder, M), Mutexes, M)
  <1>1. Holds(MutexOrder, Mutexes, Mutexes)
    BY OrderAssumption DEF Holds, IsInjective
  <1>2. Holds(Kept(MutexOrder, M), Mutexes, Mutexes \cap M)
    BY <1>1, KeptHolds
  <1>3. Mutexes \cap M = M
    OBVIOUS
  <1> QED BY <1>2, <1>3

DropMutexes(S, t) == [S EXCEPT !.held_mutexes[t] = {}]

(* What clearing held_mutexes changes. *)
LEMMA DropStep ==
    ASSUME NEW S \in KState, NEW t \in Threads, NEW T, T = DropMutexes(S, t)
    PROVE  /\ T \in KState
           /\ SameLists(S, T) /\ SameStock(S, T) /\ SameAnswers(S, T) /\ SameRest(S, T)
           /\ T.lock_count = S.lock_count /\ T.holding_thread = S.holding_thread
           /\ T.priority = S.priority /\ T.current_priority = S.current_priority
           /\ \A u \in Threads : T.held_mutexes[u] = IF u = t THEN {} ELSE S.held_mutexes[u]
  <1>1. PICK h : h = [S.held_mutexes EXCEPT ![t] = {}]
    OBVIOUS
  <1>2. S.held_mutexes \in [Threads -> SUBSET Mutexes]
    BY DEF KState
  <1>3. h \in [Threads -> SUBSET Mutexes] /\ \A u \in Threads : h[u] = IF u = t THEN {} ELSE S.held_mutexes[u]
    BY <1>1, <1>2
  <1>4. T = [S EXCEPT !.held_mutexes = h]
    BY <1>1 DEF DropMutexes
  <1>5. /\ T \in KState
        /\ SameLists(S, T) /\ SameStock(S, T) /\ SameAnswers(S, T) /\ SameRest(S, T)
        /\ T.lock_count = S.lock_count /\ T.holding_thread = S.holding_thread
        /\ T.priority = S.priority /\ T.current_priority = S.current_priority
        /\ T.held_mutexes = h
    BY <1>3, <1>4, ZenonT(60) DEF KState, SameLists, SameStock, SameAnswers, SameRest
  <1> QED BY <1>3, <1>5

(* ReleaseThreadMutexes stays among the states. *)
LEMMA ReleaseType ==
    ASSUME NEW S \in KState, NEW t \in Threads
    PROVE  ReleaseThreadMutexes(S, t) \in KState
  <1>1. PICK q : q = Kept(MutexOrder, S.held_mutexes[t])
    OBVIOUS
  <1>2. S.held_mutexes[t] \in SUBSET Mutexes
    BY DEF KState
  <1>3. q \in Seq(Mutexes)
    BY <1>1, <1>2, MutexesInOrder DEF Holds
  <1>4. PICK f : /\ \A i \in 0 .. Len(q) : f[i] \in KState
                 /\ ReleaseThreadMutexes(S, t) = [f[Len(q)] EXCEPT !.held_mutexes[t] = {}]
    BY <1>1, <1>3, ReleaseLoop
  <1>5. PICK x : x = f[Len(q)]
    OBVIOUS
  <1>6. x \in KState
    <2>1. Len(q) \in 0 .. Len(q)
      BY <1>3
    <2> QED BY <1>4, <1>5, <2>1
  <1>7. ReleaseThreadMutexes(S, t) = DropMutexes(x, t)
    BY <1>4, <1>5 DEF DropMutexes
  <1> QED BY <1>6, <1>7, DropStep

(* A dead thread that waits for nothing gives back all its mutexes. *)
LEMMA ReleaseKeeps ==
    ASSUME NEW S, NEW t \in Threads, Good(S, {t}, {}, {}), S.wait_objects[t] = << >>,
           \A m \in Mutexes : S.holding_thread[m] = t <=> m \in S.held_mutexes[t],
           NEW T, T = ReleaseThreadMutexes(S, t)
    PROVE  Good(T, {}, {}, {})
  <1>1. S \in KState
    BY DEF Good
  <1>2. PICK q : q = Kept(MutexOrder, S.held_mutexes[t])
    OBVIOUS
  <1>3. S.held_mutexes[t] \in SUBSET Mutexes
    BY <1>1 DEF KState
  <1>4. /\ q \in Seq(Mutexes)
        /\ \A i, j \in 1 .. Len(q) : q[i] = q[j] => i = j
        /\ Elements(q) = S.held_mutexes[t]
    BY <1>2, <1>3, MutexesInOrder DEF Holds
  <1> DEFINE N == Len(q)
  <1>5. N \in Nat
    BY <1>4
  <1>6. PICK f : /\ f[0] = S
                 /\ \A i \in 1 .. N : f[i] = AbandonMutex(f[i - 1], q[i])
                 /\ \A i \in 0 .. N : f[i] \in KState
                 /\ ReleaseThreadMutexes(S, t) = [f[N] EXCEPT !.held_mutexes[t] = {}]
    BY <1>1, <1>2, <1>4, ReleaseLoop
  <1> DEFINE Done(x, n) == /\ Good(x, {t}, {}, {})
                           /\ x.wait_objects[t] = << >>
                           /\ x.held_mutexes[t] = S.held_mutexes[t]
                           /\ \A m \in Mutexes :
                                 x.holding_thread[m] = t <=> m \in S.held_mutexes[t] \ First(q, n)
             I == {n \in 0 .. N : Done(f[n], n)}
  <1>7. 0 \in I
    <2>1. First(q, 0) = {}
      BY DEF First
    <2>2. Done(S, 0)
      BY <2>1
    <2> QED BY <1>5, <1>6, <2>2
  <1>8. ASSUME NEW n \in 0 .. N - 1, n \in I PROVE n + 1 \in I
    <2>1. n + 1 \in 1 .. N /\ n + 1 \in 0 .. N /\ (n + 1) - 1 = n /\ n \in 0 .. N
      BY <1>5
    <2>2. PICK x : x = f[n]
      OBVIOUS
    <2>3. PICK y : y = f[n + 1]
      OBVIOUS
    <2>4. PICK m : m = q[n + 1]
      OBVIOUS
    <2>5. y = AbandonMutex(x, m)
      BY <1>6, <2>1, <2>2, <2>3, <2>4
    <2>6. Done(x, n)
      BY <1>8, <2>2
    <2>7. First(q, n + 1) = First(q, n) \cup {m} /\ m \in Mutexes /\ m \in Elements(q) /\ m \notin First(q, n)
      BY <1>4, <2>4, FirstStep
    <2>8. x.holding_thread[m] = t
      BY <1>4, <2>6, <2>7
    <2>9. m \in Mutexes
      BY <2>7
    <2>10. Good(x, {t}, {}, {}) /\ x.wait_objects[t] = << >>
      BY <2>6
    <2> HIDE DEF Done, I
    <2>11. Good(y, {t}, {}, {}) /\ Abandoned(x, y, t, m)
      BY <2>5, <2>8, <2>9, <2>10, AbandonKeeps
    <2>12. Done(y, n + 1)
      BY <2>6, <2>7, <2>11 DEF Done, Abandoned
    <2> QED BY <2>1, <2>3, <2>12 DEF I
  <1>9. \A n \in 0 .. N : n \in I
    <2> HIDE DEF I
    <2> QED BY <1>5, <1>7, <1>8, LoopInduction
  <1>10. PICK x : x = f[N]
    OBVIOUS
  <1>11. Done(x, N)
    <2>1. N \in 0 .. N
      BY <1>5
    <2> QED BY <1>9, <1>10, <2>1
  <1>12. First(q, N) = Elements(q)
    BY DEF First, Elements
  <1>13. \A m \in Mutexes : x.holding_thread[m] # t
    BY <1>4, <1>11, <1>12
  <1>14. T = DropMutexes(x, t)
    BY <1>6, <1>10 DEF DropMutexes
  <1>15. /\ x \in KState /\ x.failed = {} /\ ListInv(x) /\ FitsInv(x, {t}) /\ MutexInv(x, {t}) /\ PrioInv(x)
         /\ CountInv(x) /\ AnswerInv(x) /\ AvailInv(x, {}) /\ InheritInv(x, {})
         /\ x.wait_objects[t] = << >>
    BY <1>11 DEF Good
  <1> HIDE DEF Done, I, N
  <1>16. /\ T \in KState
         /\ SameLists(x, T) /\ SameStock(x, T) /\ SameAnswers(x, T) /\ SameRest(x, T)
         /\ T.lock_count = x.lock_count /\ T.holding_thread = x.holding_thread
         /\ T.priority = x.priority /\ T.current_priority = x.current_priority
         /\ \A u \in Threads : T.held_mutexes[u] = IF u = t THEN {} ELSE x.held_mutexes[u]
    <2>1. x \in KState
      BY <1>15
    <2> QED BY <1>14, <2>1, DropStep
  <1>17. /\ T.status = x.status /\ T.failed = x.failed /\ T.nominal_priority = x.nominal_priority
         /\ T.wait_objects = x.wait_objects /\ T.waiting_threads = x.waiting_threads
         /\ T.available_count = x.available_count /\ T.signaled = x.signaled
    BY <1>16 DEF SameRest, SameLists, SameStock
  <1>18. T.status[t] = "Dead"
    BY <1>15, <1>17 DEF FitsInv
  <1>19. ListInv(T)
    BY <1>15, <1>16, ListInvSame
  <1>20. FitsInv(T, {})
    BY <1>15, <1>17, <1>18 DEF FitsInv, Waiting
  <1>21. MutexInv(T, {})
    <2> SUFFICES ASSUME NEW n \in Mutexes
                 PROVE  /\ T.lock_count[n] > 0 <=> T.holding_thread[n] # None
                        /\ T.holding_thread[n] # None => n \in T.held_mutexes[T.holding_thread[n]]
                        /\ \A u \in Threads :
                              n \in T.held_mutexes[u] => T.holding_thread[n] = u /\ T.status[u] # "Dead"
      BY DEF MutexInv
    <2>1. /\ x.lock_count[n] > 0 <=> x.holding_thread[n] # None
          /\ x.holding_thread[n] # None => n \in x.held_mutexes[x.holding_thread[n]]
          /\ \A u \in Threads \ {t} :
                n \in x.held_mutexes[u] => x.holding_thread[n] = u /\ x.status[u] # "Dead"
      BY <1>15 DEF MutexInv
    <2>2. x.holding_thread[n] \in Threads \cup {None} /\ x.holding_thread[n] # t
      BY <1>13, <1>15 DEF KState
    <2> QED BY <1>16, <1>17, <2>1, <2>2
  <1>22. PrioInv(T)
    <2> SUFFICES ASSUME NEW u \in Threads, T.status[u] # "Dead"
                 PROVE  T.current_priority[u] = BestPriority(T, u)
      BY DEF PrioInv
    <2>1. u # t
      BY <1>18
    <2>2. SameBest(x, T, u)
      BY <1>16, <1>17, <2>1 DEF SameBest
    <2>3. BestPriority(T, u) = BestPriority(x, u)
      BY <2>2, BestPrioritySame
    <2>4. x.current_priority[u] = BestPriority(x, u)
      BY <1>15, <1>17 DEF PrioInv
    <2> QED BY <1>16, <2>3, <2>4
  <1>23. CountInv(T)
    BY <1>15, <1>17 DEF CountInv
  <1>24. AnswerInv(T)
    <2>1. \A u \in Threads : T.status[u] = "Ready" => T.held_mutexes[u] = x.held_mutexes[u]
      BY <1>16, <1>18
    <2> QED BY <1>15, <1>16, <1>17, <2>1 DEF AnswerInv, SameAnswers
  <1>25. AvailInv(T, {})
    <2>1. \A p, u : ShouldWait(x, p, u) => ShouldWait(T, p, u)
      BY <1>16, <1>17 DEF ShouldWait
    <2> QED BY <1>15, <1>17, <2>1 DEF AvailInv
  <1>26. InheritInv(T, {})
    <2>1. ASSUME NEW m \in Mutexes, NEW w \in Elements(T.waiting_threads[m]), Plain(T, w)
          PROVE  Plain(x, w)
      <3>1. w \in Threads
        <4>1. T.waiting_threads[m] \in Seq(Threads)
          BY <1>16 DEF KState, Objects
        <4> QED BY <4>1 DEF Elements
      <3>2. x.held_mutexes[w] = {}
        BY <1>16, <1>18, <2>1, <3>1 DEF Plain
      <3> QED BY <1>16, <1>17, <2>1, <3>2 DEF Plain
    <2>2. \A m \in Mutexes : T.holding_thread[m] # None => Unmoved(x, T, m)
      BY <1>16, <1>17, <2>1 DEF Unmoved
    <2> QED BY <1>15, <2>2, InheritKept
  <1> QED BY <1>15, <1>16, <1>17, <1>19, <1>20, <1>21, <1>22, <1>23, <1>24, <1>25, <1>26 DEF Good

(* What the first lines of Thread::Stop change. *)
LEMMA MarkDeadStep ==
    ASSUME NEW S \in KState, NEW t \in Threads, NEW T, T = MarkDead(S, t)
    PROVE  /\ T \in KState
           /\ SameLists(S, T) /\ SameLocks(S, T) /\ SameStock(S, T)
           /\ T.priority = S.priority /\ T.current_priority = S.current_priority
           /\ T.nominal_priority = S.nominal_priority /\ T.failed = S.failed
           /\ T.wakeup_callback = S.wakeup_callback /\ T.timed = S.timed
           /\ T.result = S.result /\ T.granted = S.granted
           /\ T.wakeup_event = S.wakeup_event \ {t}
           /\ \A u \in Threads : T.status[u] = IF u = t THEN "Dead" ELSE S.status[u]
  <1>1. PICK e, s : e = S.wakeup_event \ {t} /\ s = [S.status EXCEPT ![t] = "Dead"]
    OBVIOUS
  <1>2. S.status \in [Threads -> Statuses] /\ S.wakeup_event \in SUBSET Threads
    BY DEF KState
  <1>3. e \in SUBSET Threads /\ s \in [Threads -> Statuses]
        /\ \A u \in Threads : s[u] = IF u = t THEN "Dead" ELSE S.status[u]
    BY <1>1, <1>2 DEF Statuses
  <1>4. T = [S EXCEPT !.wakeup_event = e, !.status = s]
    BY <1>1 DEF MarkDead
  <1>5. /\ T \in KState
        /\ SameLists(S, T) /\ SameLocks(S, T) /\ SameStock(S, T)
        /\ T.priority = S.priority /\ T.current_priority = S.current_priority
        /\ T.nominal_priority = S.nominal_priority /\ T.failed = S.failed
        /\ T.wakeup_callback = S.wakeup_callback /\ T.timed = S.timed
        /\ T.result = S.result /\ T.granted = S.granted
        /\ T.wakeup_event = e /\ T.status = s
    BY <1>3, <1>4, ZenonT(60) DEF KState, SameLists, SameLocks, SameStock
  <1> QED BY <1>1, <1>3, <1>5

(* Stop stays among the states. *)
LEMMA StopType ==
    ASSUME NEW S \in KState, NEW t \in Threads
    PROVE  Stop(S, t) \in KState
  <1>1. PICK A : A = MarkDead(S, t)
    OBVIOUS
  <1>2. A \in KState
    BY <1>1, MarkDeadStep
  <1>3. PICK B : B = WakeupAllWaitingThreads(A, t)
    OBVIOUS
  <1>4. t \in Objects
    BY DEF Objects
  <1>5. B \in KState
    BY <1>2, <1>3, <1>4, WakeupAllType
  <1>6. PICK C : C = LeaveWaitObjects(B, t)
    OBVIOUS
  <1>7. C \in KState
    BY <1>5, <1>6, LeaveType
  <1>8. Stop(S, t) = ReleaseThreadMutexes(C, t)
    BY <1>1, <1>3, <1>6 DEF Stop
  <1> QED BY <1>7, <1>8, ReleaseType

(* The stopped thread t leaves its lists. *)
LEMMA StoppedLeaves ==
    ASSUME NEW S, NEW t \in Threads, Good(S, {t}, {}, {}), NEW T, T = LeaveWaitObjects(S, t)
    PROVE  Good(T, {t}, {}, {}) /\ T.wait_objects[t] = << >> /\ SameLocks(S, T)
  <1>1. /\ S \in KState /\ S.failed = {} /\ ListInv(S) /\ FitsInv(S, {t}) /\ MutexInv(S, {t}) /\ PrioInv(S)
        /\ CountInv(S) /\ AnswerInv(S) /\ AvailInv(S, {}) /\ InheritInv(S, {})
    BY DEF Good
  <1>2. AllDead(S, {t})
    BY <1>1 DEF FitsInv, AllDead
  <1>3. HasLeft(S, T, t, {})
    <2>1. S \in KState
      BY <1>1
    <2> QED BY <1>1, <1>2, <2>1, LeaveKeeps
  <1>4. /\ T \in KState
        /\ T.wait_objects = [S.wait_objects EXCEPT ![t] = << >>]
        /\ SameLocks(S, T) /\ SameStock(S, T) /\ SameAnswers(S, T) /\ SameRest(S, T)
        /\ ListInv(T) /\ PrioInv(T)
    BY <1>3 DEF HasLeft
  <1>5. InheritInv(T, {})
    <2>1. {} \ Elements(S.wait_objects[t]) = {}
      OBVIOUS
    <2> QED BY <1>3, <2>1 DEF HasLeft
  <1>6. \A u \in Threads : T.wait_objects[u] = IF u = t THEN << >> ELSE S.wait_objects[u]
    <2>1. S.wait_objects \in [Threads -> Seq(Objects)]
      BY <1>1 DEF KState
    <2> QED BY <1>4, <2>1
  <1>7. /\ T.status = S.status /\ T.failed = S.failed
        /\ T.available_count = S.available_count /\ T.signaled = S.signaled
        /\ T.lock_count = S.lock_count /\ T.holding_thread = S.holding_thread
        /\ T.held_mutexes = S.held_mutexes
    BY <1>4 DEF SameRest, SameStock, SameLocks
  <1>8. FitsInv(T, {t})
    BY <1>1, <1>6, <1>7 DEF FitsInv
  <1>9. MutexInv(T, {t})
    BY <1>1, <1>7 DEF MutexInv
  <1>10. CountInv(T)
    BY <1>1, <1>7 DEF CountInv
  <1>11. AnswerInv(T)
    BY <1>1, <1>4, <1>7 DEF AnswerInv, SameAnswers
  <1>12. AvailInv(T, {})
    <2>1. \A p, u : ShouldWait(S, p, u) => ShouldWait(T, p, u)
      BY <1>7 DEF ShouldWait
    <2>2. T.status[t] = "Dead"
      BY <1>1, <1>7 DEF FitsInv
    <2> QED BY <1>1, <1>6, <1>7, <2>1, <2>2 DEF AvailInv
  <1> QED BY <1>1, <1>4, <1>5, <1>6, <1>7, <1>8, <1>9, <1>10, <1>11, <1>12 DEF Good

(* Thread::Stop of any thread. *)
LEMMA StopKeeps ==
    ASSUME NEW S, Good(S, {}, {}, {}), NEW t \in Threads, NEW T, T = Stop(S, t)
    PROVE  Good(T, {}, {}, {})
  <1>1. /\ S \in KState /\ S.failed = {} /\ ListInv(S) /\ FitsInv(S, {}) /\ MutexInv(S, {}) /\ PrioInv(S)
        /\ CountInv(S) /\ AnswerInv(S) /\ AvailInv(S, {}) /\ InheritInv(S, {})
    BY DEF Good
  <1>2. PICK A : A = MarkDead(S, t)
    OBVIOUS
  <1>3. /\ A \in KState
        /\ SameLists(S, A) /\ SameLocks(S, A) /\ SameStock(S, A)
        /\ A.priority = S.priority /\ A.current_priority = S.current_priority
        /\ A.nominal_priority = S.nominal_priority /\ A.failed = S.failed
        /\ A.wakeup_callback = S.wakeup_callback /\ A.timed = S.timed
        /\ A.result = S.result /\ A.granted = S.granted
        /\ A.wakeup_event = S.wakeup_event \ {t}
        /\ \A u \in Threads : A.status[u] = IF u = t THEN "Dead" ELSE S.status[u]
    <2>1. S \in KState
      BY <1>1
    <2> QED BY <1>2, <2>1, MarkDeadStep
  <1>4. /\ A.wait_objects = S.wait_objects /\ A.waiting_threads = S.waiting_threads
        /\ A.available_count = S.available_count /\ A.signaled = S.signaled
        /\ A.lock_count = S.lock_count /\ A.holding_thread = S.holding_thread
        /\ A.held_mutexes = S.held_mutexes
    BY <1>3 DEF SameLists, SameStock, SameLocks
  <1>5. ListInv(A)
    BY <1>1, <1>3, ListInvSame
  <1>6. FitsInv(A, {t})
    BY <1>1, <1>3, <1>4 DEF FitsInv
  <1>7. MutexInv(A, {t})
    BY <1>1, <1>3, <1>4 DEF MutexInv
  <1>8. PrioInv(A)
    BY <1>1, <1>3, <1>4 DEF PrioInv, BestPriority
  <1>9. CountInv(A)
    BY <1>1, <1>4 DEF CountInv
  <1>10. AnswerInv(A)
    <2> SUFFICES ASSUME NEW u \in Threads
                 PROVE  /\ A.status[u] = "Ready" =>
                              /\ A.result[u] = "Success" <=> A.granted[u] # {}
                              /\ A.granted[u] \cap Mutexes \subseteq A.held_mutexes[u]
                        /\ A.status[u] \in Waiting \cup {"Running", "WaitSleep"} =>
                              A.result[u] = "none" /\ A.granted[u] = {}
                        /\ A.status[u] \in {"Ready", "Running", "WaitSleep"} => u \notin A.wakeup_callback
                        /\ A.status[u] \in Waiting =>
                              u \in A.wakeup_callback /\ (u \in A.wakeup_event => u \in A.timed)
                        /\ A.status[u] \in {"Running", "Dead"} => u \notin A.wakeup_event
      BY DEF AnswerInv
    <2>1. CASE u = t
      BY <1>3, <2>1 DEF Waiting
    <2>2. CASE u # t
      BY <1>1, <1>3, <1>4, <2>2 DEF AnswerInv
    <2> QED BY <2>1, <2>2
  <1>11. AvailInv(A, {t})
    <2>1. ASSUME NEW p \in Objects \ {t}, NEW u, ShouldWait(S, p, u) PROVE ShouldWait(A, p, u)
      BY <1>3, <1>4, <2>1 DEF ShouldWait
    <2> SUFFICES ASSUME NEW u \in Threads
                 PROVE  /\ A.status[u] = "WaitSynchAny" =>
                              \A p \in Elements(A.wait_objects[u]) \ {t} : ShouldWait(A, p, u)
                        /\ A.status[u] = "WaitSynchAll" =>
                              \E p \in Elements(A.wait_objects[u]) : p \in {t} \/ ShouldWait(A, p, u)
      BY DEF AvailInv
    <2>2. CASE u = t
      BY <1>3, <2>2
    <2>3. CASE u # t
      <3>1. A.status[u] = S.status[u] /\ A.wait_objects[u] = S.wait_objects[u]
        BY <1>3, <1>4, <2>3
      <3>2. Elements(S.wait_objects[u]) \subseteq Objects
        <4>1. S.wait_objects[u] \in Seq(Objects)
          BY <1>1 DEF KState
        <4> QED BY <4>1 DEF Elements
      <3>3. /\ S.status[u] = "WaitSynchAny" =>
                  \A p \in Elements(S.wait_objects[u]) : ShouldWait(S, p, u)
            /\ S.status[u] = "WaitSynchAll" =>
                  \E p \in Elements(S.wait_objects[u]) : ShouldWait(S, p, u)
        BY <1>1 DEF AvailInv
      <3> QED BY <2>1, <3>1, <3>2, <3>3
    <2> QED BY <2>2, <2>3
  <1>12. InheritInv(A, {})
    <2>1. ASSUME NEW m \in Mutexes, NEW w \in Elements(A.waiting_threads[m]), Plain(A, w)
          PROVE  Plain(S, w)
      <3>1. w \in Threads
        <4>1. A.waiting_threads[m] \in Seq(Threads)
          BY <1>3 DEF KState, Objects
        <4> QED BY <4>1 DEF Elements
      <3>2. S.status[w] = "WaitSynchAny"
        BY <1>3, <2>1, <3>1 DEF Plain
      <3> QED BY <1>3, <1>4, <2>1, <3>2 DEF Plain
    <2>2. \A m \in Mutexes : A.holding_thread[m] # None => Unmoved(S, A, m)
      BY <1>3, <1>4, <2>1 DEF Unmoved
    <2> QED BY <1>1, <2>2, InheritKept
  <1>13. Good(A, {t}, {t}, {})
    BY <1>1, <1>3, <1>5, <1>6, <1>7, <1>8, <1>9, <1>10, <1>11, <1>12 DEF Good
  <1>14. Absent(A, {t}, t)
    BY <1>5 DEF ListInv, Absent
  <1>15. t \in Objects /\ {t} \subseteq Threads
    BY DEF Objects
  <1>16. PICK B : B = WakeupAllWaitingThreads(A, t)
    OBVIOUS
  <1>17. Good(B, {t}, {}, {}) /\ Spared(A, B)
    BY <1>13, <1>14, <1>15, <1>16, WakeupAllKeeps
  <1>18. PICK C : C = LeaveWaitObjects(B, t)
    OBVIOUS
  <1>19. Good(C, {t}, {}, {}) /\ C.wait_objects[t] = << >> /\ SameLocks(B, C)
    BY <1>17, <1>18, StoppedLeaves
  <1>20. \A m \in Mutexes : S.holding_thread[m] = t <=> m \in S.held_mutexes[t]
    BY <1>1, KindAssumption DEF MutexInv
  <1>21. A.status[t] \notin Waiting
    BY <1>3 DEF Waiting
  <1>22. B.held_mutexes[t] = A.held_mutexes[t]
         /\ \A m \in Mutexes : B.holding_thread[m] = t <=> A.holding_thread[m] = t
    BY <1>17, <1>21 DEF Spared
  <1>23. \A m \in Mutexes : C.holding_thread[m] = t <=> m \in C.held_mutexes[t]
    BY <1>4, <1>19, <1>20, <1>22 DEF SameLocks
  <1>24. T = ReleaseThreadMutexes(C, t)
    BY <1>2, <1>16, <1>18 DEF Stop
  <1> QED BY <1>19, <1>23, <1>24, ReleaseKeeps

(* The loop of StopAll. *)
StopSteps(f, S, q) ==
    f = [i \in 0 .. Len(q) |-> IF i = 0 THEN S ELSE Stop(f[i - 1], q[i])]

(* StopAll as a sequence of stops. *)
LEMMA StopLoop ==
    ASSUME NEW S \in KState, NEW q \in Seq(Threads)
    PROVE  \E f : /\ f[0] = S
                  /\ \A i \in 1 .. Len(q) : f[i] = Stop(f[i - 1], q[i])
                  /\ \A i \in 0 .. Len(q) : f[i] \in KState
                  /\ StopAll(S, q) = f[Len(q)]
  <1> DEFINE N == Len(q)
             g == [i \in 1 .. N |-> [x \in KState |-> Stop(x, q[i])]]
  <1>1. N \in Nat /\ \A i \in 1 .. N : q[i] \in Threads
    OBVIOUS
  <1>2. \A i \in 1 .. N : \A x \in KState : g[i][x] = Stop(x, q[i])
    BY Zenon
  <1>3. \A i \in 1 .. N : \A x \in KState : g[i][x] \in KState
    BY <1>1, <1>2, StopType
  <1> HIDE DEF g, N
  <1>4. PICK h : LoopOf(h, g, N, S, KState)
    BY <1>1, <1>3, LoopExists
  <1>5. StopSteps(h, S, q)
    <2>1. ASSUME NEW i \in 1 .. N PROVE g[i][h[i - 1]] = Stop(h[i - 1], q[i])
      <3>1. h[i - 1] \in KState
        BY <1>1, <1>4 DEF LoopOf
      <3> QED BY <1>2, <3>1
    <2>2. \A i \in 0 .. N : i # 0 => i \in 1 .. N
      BY <1>1
    <2>3. h = [i \in 0 .. N |-> IF i = 0 THEN S ELSE Stop(h[i - 1], q[i])]
      BY <1>4, <2>1, <2>2 DEF LoopOf
    <2> QED BY <2>3 DEF StopSteps, N
  <1>6. PICK f : StopSteps(f, S, q) /\ StopAll(S, q) = f[N]
    BY <1>5, Zenon DEF StopSteps, StopAll, N
  <1>7. \A i \in 0 .. N : f[i] = IF i = 0 THEN S ELSE Stop(f[i - 1], q[i])
    BY <1>6, Zenon DEF StopSteps, N
  <1>8. f[0] = S /\ \A i \in 1 .. N : f[i] = Stop(f[i - 1], q[i])
    BY <1>1, <1>7
  <1>9. \A i \in 0 .. N : f[i] \in KState
    <2>1. \A i \in 1 .. N : f[i - 1] \in KState => f[i] \in KState
      BY <1>1, <1>8, StopType
    <2> QED BY <1>1, <1>8, <2>1, LoopTyped
  <1> QED BY <1>6, <1>8, <1>9 DEF N

(* Stopping several threads keeps the invariant. *)
LEMMA StopAllKeeps ==
    ASSUME NEW S \in KState, NEW q \in Seq(Threads), NEW T, T = StopAll(S, q)
    PROVE  T \in KState /\ (Good(S, {}, {}, {}) => Good(T, {}, {}, {}))
  <1> DEFINE N == Len(q)
  <1>1. N \in Nat /\ \A i \in 1 .. N : q[i] \in Threads
    OBVIOUS
  <1>2. PICK f : /\ f[0] = S
                 /\ \A i \in 1 .. N : f[i] = Stop(f[i - 1], q[i])
                 /\ \A i \in 0 .. N : f[i] \in KState
                 /\ StopAll(S, q) = f[N]
    BY StopLoop
  <1> HIDE DEF N
  <1>3. N \in 0 .. N
    BY <1>1
  <1>4. ASSUME Good(S, {}, {}, {}) PROVE Good(T, {}, {}, {})
    <2> DEFINE I == {n \in 0 .. N : Good(f[n], {}, {}, {})}
    <2>1. 0 \in I
      BY <1>1, <1>2, <1>4
    <2>2. ASSUME NEW n \in 0 .. N - 1, n \in I PROVE n + 1 \in I
      <3>1. n + 1 \in 1 .. N /\ n + 1 \in 0 .. N /\ (n + 1) - 1 = n
        BY <1>1
      <3>2. PICK x : x = f[n]
        OBVIOUS
      <3>3. PICK y : y = f[n + 1]
        OBVIOUS
      <3>4. PICK t : t = q[n + 1]
        OBVIOUS
      <3>5. y = Stop(x, t) /\ t \in Threads
        BY <1>1, <1>2, <3>1, <3>2, <3>3, <3>4
      <3>6. Good(x, {}, {}, {})
        BY <2>2, <3>2
      <3>7. Good(y, {}, {}, {})
        BY <3>5, <3>6, StopKeeps
      <3> QED BY <3>1, <3>3, <3>7
    <2> HIDE DEF I
    <2>3. \A n \in 0 .. N : n \in I
      BY <1>1, <2>1, <2>2, LoopInduction
    <2> QED BY <1>2, <1>3, <2>3 DEF I
  <1> QED BY <1>2, <1>3, <1>4

(* The victims are threads. *)
LEMMA VictimsType ==
    ASSUME NEW S, NEW p, NEW c
    PROVE  Victims(S, p, c) \in Seq(Threads)
  <1> DEFINE live == {t \in Threads : ProcessOf[t] = p /\ CoreOf[t] = c /\ S.status[t] # "Dead"}
             current == {t \in live : S.status[t] = "Running"}
  <1>1. Holds(ThreadList, Threads, Threads)
    BY OrderAssumption DEF Holds, IsInjective
  <1> HIDE DEF live, current
  <1>2. \A K : Kept(ThreadList, K) \in Seq(Threads)
    BY <1>1, KeptHolds DEF Holds
  <1>3. Kept(ThreadList, live \ current) \in Seq(Threads) /\ Kept(ThreadList, current) \in Seq(Threads)
    BY <1>2
  <1>4. Victims(S, p, c) = Kept(ThreadList, live \ current) \o Kept(ThreadList, current)
    BY Zenon DEF Victims, live, current
  <1> QED BY <1>3, <1>4

(* The loop of TerminateProcess. *)
TerminateSteps(f, S, p) ==
    f = [c \in 0 .. NumCores |-> IF c = 0 THEN S ELSE StopAll(f[c - 1], Victims(S, p, c - 1))]

(* TerminateProcess as a sequence of cores. *)
LEMMA TerminateLoop ==
    ASSUME NEW S \in KState, NEW p
    PROVE  \E f : /\ f[0] = S
                  /\ \A c \in 1 .. NumCores : f[c] = StopAll(f[c - 1], Victims(S, p, c - 1))
                  /\ \A c \in 0 .. NumCores : f[c] \in KState
                  /\ TerminateProcess(S, p) = f[NumCores]
  <1> DEFINE N == NumCores
             v(c) == Victims(S, p, c - 1)
             g == [c \in 1 .. N |-> [x \in KState |-> StopAll(x, v(c))]]
  <1>1. N \in Nat /\ \A c \in 1 .. N : v(c) \in Seq(Threads)
    BY CoreAssumption, VictimsType
  <1>2. \A c \in 1 .. N : \A x \in KState : g[c][x] = StopAll(x, v(c))
    BY Zenon
  <1> HIDE DEF g, N, v
  <1>3. \A c \in 1 .. N : \A x \in KState : g[c][x] \in KState
    BY <1>1, <1>2, StopAllKeeps
  <1>4. PICK h : LoopOf(h, g, N, S, KState)
    BY <1>1, <1>3, LoopExists
  <1>5. TerminateSteps(h, S, p)
    <2>1. ASSUME NEW c \in 1 .. N PROVE g[c][h[c - 1]] = StopAll(h[c - 1], v(c))
      <3>1. h[c - 1] \in KState
        BY <1>1, <1>4 DEF LoopOf
      <3> QED BY <1>2, <3>1
    <2>2. \A c \in 0 .. N : c # 0 => c \in 1 .. N
      BY <1>1
    <2>3. h = [c \in 0 .. N |-> IF c = 0 THEN S ELSE StopAll(h[c - 1], v(c))]
      BY <1>4, <2>1, <2>2 DEF LoopOf
    <2> QED BY <2>3 DEF TerminateSteps, N, v
  <1>6. PICK f : TerminateSteps(f, S, p) /\ TerminateProcess(S, p) = f[N]
    BY <1>5, Zenon DEF TerminateSteps, TerminateProcess, N
  <1>7. \A c \in 0 .. N : f[c] = IF c = 0 THEN S ELSE StopAll(f[c - 1], v(c))
    BY <1>6, Zenon DEF TerminateSteps, N, v
  <1>8. f[0] = S /\ \A c \in 1 .. N : f[c] = StopAll(f[c - 1], v(c))
    BY <1>1, <1>7
  <1>9. \A c \in 0 .. N : f[c] \in KState
    <2>1. \A c \in 1 .. N : f[c - 1] \in KState => f[c] \in KState
      BY <1>1, <1>8, StopAllKeeps
    <2> QED BY <1>1, <1>8, <2>1, LoopTyped
  <1> QED BY <1>6, <1>8, <1>9 DEF N, v

(* TerminateProcess keeps the invariant. *)
LEMMA TerminateKeeps ==
    ASSUME NEW S \in KState, NEW p, NEW T, T = TerminateProcess(S, p)
    PROVE  T \in KState /\ (Good(S, {}, {}, {}) => Good(T, {}, {}, {}))
  <1> DEFINE N == NumCores
  <1>1. N \in Nat /\ \A c \in 1 .. N : Victims(S, p, c - 1) \in Seq(Threads)
    BY CoreAssumption, VictimsType
  <1>2. PICK f : /\ f[0] = S
                 /\ \A c \in 1 .. N : f[c] = StopAll(f[c - 1], Victims(S, p, c - 1))
                 /\ \A c \in 0 .. N : f[c] \in KState
                 /\ TerminateProcess(S, p) = f[N]
    BY TerminateLoop
  <1> HIDE DEF N
  <1>3. N \in 0 .. N
    BY <1>1
  <1>4. ASSUME Good(S, {}, {}, {}) PROVE Good(T, {}, {}, {})
    <2> DEFINE I == {n \in 0 .. N : Good(f[n], {}, {}, {})}
    <2>1. 0 \in I
      BY <1>1, <1>2, <1>4
    <2>2. ASSUME NEW n \in 0 .. N - 1, n \in I PROVE n + 1 \in I
      <3>1. n + 1 \in 1 .. N /\ n + 1 \in 0 .. N /\ (n + 1) - 1 = n /\ n \in 0 .. N
        BY <1>1
      <3>2. PICK x : x = f[n]
        OBVIOUS
      <3>3. PICK y : y = f[n + 1]
        OBVIOUS
      <3>4. PICK q : q = Victims(S, p, (n + 1) - 1)
        OBVIOUS
      <3>5. y = StopAll(x, q) /\ q \in Seq(Threads) /\ x \in KState
        BY <1>1, <1>2, <3>1, <3>2, <3>3, <3>4
      <3>6. Good(x, {}, {}, {})
        BY <2>2, <3>2
      <3>7. Good(y, {}, {}, {})
        BY <3>5, <3>6, StopAllKeeps
      <3> QED BY <3>1, <3>3, <3>7
    <2> HIDE DEF I
    <2>3. \A n \in 0 .. N : n \in I
      BY <1>1, <2>1, <2>2, LoopInduction
    <2> QED BY <1>2, <1>3, <2>3 DEF I
  <1> QED BY <1>2, <1>3, <1>4

-----------------------------------------------------------------------------
(* The actions. *)

(* AnswerInv for one thread. *)
AnswerOf(S, t) ==
    /\ S.status[t] = "Ready" =>
          /\ S.result[t] = "Success" <=> S.granted[t] # {}
          /\ S.granted[t] \cap Mutexes \subseteq S.held_mutexes[t]
    /\ S.status[t] \in Waiting \cup {"Running", "WaitSleep"} =>
          S.result[t] = "none" /\ S.granted[t] = {}
    /\ S.status[t] \in {"Ready", "Running", "WaitSleep"} => t \notin S.wakeup_callback
    /\ S.status[t] \in Waiting =>
          t \in S.wakeup_callback /\ (t \in S.wakeup_event => t \in S.timed)
    /\ S.status[t] \in {"Running", "Dead"} => t \notin S.wakeup_event

(* AnswerInv, thread by thread. *)
LEMMA AnswersOf ==
    ASSUME NEW S
    PROVE  AnswerInv(S) <=> \A t \in Threads : AnswerOf(S, t)
  BY DEF AnswerInv, AnswerOf

(* Only the thread t changes, between statuses in which it does not wait    *)
(* for objects, with its answer and its wakeup event.                       *)
Awake == {"Ready", "Running", "WaitSleep"}
OnlyAnswers(S, T, t) ==
    /\ SameLists(S, T) /\ SameLocks(S, T) /\ SameStock(S, T)
    /\ T.priority = S.priority /\ T.current_priority = S.current_priority
    /\ T.nominal_priority = S.nominal_priority /\ T.failed = S.failed
    /\ T.wakeup_callback = S.wakeup_callback
    /\ \A u \in Threads \ {t} :
          /\ T.status[u] = S.status[u]
          /\ T.result[u] = S.result[u] /\ T.granted[u] = S.granted[u]
          /\ u \in T.wakeup_event <=> u \in S.wakeup_event
          /\ u \in T.timed <=> u \in S.timed

(* A thread that does not wait for objects changes its status alone. *)
LEMMA AwakeKeeps ==
    ASSUME NEW S, Good(S, {}, {}, {}), NEW t \in Threads, S.status[t] \in Awake,
           NEW T \in KState, OnlyAnswers(S, T, t), T.status[t] \in Awake, AnswerOf(T, t)
    PROVE  Good(T, {}, {}, {})
  <1>1. /\ S \in KState /\ S.failed = {} /\ ListInv(S) /\ FitsInv(S, {}) /\ MutexInv(S, {}) /\ PrioInv(S)
        /\ CountInv(S) /\ AnswerInv(S) /\ AvailInv(S, {}) /\ InheritInv(S, {})
    BY DEF Good
  <1>2. /\ T.wait_objects = S.wait_objects /\ T.waiting_threads = S.waiting_threads
        /\ T.available_count = S.available_count /\ T.signaled = S.signaled
        /\ T.lock_count = S.lock_count /\ T.holding_thread = S.holding_thread
        /\ T.held_mutexes = S.held_mutexes
        /\ T.priority = S.priority /\ T.current_priority = S.current_priority
        /\ T.nominal_priority = S.nominal_priority /\ T.failed = S.failed
        /\ T.wakeup_callback = S.wakeup_callback
    BY DEF OnlyAnswers, SameLists, SameStock, SameLocks
  <1>3. ASSUME NEW u \in Threads
        PROVE  /\ T.status[u] = "Dead" <=> S.status[u] = "Dead"
               /\ T.status[u] \in Waiting <=> S.status[u] \in Waiting
               /\ T.status[u] \in Waiting => u # t /\ T.status[u] = S.status[u]
    BY DEF OnlyAnswers, Awake, Waiting
  <1>4. ListInv(T)
    <2>1. SameLists(S, T) /\ ListInv(S)
      BY <1>1 DEF OnlyAnswers
    <2> QED BY <2>1, ListInvSame
  <1>5. FitsInv(T, {})
    BY <1>1, <1>2, <1>3 DEF FitsInv
  <1>6. MutexInv(T, {})
    BY <1>1, <1>2, <1>3 DEF MutexInv
  <1>7. PrioInv(T)
    BY <1>1, <1>2, <1>3 DEF PrioInv, BestPriority
  <1>8. CountInv(T)
    BY <1>1, <1>2 DEF CountInv
  <1>9. AnswerInv(T)
    <2>1. ASSUME NEW u \in Threads, u # t PROVE AnswerOf(T, u)
      <3>1. AnswerOf(S, u)
        BY <1>1, AnswersOf
      <3> QED BY <1>2, <2>1, <3>1 DEF AnswerOf, OnlyAnswers
    <2> QED BY <2>1, AnswersOf
  <1>10. AvailInv(T, {})
    <2>1. \A p \in Objects, u \in Threads : ShouldWait(S, p, u) => ShouldWait(T, p, u)
      BY <1>2, <1>3 DEF ShouldWait
    <2>2. \A u \in Threads : Elements(S.wait_objects[u]) \subseteq Objects
      <3>1. \A u \in Threads : S.wait_objects[u] \in Seq(Objects)
        BY <1>1 DEF KState
      <3> QED BY <3>1 DEF Elements
    <2> SUFFICES ASSUME NEW u \in Threads
                 PROVE  /\ T.status[u] = "WaitSynchAny" =>
                              \A p \in Elements(T.wait_objects[u]) : ShouldWait(T, p, u)
                        /\ T.status[u] = "WaitSynchAll" =>
                              \E p \in Elements(T.wait_objects[u]) : ShouldWait(T, p, u)
      BY DEF AvailInv
    <2>3. /\ S.status[u] = "WaitSynchAny" =>
                \A p \in Elements(S.wait_objects[u]) : ShouldWait(S, p, u)
          /\ S.status[u] = "WaitSynchAll" =>
                \E p \in Elements(S.wait_objects[u]) : ShouldWait(S, p, u)
      BY <1>1 DEF AvailInv
    <2>4. T.status[u] \in Waiting => T.status[u] = S.status[u]
      BY <1>3
    <2> QED BY <1>2, <2>1, <2>2, <2>3, <2>4 DEF Waiting
  <1>11. InheritInv(T, {})
    <2>1. ASSUME NEW m \in Mutexes, NEW w \in Elements(T.waiting_threads[m]), Plain(T, w)
          PROVE  Plain(S, w)
      <3>1. w \in Threads
        <4>1. T.waiting_threads[m] \in Seq(Threads)
          BY DEF KState, Objects
        <4> QED BY <4>1 DEF Elements
      <3>2. S.status[w] = "WaitSynchAny"
        BY <1>3, <2>1, <3>1 DEF Plain, Waiting
      <3> QED BY <1>2, <2>1, <3>2 DEF Plain
    <2>2. \A m \in Mutexes : T.holding_thread[m] # None => Unmoved(S, T, m)
      BY <1>2, <2>1 DEF Unmoved
    <2> QED BY <1>1, <2>2, InheritKept
  <1> QED BY <1>1, <1>2, <1>4, <1>5, <1>6, <1>7, <1>8, <1>9, <1>10, <1>11 DEF Good

(* SwitchContext to a thread. *)
LEMMA SwitchInKeeps ==
    ASSUME IInv, NEW t \in Threads, SwitchIn(t)
    PROVE  IInv'
  <1>1. Good(kernel, {}, {}, {}) /\ kernel \in KState /\ AnswerInv(kernel)
    BY DEF IInv, Good
  <1>2. PICK S, T : S = kernel /\ T = kernel'
    OBVIOUS
  <1>3. T = [S EXCEPT !.status[t] = "Running", !.wakeup_event = @ \ {t},
                      !.timed = @ \ {t}, !.result[t] = "none", !.granted[t] = {}]
    BY <1>2 DEF SwitchIn
  <1>4. S \in KState /\ S.status[t] = "Ready" /\ Good(S, {}, {}, {}) /\ AnswerOf(S, t)
    BY <1>1, <1>2, AnswersOf DEF SwitchIn
  <1>5. PICK s, e, d, r, g : /\ s = [S.status EXCEPT ![t] = "Running"]
                             /\ e = S.wakeup_event \ {t} /\ d = S.timed \ {t}
                             /\ r = [S.result EXCEPT ![t] = "none"] /\ g = [S.granted EXCEPT ![t] = {}]
    OBVIOUS
  <1>6. /\ S.status \in [Threads -> Statuses] /\ S.wakeup_event \in SUBSET Threads
        /\ S.timed \in SUBSET Threads /\ S.result \in [Threads -> {"none", "Success", "Timeout"}]
        /\ S.granted \in [Threads -> SUBSET Objects]
    BY <1>4 DEF KState
  <1>7. /\ s \in [Threads -> Statuses] /\ e \in SUBSET Threads
        /\ d \in SUBSET Threads /\ r \in [Threads -> {"none", "Success", "Timeout"}]
        /\ g \in [Threads -> SUBSET Objects]
    BY <1>5, <1>6 DEF Statuses
  <1>8. T = [S EXCEPT !.status = s, !.wakeup_event = e, !.timed = d, !.result = r, !.granted = g]
    BY <1>3, <1>5
  <1>9. /\ T \in KState
        /\ SameLists(S, T) /\ SameLocks(S, T) /\ SameStock(S, T)
        /\ T.priority = S.priority /\ T.current_priority = S.current_priority
        /\ T.nominal_priority = S.nominal_priority /\ T.failed = S.failed
        /\ T.wakeup_callback = S.wakeup_callback
        /\ T.status = s /\ T.wakeup_event = e /\ T.timed = d /\ T.result = r /\ T.granted = g
    <2>1. S \in KState
      BY <1>4
    <2> QED BY <1>7, <1>8, <2>1, ZenonT(60) DEF KState, SameLists, SameLocks, SameStock
  <1>10. OnlyAnswers(S, T, t)
    BY <1>5, <1>6, <1>9 DEF OnlyAnswers
  <1>11. T.status[t] = "Running" /\ T.result[t] = "none" /\ T.granted[t] = {} /\ t \notin T.wakeup_event
    BY <1>5, <1>6, <1>9
  <1>12. AnswerOf(T, t)
    BY <1>4, <1>9, <1>11 DEF AnswerOf, Waiting
  <1>13. Good(T, {}, {}, {})
    <2>1. T \in KState /\ S.status[t] \in Awake /\ T.status[t] \in Awake
      BY <1>4, <1>9, <1>11 DEF Awake
    <2> QED BY <1>4, <1>10, <1>12, <2>1, AwakeKeeps
  <1> QED BY <1>2, <1>13 DEF IInv

(* SwitchContext away from a thread. *)
LEMMA SwitchOutKeeps ==
    ASSUME IInv, NEW t \in Threads, SwitchOut(t)
    PROVE  IInv'
  <1>1. Good(kernel, {}, {}, {}) /\ kernel \in KState /\ AnswerInv(kernel)
    BY DEF IInv, Good
  <1>2. PICK S, T : S = kernel /\ T = kernel'
    OBVIOUS
  <1>3. T = [S EXCEPT !.status[t] = "Ready"]
    BY <1>2 DEF SwitchOut
  <1>4. S \in KState /\ S.status[t] = "Running" /\ Good(S, {}, {}, {}) /\ AnswerOf(S, t)
    BY <1>1, <1>2, AnswersOf DEF SwitchOut, Running
  <1>5. PICK s : s = [S.status EXCEPT ![t] = "Ready"]
    OBVIOUS
  <1>6. S.status \in [Threads -> Statuses]
    BY <1>4 DEF KState
  <1>7. s \in [Threads -> Statuses]
    BY <1>5, <1>6 DEF Statuses
  <1>8. T = [S EXCEPT !.status = s]
    BY <1>3, <1>5
  <1>9. /\ T \in KState
        /\ SameLists(S, T) /\ SameLocks(S, T) /\ SameStock(S, T) /\ SameAnswers(S, T)
        /\ T.priority = S.priority /\ T.current_priority = S.current_priority
        /\ T.nominal_priority = S.nominal_priority /\ T.failed = S.failed
        /\ T.status = s
    <2>1. S \in KState
      BY <1>4
    <2> QED BY <1>7, <1>8, <2>1, ZenonT(60) DEF KState, SameLists, SameLocks, SameStock, SameAnswers
  <1>10. OnlyAnswers(S, T, t)
    BY <1>5, <1>6, <1>9 DEF OnlyAnswers, SameAnswers
  <1>11. T.status[t] = "Ready"
    BY <1>5, <1>6, <1>9
  <1>12. AnswerOf(T, t)
    BY <1>4, <1>9, <1>11 DEF AnswerOf, Waiting, SameAnswers
  <1>13. Good(T, {}, {}, {})
    <2>1. T \in KState /\ S.status[t] \in Awake /\ T.status[t] \in Awake
      BY <1>4, <1>9, <1>11 DEF Awake
    <2> QED BY <1>4, <1>10, <1>12, <2>1, AwakeKeeps
  <1> QED BY <1>2, <1>13 DEF IInv

(* svcSleepThread. *)
LEMMA SleepThreadKeeps ==
    ASSUME IInv, NEW t \in Threads, SleepThread(t)
    PROVE  IInv'
  <1>1. Good(kernel, {}, {}, {}) /\ kernel \in KState /\ AnswerInv(kernel)
    BY DEF IInv, Good
  <1>2. PICK S, T : S = kernel /\ T = kernel'
    OBVIOUS
  <1>3. T = [S EXCEPT !.status[t] = "WaitSleep", !.wakeup_event = @ \cup {t}]
    BY <1>2 DEF SleepThread
  <1>4. S \in KState /\ S.status[t] = "Running" /\ Good(S, {}, {}, {}) /\ AnswerOf(S, t)
    BY <1>1, <1>2, AnswersOf DEF SleepThread, Running
  <1>5. PICK s, e : s = [S.status EXCEPT ![t] = "WaitSleep"] /\ e = S.wakeup_event \cup {t}
    OBVIOUS
  <1>6. S.status \in [Threads -> Statuses] /\ S.wakeup_event \in SUBSET Threads
    BY <1>4 DEF KState
  <1>7. s \in [Threads -> Statuses] /\ e \in SUBSET Threads
    BY <1>5, <1>6 DEF Statuses
  <1>8. T = [S EXCEPT !.status = s, !.wakeup_event = e]
    BY <1>3, <1>5
  <1>9. /\ T \in KState
        /\ SameLists(S, T) /\ SameLocks(S, T) /\ SameStock(S, T)
        /\ T.priority = S.priority /\ T.current_priority = S.current_priority
        /\ T.nominal_priority = S.nominal_priority /\ T.failed = S.failed
        /\ T.wakeup_callback = S.wakeup_callback /\ T.timed = S.timed
        /\ T.result = S.result /\ T.granted = S.granted
        /\ T.status = s /\ T.wakeup_event = e
    <2>1. S \in KState
      BY <1>4
    <2> QED BY <1>7, <1>8, <2>1, ZenonT(60) DEF KState, SameLists, SameLocks, SameStock
  <1>10. OnlyAnswers(S, T, t)
    BY <1>5, <1>6, <1>9 DEF OnlyAnswers
  <1>11. T.status[t] = "WaitSleep"
    BY <1>5, <1>6, <1>9
  <1>12. AnswerOf(T, t)
    BY <1>4, <1>9, <1>11 DEF AnswerOf, Waiting
  <1>13. Good(T, {}, {}, {})
    <2>1. T \in KState /\ S.status[t] \in Awake /\ T.status[t] \in Awake
      BY <1>4, <1>9, <1>11 DEF Awake
    <2> QED BY <1>4, <1>10, <1>12, <2>1, AwakeKeeps
  <1> QED BY <1>2, <1>13 DEF IInv

(* svcExitThread. *)
LEMMA ExitThreadKeeps ==
    ASSUME IInv, NEW t \in Threads, ExitThread(t)
    PROVE  IInv'
  <1>1. PICK S, T : S = kernel /\ T = kernel'
    OBVIOUS
  <1>2. Good(S, {}, {}, {}) /\ T = Stop(S, t)
    BY <1>1 DEF IInv, ExitThread
  <1>3. Good(T, {}, {}, {})
    BY <1>2, StopKeeps
  <1> QED BY <1>1, <1>3 DEF IInv

(* svcExitProcess and svcTerminateProcess. *)
LEMMA ExitProcessKeeps ==
    ASSUME IInv, NEW t \in Threads, NEW p, ExitProcess(t, p)
    PROVE  IInv'
  <1>1. PICK S, T : S = kernel /\ T = kernel'
    OBVIOUS
  <1>2. Good(S, {}, {}, {}) /\ T = TerminateProcess(S, p)
    BY <1>1 DEF IInv, ExitProcess
  <1>3. S \in KState
    BY <1>2 DEF Good
  <1>4. Good(T, {}, {}, {})
    BY <1>2, <1>3, TerminateKeeps
  <1> QED BY <1>1, <1>4 DEF IInv

(* Only the stock changes, and what becomes available is in X. *)
LEMMA StockKeeps ==
    ASSUME NEW S, Good(S, {}, {}, {}), NEW T \in KState, ButStock(S, T), CountInv(T), NEW X,
           \A p \in Objects \ X : \A u \in Threads : ShouldWait(S, p, u) => ShouldWait(T, p, u)
    PROVE  Good(T, {}, X, {})
  <1>1. /\ S \in KState /\ S.failed = {} /\ ListInv(S) /\ FitsInv(S, {}) /\ MutexInv(S, {}) /\ PrioInv(S)
        /\ AnswerInv(S) /\ AvailInv(S, {}) /\ InheritInv(S, {})
    BY DEF Good
  <1>2. ListInv(T) /\ FitsInv(T, {}) /\ MutexInv(T, {}) /\ PrioInv(T) /\ AnswerInv(T) /\ InheritInv(T, {})
    BY <1>1, ButStockKeeps
  <1>3. T.failed = {} /\ T.status = S.status /\ T.wait_objects = S.wait_objects
    BY <1>1 DEF ButStock, SameLists, SameRest
  <1>4. AvailInv(T, X)
    <2>1. \A u \in Threads : Elements(S.wait_objects[u]) \subseteq Objects
      <3>1. \A u \in Threads : S.wait_objects[u] \in Seq(Objects)
        BY <1>1 DEF KState
      <3> QED BY <3>1 DEF Elements
    <2> SUFFICES ASSUME NEW u \in Threads
                 PROVE  /\ T.status[u] = "WaitSynchAny" =>
                              \A p \in Elements(T.wait_objects[u]) \ X : ShouldWait(T, p, u)
                        /\ T.status[u] = "WaitSynchAll" =>
                              \E p \in Elements(T.wait_objects[u]) : p \in X \/ ShouldWait(T, p, u)
      BY DEF AvailInv
    <2>2. /\ S.status[u] = "WaitSynchAny" =>
                \A p \in Elements(S.wait_objects[u]) : ShouldWait(S, p, u)
          /\ S.status[u] = "WaitSynchAll" =>
                \E p \in Elements(S.wait_objects[u]) : ShouldWait(S, p, u)
      BY <1>1 DEF AvailInv
    <2> QED BY <1>3, <2>1, <2>2
  <1> QED BY <1>2, <1>3, <1>4 DEF Good

(* svcClearEvent and svcClearTimer. *)
LEMMA ClearKeeps ==
    ASSUME IInv, NEW t \in Threads, NEW o \in Resettable, Clear(t, o)
    PROVE  IInv'
  <1>1. PICK S, T : S = kernel /\ T = kernel'
    OBVIOUS
  <1>2. PICK R : R = S.signaled \ {o}
    OBVIOUS
  <1>3. Good(S, {}, {}, {}) /\ T = SetSignaled(S, R)
    BY <1>1, <1>2 DEF IInv, Clear, SetSignaled
  <1>4. S \in KState /\ CountInv(S)
    BY <1>3 DEF Good
  <1>5. R \in SUBSET Resettable
    BY <1>2, <1>4 DEF KState
  <1>6. T \in KState /\ ButStock(S, T) /\ T.signaled = R /\ T.available_count = S.available_count
    BY <1>3, <1>4, <1>5, SignaledStep
  <1>7. CountInv(T)
    BY <1>4, <1>6 DEF CountInv
  <1>8. T.status = S.status /\ T.lock_count = S.lock_count /\ T.holding_thread = S.holding_thread
    BY <1>6 DEF ButStock, SameLocks, SameRest
  <1>9. \A p \in Objects \ {} : \A u \in Threads : ShouldWait(S, p, u) => ShouldWait(T, p, u)
    BY <1>2, <1>6, <1>8 DEF ShouldWait
  <1>10. Good(T, {}, {}, {})
    BY <1>3, <1>6, <1>7, <1>9, StockKeeps
  <1> QED BY <1>1, <1>10 DEF IInv

(* Only the timers change. *)
ButTimers(S, T) == ButStock(S, T) /\ SameStock(S, T)

(* The invariant does not depend on the expiries that are scheduled. *)
LEMMA TimersKeep ==
    ASSUME NEW S, Good(S, {}, {}, {}), NEW T \in KState, ButTimers(S, T)
    PROVE  Good(T, {}, {}, {})
  <1>1. ButStock(S, T) /\ T.available_count = S.available_count /\ T.signaled = S.signaled
    BY DEF ButTimers, SameStock
  <1>2. CountInv(T)
    BY <1>1 DEF CountInv, Good
  <1>3. T.status = S.status /\ T.lock_count = S.lock_count /\ T.holding_thread = S.holding_thread
    BY <1>1 DEF ButStock, SameLocks, SameRest
  <1>4. \A p \in Objects \ {} : \A u \in Threads : ShouldWait(S, p, u) => ShouldWait(T, p, u)
    BY <1>1, <1>3 DEF ShouldWait
  <1> QED BY <1>1, <1>2, <1>4, StockKeeps

SetTimers(S, scheduled, interval) == [S EXCEPT !.scheduled = scheduled, !.interval = interval]

(* What scheduling an expiry changes. *)
LEMMA SetTimersStep ==
    ASSUME NEW S \in KState, NEW A \in SUBSET Timers, NEW B \in SUBSET Timers,
           NEW T, T = SetTimers(S, A, B)
    PROVE  T \in KState /\ ButTimers(S, T)
  BY DEF SetTimers, ButTimers, KState, ButStock, SameLists, SameLocks, SameStock, SameAnswers, SameRest

(* svcCancelTimer. *)
LEMMA CancelTimerKeeps ==
    ASSUME IInv, NEW t \in Threads, NEW o \in Timers, CancelTimer(t, o)
    PROVE  IInv'
  <1>1. PICK S, T : S = kernel /\ T = kernel'
    OBVIOUS
  <1>2. Good(S, {}, {}, {}) /\ T = [S EXCEPT !.scheduled = @ \ {o}]
    BY <1>1 DEF IInv, CancelTimer
  <1>3. S \in KState
    BY <1>2 DEF Good
  <1>4. PICK A, B : A = S.scheduled \ {o} /\ B = S.interval
    OBVIOUS
  <1>5. A \in SUBSET Timers /\ B \in SUBSET Timers
    BY <1>3, <1>4 DEF KState
  <1>6. T = SetTimers(S, A, B)
    BY <1>2, <1>3, <1>4 DEF SetTimers, KState
  <1>7. T \in KState /\ ButTimers(S, T)
    BY <1>3, <1>5, <1>6, SetTimersStep
  <1>8. Good(T, {}, {}, {})
    BY <1>2, <1>7, TimersKeep
  <1> QED BY <1>1, <1>8 DEF IInv

(* Where no thread is being stopped, none of those waits for o. *)
LEMMA NoneAbsent ==
    ASSUME NEW S, NEW o
    PROVE  Absent(S, {}, o) /\ {} \subseteq Threads
  BY DEF Absent

(* Raising a signal wakes whoever can have it. *)
LEMMA RaiseKeeps ==
    ASSUME NEW S, Good(S, {}, {}, {}), NEW o \in Resettable, NEW T, T = Raise(S, o)
    PROVE  Good(T, {}, {}, {})
  <1>1. S \in KState /\ CountInv(S)
    BY DEF Good
  <1>2. PICK R : R = S.signaled \cup {o}
    OBVIOUS
  <1>3. R \in SUBSET Resettable
    BY <1>1, <1>2 DEF KState
  <1>4. PICK A : A = SetSignaled(S, R)
    OBVIOUS
  <1>5. A \in KState /\ ButStock(S, A) /\ A.signaled = R /\ A.available_count = S.available_count
    BY <1>1, <1>3, <1>4, SignaledStep
  <1>6. CountInv(A)
    BY <1>1, <1>5 DEF CountInv
  <1>7. A.status = S.status /\ A.lock_count = S.lock_count /\ A.holding_thread = S.holding_thread
    BY <1>5 DEF ButStock, SameLocks, SameRest
  <1>8. PICK X : X = {o}
    OBVIOUS
  <1>9. \A p \in Objects \ X : \A u \in Threads : ShouldWait(S, p, u) => ShouldWait(A, p, u)
    BY <1>2, <1>5, <1>7, <1>8 DEF ShouldWait
  <1>10. Good(A, {}, X, {})
    BY <1>5, <1>6, <1>9, StockKeeps
  <1>11. T = WakeupAllWaitingThreads(A, o)
    BY <1>2, <1>4 DEF Raise, SetSignaled
  <1>12. o \in Objects
    BY DEF Objects
  <1> QED BY <1>8, <1>10, <1>11, <1>12, NoneAbsent, WakeupAllKeeps

(* svcSignalEvent. *)
LEMMA SignalEventKeeps ==
    ASSUME IInv, NEW t \in Threads, NEW e \in Events, SignalEvent(t, e)
    PROVE  IInv'
  <1>1. PICK S, T : S = kernel /\ T = kernel'
    OBVIOUS
  <1>2. Good(S, {}, {}, {}) /\ T = Raise(S, e)
    BY <1>1 DEF IInv, SignalEvent
  <1>3. e \in Resettable
    BY DEF Resettable
  <1>4. Good(T, {}, {}, {})
    BY <1>2, <1>3, RaiseKeeps
  <1> QED BY <1>1, <1>4 DEF IInv

(* Timer::Signal. *)
LEMMA TimerSignalKeeps ==
    ASSUME NEW S, Good(S, {}, {}, {}), NEW o \in Timers, NEW T, T = TimerSignal(S, o)
    PROVE  Good(T, {}, {}, {})
  <1>1. PICK x : x = Raise(S, o)
    OBVIOUS
  <1>2. o \in Resettable
    BY DEF Resettable
  <1>3. Good(x, {}, {}, {})
    BY <1>1, <1>2, RaiseKeeps
  <1>4. x \in KState
    BY <1>3 DEF Good
  <1>5. CASE o \in S.interval
    <2>1. PICK A, B : A = x.scheduled \cup {o} /\ B = x.interval
      OBVIOUS
    <2>2. A \in SUBSET Timers /\ B \in SUBSET Timers
      BY <1>4, <2>1 DEF KState
    <2>3. T = [x EXCEPT !.scheduled = @ \cup {o}]
      BY <1>1, <1>5 DEF TimerSignal
    <2>4. T = SetTimers(x, A, B)
      BY <1>4, <2>1, <2>3 DEF SetTimers, KState
    <2>5. T \in KState /\ ButTimers(x, T)
      BY <1>4, <2>2, <2>4, SetTimersStep
    <2> QED BY <1>3, <2>5, TimersKeep
  <1>6. CASE o \notin S.interval
    <2>1. T = x
      BY <1>1, <1>6 DEF TimerSignal
    <2> QED BY <1>3, <2>1
  <1> QED BY <1>5, <1>6

(* TimerManager::TimerCallback. *)
LEMMA TimerCallbackKeeps ==
    ASSUME IInv, NEW o \in Timers, TimerCallback(o)
    PROVE  IInv'
  <1>1. PICK S, T : S = kernel /\ T = kernel'
    OBVIOUS
  <1>2. PICK x : x = [S EXCEPT !.scheduled = @ \ {o}]
    OBVIOUS
  <1>3. Good(S, {}, {}, {}) /\ T = TimerSignal(x, o)
    BY <1>1, <1>2 DEF IInv, TimerCallback
  <1>4. S \in KState
    BY <1>3 DEF Good
  <1>5. PICK A, B : A = S.scheduled \ {o} /\ B = S.interval
    OBVIOUS
  <1>6. A \in SUBSET Timers /\ B \in SUBSET Timers
    BY <1>4, <1>5 DEF KState
  <1>7. x = SetTimers(S, A, B)
    BY <1>2, <1>4, <1>5 DEF SetTimers, KState
  <1>8. x \in KState /\ ButTimers(S, x)
    BY <1>4, <1>6, <1>7, SetTimersStep
  <1>9. Good(x, {}, {}, {})
    BY <1>3, <1>8, TimersKeep
  <1>10. Good(T, {}, {}, {})
    BY <1>3, <1>9, TimerSignalKeeps
  <1> QED BY <1>1, <1>10 DEF IInv

(* svcSetTimer. *)
LEMMA SetTimerKeeps ==
    ASSUME IInv, NEW t \in Threads, NEW o \in Timers, NEW initial \in BOOLEAN, NEW interval \in BOOLEAN,
           SetTimer(t, o, initial, interval)
    PROVE  IInv'
  <1>1. PICK S, T : S = kernel /\ T = kernel'
    OBVIOUS
  <1>2. PICK A, B : /\ A = IF initial THEN S.scheduled \cup {o} ELSE S.scheduled \ {o}
                    /\ B = IF interval THEN S.interval \cup {o} ELSE S.interval \ {o}
    OBVIOUS
  <1>3. PICK x : x = SetTimers(S, A, B)
    OBVIOUS
  <1>4. Good(S, {}, {}, {})
    BY <1>1 DEF IInv
  <1>5. S \in KState
    BY <1>4 DEF Good
  <1>6. T = IF initial THEN x ELSE TimerSignal(x, o)
    <2>1. [S EXCEPT !.interval = IF interval THEN @ \cup {o} ELSE @ \ {o},
                    !.scheduled = IF initial THEN @ \cup {o} ELSE @ \ {o}] = x
      BY <1>2, <1>3, <1>5 DEF SetTimers, KState
    <2> QED BY <1>1, <2>1 DEF SetTimer
  <1>7. A \in SUBSET Timers /\ B \in SUBSET Timers
    BY <1>2, <1>5 DEF KState
  <1>8. x \in KState /\ ButTimers(S, x)
    BY <1>3, <1>5, <1>7, SetTimersStep
  <1>9. Good(x, {}, {}, {})
    BY <1>4, <1>8, TimersKeep
  <1>10. ~initial => Good(T, {}, {}, {})
    BY <1>6, <1>9, TimerSignalKeeps
  <1>11. Good(T, {}, {}, {})
    BY <1>6, <1>9, <1>10
  <1> QED BY <1>1, <1>11 DEF IInv

(* svcReleaseSemaphore. *)
LEMMA ReleaseSemaphoreKeeps ==
    ASSUME IInv, NEW t \in Threads, NEW s \in Semaphores, NEW n \in 1 .. MaxCount[s],
           ReleaseSemaphore(t, s, n)
    PROVE  IInv'
  <1>1. PICK S, T : S = kernel /\ T = kernel'
    OBVIOUS
  <1>2. PICK c : c = S.available_count[s] + n
    OBVIOUS
  <1>3. PICK A : A = SetAvailable(S, s, c)
    OBVIOUS
  <1>4. Good(S, {}, {}, {}) /\ T = WakeupAllWaitingThreads(A, s) /\ MaxCount[s] >= n + S.available_count[s]
    BY <1>1, <1>2, <1>3 DEF IInv, ReleaseSemaphore, SetAvailable
  <1>5. S \in KState /\ CountInv(S)
    BY <1>4 DEF Good
  <1>6. S.available_count \in [Semaphores -> Nat] /\ MaxCount \in [Semaphores -> Nat] /\ n \in Nat
    BY <1>5, CountAssumption DEF KState
  <1>7. c \in Nat /\ c <= MaxCount[s]
    BY <1>2, <1>4, <1>6
  <1>8. /\ A \in KState /\ ButStock(S, A) /\ A.signaled = S.signaled
        /\ A.available_count = [S.available_count EXCEPT ![s] = c]
    BY <1>3, <1>5, <1>7, AvailableStep
  <1>9. \A r \in Semaphores : A.available_count[r] = IF r = s THEN c ELSE S.available_count[r]
    BY <1>6, <1>8
  <1>10. CountInv(A)
    BY <1>5, <1>7, <1>9 DEF CountInv
  <1>11. A.status = S.status /\ A.lock_count = S.lock_count /\ A.holding_thread = S.holding_thread
    BY <1>8 DEF ButStock, SameLocks, SameRest
  <1>12. PICK X : X = {s}
    OBVIOUS
  <1>13. \A p \in Objects \ X : \A u \in Threads : ShouldWait(S, p, u) => ShouldWait(A, p, u)
    BY <1>8, <1>9, <1>11, <1>12 DEF ShouldWait
  <1>14. A \in KState /\ ButStock(S, A)
    BY <1>8
  <1>15. Good(A, {}, X, {})
    BY <1>4, <1>10, <1>13, <1>14, StockKeeps
  <1>16. s \in Objects
    BY DEF Objects
  <1>17. Good(T, {}, {}, {})
    BY <1>4, <1>12, <1>15, <1>16, NoneAbsent, WakeupAllKeeps
  <1> QED BY <1>1, <1>17 DEF IInv

(* Mutex::Release that leaves the mutex locked. *)
UncountLock(S, m) == [S EXCEPT !.lock_count[m] = @ - 1]

(* What counting an unlock changes. *)
LEMMA UncountStep ==
    ASSUME NEW S \in KState, NEW m \in Mutexes, S.lock_count[m] > 0, NEW T, T = UncountLock(S, m)
    PROVE  /\ T \in KState
           /\ SameLists(S, T) /\ SameStock(S, T) /\ SameAnswers(S, T) /\ SameRest(S, T)
           /\ T.holding_thread = S.holding_thread /\ T.held_mutexes = S.held_mutexes
           /\ T.priority = S.priority /\ T.current_priority = S.current_priority
           /\ \A n \in Mutexes : T.lock_count[n] = IF n = m THEN S.lock_count[m] - 1 ELSE S.lock_count[n]
  <1>1. PICK c : c = [S.lock_count EXCEPT ![m] = @ - 1]
    OBVIOUS
  <1>2. S.lock_count \in [Mutexes -> Nat]
    BY DEF KState
  <1>3. S.lock_count[m] - 1 \in Nat
    BY <1>2
  <1>4. /\ c \in [Mutexes -> Nat]
        /\ \A n \in Mutexes : c[n] = IF n = m THEN S.lock_count[m] - 1 ELSE S.lock_count[n]
    BY <1>1, <1>2, <1>3
  <1>5. T = [S EXCEPT !.lock_count = c]
    BY <1>1 DEF UncountLock
  <1>6. /\ T \in KState
        /\ SameLists(S, T) /\ SameStock(S, T) /\ SameAnswers(S, T) /\ SameRest(S, T)
        /\ T.holding_thread = S.holding_thread /\ T.held_mutexes = S.held_mutexes
        /\ T.priority = S.priority /\ T.current_priority = S.current_priority
        /\ T.lock_count = c
    BY <1>4, <1>5, ZenonT(60) DEF KState, SameLists, SameStock, SameAnswers, SameRest
  <1> QED BY <1>4, <1>6

LoseMutex(S, t, m) == [S EXCEPT !.held_mutexes[t] = @ \ {m}]

(* What taking a mutex out of held_mutexes changes. *)
LEMMA LoseStep ==
    ASSUME NEW S \in KState, NEW t \in Threads, NEW m \in Mutexes, NEW T, T = LoseMutex(S, t, m)
    PROVE  /\ T \in KState
           /\ SameLists(S, T) /\ SameStock(S, T) /\ SameAnswers(S, T) /\ SameRest(S, T)
           /\ T.holding_thread = S.holding_thread /\ T.lock_count = S.lock_count
           /\ T.priority = S.priority /\ T.current_priority = S.current_priority
           /\ \A u \in Threads : T.held_mutexes[u] = S.held_mutexes[u] \ (IF u = t THEN {m} ELSE {})
  <1>1. PICK h : h = [S.held_mutexes EXCEPT ![t] = @ \ {m}]
    OBVIOUS
  <1>2. S.held_mutexes \in [Threads -> SUBSET Mutexes]
    BY DEF KState
  <1>3. /\ h \in [Threads -> SUBSET Mutexes]
        /\ \A u \in Threads : h[u] = S.held_mutexes[u] \ (IF u = t THEN {m} ELSE {})
    BY <1>1, <1>2
  <1>4. T = [S EXCEPT !.held_mutexes = h]
    BY <1>1 DEF LoseMutex
  <1>5. /\ T \in KState
        /\ SameLists(S, T) /\ SameStock(S, T) /\ SameAnswers(S, T) /\ SameRest(S, T)
        /\ T.holding_thread = S.holding_thread /\ T.lock_count = S.lock_count
        /\ T.priority = S.priority /\ T.current_priority = S.current_priority
        /\ T.held_mutexes = h
    BY <1>3, <1>4, ZenonT(60) DEF KState, SameLists, SameStock, SameAnswers, SameRest
  <1> QED BY <1>3, <1>5

UnholdMutex(S, m) == [S EXCEPT !.holding_thread[m] = None]

(* What clearing holding_thread changes. *)
LEMMA UnholdStep ==
    ASSUME NEW S \in KState, NEW m \in Mutexes, NEW T, T = UnholdMutex(S, m)
    PROVE  /\ T \in KState
           /\ SameLists(S, T) /\ SameStock(S, T) /\ SameAnswers(S, T) /\ SameRest(S, T)
           /\ T.held_mutexes = S.held_mutexes /\ T.lock_count = S.lock_count
           /\ T.priority = S.priority /\ T.current_priority = S.current_priority
           /\ \A n \in Mutexes : T.holding_thread[n] = IF n = m THEN None ELSE S.holding_thread[n]
  <1>1. PICK h : h = [S.holding_thread EXCEPT ![m] = None]
    OBVIOUS
  <1>2. S.holding_thread \in [Mutexes -> Threads \cup {None}]
    BY DEF KState
  <1>3. /\ h \in [Mutexes -> Threads \cup {None}]
        /\ \A n \in Mutexes : h[n] = IF n = m THEN None ELSE S.holding_thread[n]
    BY <1>1, <1>2
  <1>4. T = [S EXCEPT !.holding_thread = h]
    BY <1>1 DEF UnholdMutex
  <1>5. /\ T \in KState
        /\ SameLists(S, T) /\ SameStock(S, T) /\ SameAnswers(S, T) /\ SameRest(S, T)
        /\ T.held_mutexes = S.held_mutexes /\ T.lock_count = S.lock_count
        /\ T.priority = S.priority /\ T.current_priority = S.current_priority
        /\ T.holding_thread = h
    BY <1>3, <1>4, ZenonT(60) DEF KState, SameLists, SameStock, SameAnswers, SameRest
  <1> QED BY <1>3, <1>5

(* A mutex that stays locked after a release. *)
LEMMA UncountKeeps ==
    ASSUME NEW S, Good(S, {}, {}, {}), NEW m \in Mutexes, S.lock_count[m] > 1,
           NEW T, T = UncountLock(S, m)
    PROVE  Good(T, {}, {}, {})
  <1>1. /\ S \in KState /\ S.failed = {} /\ ListInv(S) /\ FitsInv(S, {}) /\ MutexInv(S, {}) /\ PrioInv(S)
        /\ CountInv(S) /\ AnswerInv(S) /\ AvailInv(S, {}) /\ InheritInv(S, {})
    BY DEF Good
  <1>2. S.lock_count \in [Mutexes -> Nat]
    BY <1>1 DEF KState
  <1>3. /\ T \in KState
        /\ SameLists(S, T) /\ SameStock(S, T) /\ SameAnswers(S, T) /\ SameRest(S, T)
        /\ T.holding_thread = S.holding_thread /\ T.held_mutexes = S.held_mutexes
        /\ T.priority = S.priority /\ T.current_priority = S.current_priority
        /\ \A n \in Mutexes : T.lock_count[n] = IF n = m THEN S.lock_count[m] - 1 ELSE S.lock_count[n]
    <2>1. S \in KState /\ S.lock_count[m] > 0
      BY <1>1, <1>2
    <2> QED BY <2>1, UncountStep
  <1>4. \A n \in Mutexes : T.lock_count[n] > 0 <=> S.lock_count[n] > 0
    BY <1>2, <1>3
  <1>5. /\ T.status = S.status /\ T.failed = S.failed /\ T.nominal_priority = S.nominal_priority
        /\ T.wait_objects = S.wait_objects /\ T.waiting_threads = S.waiting_threads
        /\ T.available_count = S.available_count /\ T.signaled = S.signaled
    BY <1>3 DEF SameRest, SameLists, SameStock
  <1>6. ListInv(T)
    BY <1>1, <1>3, ListInvSame
  <1>7. FitsInv(T, {}) /\ CountInv(T)
    BY <1>1, <1>5 DEF FitsInv, CountInv
  <1>8. MutexInv(T, {})
    BY <1>1, <1>3, <1>4, <1>5 DEF MutexInv
  <1>9. PrioInv(T)
    BY <1>1, <1>3, <1>5 DEF PrioInv, BestPriority
  <1>10. AnswerInv(T)
    BY <1>1, <1>3, <1>5 DEF AnswerInv, SameAnswers
  <1>11. AvailInv(T, {})
    <2>1. \A p, u : ShouldWait(S, p, u) => ShouldWait(T, p, u)
      BY <1>3, <1>4, <1>5 DEF ShouldWait
    <2> QED BY <1>1, <1>5, <2>1 DEF AvailInv
  <1>12. InheritInv(T, {})
    BY <1>1, <1>3, <1>5 DEF InheritInv, Lends, Plain
  <1> QED BY <1>1, <1>3, <1>5, <1>6, <1>7, <1>8, <1>9, <1>10, <1>11, <1>12 DEF Good

(* svcReleaseMutex. *)
LEMMA ReleaseMutexKeeps ==
    ASSUME IInv, NEW t \in Threads, NEW m \in Mutexes, ReleaseMutex(t, m)
    PROVE  IInv'
  <1>1. PICK S, T : S = kernel /\ T = kernel'
    OBVIOUS
  <1>2. /\ Good(S, {}, {}, {}) /\ S.status[t] = "Running" /\ S.holding_thread[m] = t /\ S.lock_count[m] > 0
    BY <1>1 DEF IInv, ReleaseMutex, Running
  <1>3. PICK x : x = UncountLock(S, m)
    OBVIOUS
  <1>4. PICK y : y = LoseMutex(x, t, m)
    OBVIOUS
  <1>5. PICK z : z = UpdatePriority(y, t)
    OBVIOUS
  <1>6. PICK A : A = UnholdMutex(z, m)
    OBVIOUS
  <1>7. T = IF x.lock_count[m] > 0 THEN x ELSE WakeupAllWaitingThreads(A, m)
    BY <1>1, <1>3, <1>4, <1>5, <1>6 DEF ReleaseMutex, UncountLock, LoseMutex, UnholdMutex
  <1>8. /\ S \in KState /\ S.failed = {} /\ ListInv(S) /\ FitsInv(S, {}) /\ MutexInv(S, {}) /\ PrioInv(S)
        /\ CountInv(S) /\ AnswerInv(S) /\ AvailInv(S, {}) /\ InheritInv(S, {})
    BY <1>2 DEF Good
  <1>9. S.lock_count \in [Mutexes -> Nat] /\ S.held_mutexes \in [Threads -> SUBSET Mutexes]
        /\ S.holding_thread \in [Mutexes -> Threads \cup {None}]
        /\ S.current_priority \in [Threads -> Prio]
    BY <1>8 DEF KState
  <1>10. /\ x \in KState
         /\ SameLists(S, x) /\ SameStock(S, x) /\ SameAnswers(S, x) /\ SameRest(S, x)
         /\ x.holding_thread = S.holding_thread /\ x.held_mutexes = S.held_mutexes
         /\ x.priority = S.priority /\ x.current_priority = S.current_priority
         /\ \A n \in Mutexes : x.lock_count[n] = IF n = m THEN S.lock_count[m] - 1 ELSE S.lock_count[n]
    <2>1. S \in KState
      BY <1>8
    <2> QED BY <1>2, <1>3, <2>1, UncountStep
  <1>11. CASE x.lock_count[m] > 0
    <2>1. S.lock_count[m] > 1
      BY <1>9, <1>10, <1>11
    <2>2. Good(x, {}, {}, {})
      BY <1>2, <1>3, <2>1, UncountKeeps
    <2> QED BY <1>1, <1>7, <1>11, <2>2 DEF IInv
  <1>12. CASE ~(x.lock_count[m] > 0)
    <2>1. /\ y \in KState
          /\ SameLists(x, y) /\ SameStock(x, y) /\ SameAnswers(x, y) /\ SameRest(x, y)
          /\ y.holding_thread = x.holding_thread /\ y.lock_count = x.lock_count
          /\ y.priority = x.priority /\ y.current_priority = x.current_priority
          /\ \A u \in Threads : y.held_mutexes[u] = x.held_mutexes[u] \ (IF u = t THEN {m} ELSE {})
      <3>1. x \in KState
        BY <1>10
      <3> QED BY <1>4, <3>1, LoseStep
    <2>2. /\ z \in KState
          /\ z.current_priority = [y.current_priority EXCEPT ![t] = BestPriority(y, t)]
          /\ z.priority = y.priority
          /\ SameLists(y, z) /\ SameLocks(y, z) /\ SameStock(y, z)
          /\ SameAnswers(y, z) /\ SameRest(y, z)
      <3>1. y \in KState
        BY <2>1
      <3> QED BY <1>5, <3>1, UpdatePriorityStep
    <2>3. /\ A \in KState
          /\ SameLists(z, A) /\ SameStock(z, A) /\ SameAnswers(z, A) /\ SameRest(z, A)
          /\ A.held_mutexes = z.held_mutexes /\ A.lock_count = z.lock_count
          /\ A.priority = z.priority /\ A.current_priority = z.current_priority
          /\ \A n \in Mutexes : A.holding_thread[n] = IF n = m THEN None ELSE z.holding_thread[n]
      <3>1. z \in KState
        BY <2>2
      <3> QED BY <1>6, <3>1, UnholdStep
    <2>4. SameLists(S, A) /\ SameStock(S, A) /\ SameAnswers(S, A) /\ SameRest(S, A)
      BY <1>10, <2>1, <2>2, <2>3 DEF SameLists, SameStock, SameAnswers, SameRest
    <2>5. /\ A.status = S.status /\ A.failed = S.failed /\ A.nominal_priority = S.nominal_priority
          /\ A.wait_objects = S.wait_objects /\ A.waiting_threads = S.waiting_threads
          /\ A.available_count = S.available_count /\ A.signaled = S.signaled
      BY <2>4 DEF SameRest, SameLists, SameStock
    <2>6. A.priority = S.priority
      BY <1>10, <2>1, <2>2, <2>3
    <2>7. \A n \in Mutexes : /\ A.lock_count[n] = IF n = m THEN 0 ELSE S.lock_count[n]
                             /\ A.holding_thread[n] = IF n = m THEN None ELSE S.holding_thread[n]
      <3>1. S.lock_count[m] - 1 = 0
        BY <1>2, <1>9, <1>10, <1>12
      <3> QED BY <1>10, <2>1, <2>2, <2>3, <3>1 DEF SameLocks
    <2>8. \A u \in Threads : /\ A.held_mutexes[u] = S.held_mutexes[u] \ (IF u = t THEN {m} ELSE {})
                             /\ A.current_priority[u] = IF u = t THEN BestPriority(y, t)
                                                        ELSE S.current_priority[u]
      <3>1. y.current_priority \in [Threads -> Prio]
        BY <2>1 DEF KState
      <3>2. A.current_priority = [y.current_priority EXCEPT ![t] = BestPriority(y, t)]
            /\ y.current_priority = S.current_priority
        BY <1>10, <2>1, <2>2, <2>3
      <3>3. A.held_mutexes = y.held_mutexes /\ x.held_mutexes = S.held_mutexes
        BY <1>10, <2>2, <2>3 DEF SameLocks
      <3> QED BY <2>1, <3>1, <3>2, <3>3
    <2>9. ListInv(A)
      BY <1>8, <2>4, ListInvSame
    <2>10. FitsInv(A, {}) /\ CountInv(A)
      BY <1>8, <2>5 DEF FitsInv, CountInv
    <2>11. MutexInv(A, {})
      <3> SUFFICES ASSUME NEW n \in Mutexes
                   PROVE  /\ A.lock_count[n] > 0 <=> A.holding_thread[n] # None
                          /\ A.holding_thread[n] # None => n \in A.held_mutexes[A.holding_thread[n]]
                          /\ \A u \in Threads :
                                n \in A.held_mutexes[u] => A.holding_thread[n] = u /\ A.status[u] # "Dead"
        BY DEF MutexInv
      <3>1. /\ S.lock_count[n] > 0 <=> S.holding_thread[n] # None
            /\ S.holding_thread[n] # None => n \in S.held_mutexes[S.holding_thread[n]]
            /\ \A u \in Threads :
                  n \in S.held_mutexes[u] => S.holding_thread[n] = u /\ S.status[u] # "Dead"
        BY <1>8 DEF MutexInv
      <3>2. CASE n = m
        <4>1. \A u \in Threads : n \notin A.held_mutexes[u]
          BY <1>2, <2>8, <3>1, <3>2
        <4> QED BY <2>7, <3>2, <4>1
      <3>3. CASE n # m
        <4>1. S.holding_thread[n] \in Threads \cup {None}
          BY <1>9
        <4> QED BY <2>5, <2>7, <2>8, <3>1, <3>3, <4>1
      <3> QED BY <3>2, <3>3
    <2>12. PrioInv(A)
      <3> SUFFICES ASSUME NEW u \in Threads, A.status[u] # "Dead"
                   PROVE  A.current_priority[u] = BestPriority(A, u)
        BY DEF PrioInv
      <3>1. CASE u = t
        <4>1. SameBest(y, A, t)
          BY <2>2, <2>3 DEF SameBest, SameLocks, SameRest
        <4>2. BestPriority(A, t) = BestPriority(y, t)
          BY <4>1, BestPrioritySame
        <4> QED BY <2>8, <3>1, <4>2
      <3>2. CASE u # t
        <4>1. SameBest(S, A, u)
          BY <2>5, <2>6, <2>8, <3>2 DEF SameBest
        <4>2. BestPriority(A, u) = BestPriority(S, u)
          BY <4>1, BestPrioritySame
        <4>3. S.current_priority[u] = BestPriority(S, u)
          BY <1>8, <2>5 DEF PrioInv
        <4> QED BY <2>8, <3>2, <4>2, <4>3
      <3> QED BY <3>1, <3>2
    <2>13. AnswerInv(A)
      <3>1. \A u \in Threads : S.status[u] = "Ready" => A.held_mutexes[u] = S.held_mutexes[u]
        BY <1>2, <2>8
      <3> QED BY <1>8, <2>4, <2>5, <3>1 DEF AnswerInv, SameAnswers
    <2>14. AvailInv(A, {m})
      <3>1. \A p, u : p # m /\ ShouldWait(S, p, u) => ShouldWait(A, p, u)
        BY <2>5, <2>7 DEF ShouldWait
      <3> QED BY <1>8, <2>5, <3>1 DEF AvailInv
    <2>15. InheritInv(A, {})
      <3>1. ASSUME NEW n \in Mutexes, NEW w \in Elements(A.waiting_threads[n]), Plain(A, w)
            PROVE  Plain(S, w) /\ A.current_priority[w] = S.current_priority[w]
        <4>1. w \in Threads
          <5>1. A.waiting_threads[n] \in Seq(Threads)
            BY <2>3 DEF KState, Objects
          <5> QED BY <5>1 DEF Elements
        <4>2. w # t
          BY <1>2, <2>5, <3>1 DEF Plain
        <4>3. S.held_mutexes[w] = {} /\ A.current_priority[w] = S.current_priority[w]
          BY <2>8, <3>1, <4>1, <4>2 DEF Plain
        <4> QED BY <2>5, <3>1, <4>3 DEF Plain
      <3>2. \A n \in Mutexes : A.holding_thread[n] # None => Unmoved(S, A, n)
        BY <2>5, <2>6, <2>7, <3>1 DEF Unmoved
      <3> QED BY <1>8, <3>2, InheritKept
    <2>16. A.failed = {} /\ A \in KState
      BY <1>8, <2>3, <2>5
    <2>17. Good(A, {}, {m}, {})
      BY <2>9, <2>10, <2>11, <2>12, <2>13, <2>14, <2>15, <2>16 DEF Good
    <2>18. m \in Objects
      BY DEF Objects
    <2>19. T = WakeupAllWaitingThreads(A, m)
      BY <1>7, <1>12
    <2>20. Good(T, {}, {}, {})
      BY <2>17, <2>18, <2>19, NoneAbsent, WakeupAllKeeps
    <2> QED BY <1>1, <2>20 DEF IInv
  <1> QED BY <1>11, <1>12


(* The wakeup event of t is no longer scheduled. *)
Unscheduled(S, t) == [S EXCEPT !.wakeup_event = @ \ {t}]

(* What unscheduling a wakeup event changes. *)
LEMMA UnscheduledStep ==
    ASSUME NEW S \in KState, NEW t \in Threads, NEW T, T = Unscheduled(S, t)
    PROVE  /\ T \in KState
           /\ SameLists(S, T) /\ SameLocks(S, T) /\ SameStock(S, T) /\ SameRest(S, T)
           /\ T.priority = S.priority /\ T.current_priority = S.current_priority
           /\ T.wakeup_callback = S.wakeup_callback /\ T.timed = S.timed
           /\ T.result = S.result /\ T.granted = S.granted
           /\ T.wakeup_event = S.wakeup_event \ {t}
  <1>1. PICK e : e = S.wakeup_event \ {t}
    OBVIOUS
  <1>2. e \in SUBSET Threads
    BY <1>1 DEF KState
  <1>3. T = [S EXCEPT !.wakeup_event = e]
    BY <1>1 DEF Unscheduled
  <1>4. /\ T \in KState
        /\ SameLists(S, T) /\ SameLocks(S, T) /\ SameStock(S, T) /\ SameRest(S, T)
        /\ T.priority = S.priority /\ T.current_priority = S.current_priority
        /\ T.wakeup_callback = S.wakeup_callback /\ T.timed = S.timed
        /\ T.result = S.result /\ T.granted = S.granted
        /\ T.wakeup_event = e
    BY <1>2, <1>3, ZenonT(60) DEF KState, SameLists, SameLocks, SameStock, SameRest
  <1> QED BY <1>1, <1>4

(* What the wakeup callback writes on a timeout. *)
LEMMA TellTimeoutStep ==
    ASSUME NEW S \in KState, NEW t \in Threads, NEW T, T = TellTimeout(S, t), t \in S.wakeup_callback
    PROVE  /\ T \in KState
           /\ SameLists(S, T) /\ SameLocks(S, T) /\ SameStock(S, T) /\ SameRest(S, T)
           /\ T.priority = S.priority /\ T.current_priority = S.current_priority
           /\ T.wakeup_callback = S.wakeup_callback
           /\ T.wakeup_event = S.wakeup_event /\ T.timed = S.timed
           /\ T.granted = S.granted
           /\ \A u \in Threads \ {t} : T.result[u] = S.result[u]
           /\ T.result[t] = "Timeout"
  <1>1. PICK r : r = [S.result EXCEPT ![t] = "Timeout"]
    OBVIOUS
  <1>2. S.result \in [Threads -> {"none", "Success", "Timeout"}]
    BY DEF KState
  <1>3. r \in [Threads -> {"none", "Success", "Timeout"}]
    BY <1>1, <1>2
  <1>4. T = [S EXCEPT !.result = r]
    BY <1>1 DEF TellTimeout
  <1>5. /\ T \in KState
        /\ SameLists(S, T) /\ SameLocks(S, T) /\ SameStock(S, T) /\ SameRest(S, T)
        /\ T.priority = S.priority /\ T.current_priority = S.current_priority
        /\ T.wakeup_callback = S.wakeup_callback
        /\ T.wakeup_event = S.wakeup_event /\ T.timed = S.timed
        /\ T.granted = S.granted /\ T.result = r
    BY <1>3, <1>4, ZenonT(60) DEF KState, SameLists, SameLocks, SameStock, SameRest
  <1> QED BY <1>1, <1>2, <1>5

(* ThreadManager::ThreadWakeupCallback. *)
LEMMA ThreadWakeupCallbackKeeps ==
    ASSUME IInv, NEW t \in Threads, ThreadWakeupCallback(t)
    PROVE  IInv'
  <1>1. Good(kernel, {}, {}, {}) /\ kernel \in KState /\ AnswerInv(kernel)
    BY DEF IInv, Good
  <1>2. PICK S, T : S = kernel /\ T = kernel'
    OBVIOUS
  <1>3. PICK U : U = Unscheduled(S, t)
    OBVIOUS
  <1>4. /\ t \in S.wakeup_event
        /\ T = ResumeFromWait(IF S.status[t] \in Waiting THEN LeaveWaitObjects(TellTimeout(U, t), t) ELSE U, t)
    BY <1>2, <1>3 DEF ThreadWakeupCallback, Unscheduled
  <1>5. S \in KState /\ Good(S, {}, {}, {}) /\ AnswerOf(S, t)
    BY <1>1, <1>2, AnswersOf
  <1>6. /\ U \in KState
        /\ SameLists(S, U) /\ SameLocks(S, U) /\ SameStock(S, U) /\ SameRest(S, U)
        /\ U.priority = S.priority /\ U.current_priority = S.current_priority
        /\ U.wakeup_callback = S.wakeup_callback /\ U.timed = S.timed
        /\ U.result = S.result /\ U.granted = S.granted
        /\ U.wakeup_event = S.wakeup_event \ {t}
    BY <1>3, <1>5, UnscheduledStep
  <1>7. S.status[t] \in Statuses /\ S.status[t] \notin {"Running", "Dead"}
    BY <1>4, <1>5 DEF AnswerOf, KState
  <1>8. CASE S.status[t] \in Waiting
    <2>1. PICK B : B = TellTimeout(U, t)
      OBVIOUS
    <2>2. PICK C : C = LeaveWaitObjects(B, t)
      OBVIOUS
    <2>3. T = ResumeFromWait(C, t)
      BY <1>4, <1>8, <2>1, <2>2
    <2>4. t \in S.wakeup_callback /\ S.granted[t] = {}
      BY <1>5, <1>8 DEF AnswerOf
    <2>5. /\ B \in KState
          /\ SameLists(U, B) /\ SameLocks(U, B) /\ SameStock(U, B) /\ SameRest(U, B)
          /\ B.priority = U.priority /\ B.current_priority = U.current_priority
          /\ B.wakeup_callback = U.wakeup_callback
          /\ B.wakeup_event = U.wakeup_event /\ B.timed = U.timed
          /\ B.granted = U.granted
          /\ \A u \in Threads \ {t} : B.result[u] = U.result[u]
          /\ B.result[t] = "Timeout"
      BY <1>6, <2>1, <2>4, TellTimeoutStep
    <2>6. SameLists(S, B) /\ SameLocks(S, B) /\ SameStock(S, B) /\ SameRest(S, B)
      BY <1>6, <2>5 DEF SameLists, SameLocks, SameStock, SameRest
    <2>7. Served(S, B, t)
      <3>1. \A p \in Objects, u \in Threads : ShouldWait(S, p, u) => ShouldWait(B, p, u)
        BY <2>6 DEF ShouldWait, SameLocks, SameStock, SameRest
      <3>2. \A u \in Threads : B.held_mutexes[u] = S.held_mutexes[u]
                               /\ \A m \in Mutexes : B.holding_thread[m] = u <=> S.holding_thread[m] = u
        BY <2>6 DEF SameLocks
      <3>3. B.wakeup_callback = S.wakeup_callback /\ B.timed = S.timed
            /\ B.granted = S.granted /\ B.granted[t] = {}
        BY <1>6, <2>4, <2>5
      <3>4. \A u \in Threads \ {t} : /\ u \in B.wakeup_event <=> u \in S.wakeup_event
                                     /\ B.result[u] = S.result[u]
        BY <1>6, <2>5
      <3> QED BY <2>5, <2>6, <3>1, <3>2, <3>3, <3>4 DEF Served
    <2>8. MutexInv(S, {}) /\ PrioInv(S) /\ InheritInv(S, {}) /\ CountInv(S)
      BY <1>5 DEF Good
    <2>9. B.priority = S.priority /\ B.current_priority = S.current_priority
      BY <1>6, <2>5
    <2>10. MutexInv(B, {})
      BY <2>6, <2>8 DEF MutexInv, SameLocks, SameRest
    <2>11. PrioInv(B)
      BY <2>6, <2>8, <2>9 DEF PrioInv, BestPriority, SameLocks, SameRest
    <2>12. InheritInv(B, {})
      BY <2>6, <2>8, <2>9 DEF InheritInv, Lends, Plain, SameLists, SameLocks, SameRest
    <2>13. CountInv(B)
      BY <2>6, <2>8 DEF CountInv, SameStock
    <2>14. Good(T, {}, {}, {})
      <3>1. B \in KState /\ t \notin {} /\ {} \subseteq Elements(S.wait_objects[t])
        BY <2>5
      <3> QED BY <1>5, <1>8, <2>2, <2>3, <2>7, <2>10, <2>11, <2>12, <2>13, <3>1, WokenKeeps
    <2> QED BY <1>2, <2>14 DEF IInv
  <1>9. CASE S.status[t] \notin Waiting
    <2>1. T = ResumeFromWait(U, t)
      BY <1>4, <1>9
    <2>2. U.wait_objects[t] = << >> /\ U.status = S.status
      <3>1. FitsInv(S, {})
        BY <1>5 DEF Good
      <3>2. S.wait_objects[t] = << >>
        BY <1>9, <3>1 DEF FitsInv
      <3> QED BY <1>6, <3>2 DEF SameLists, SameRest
    <2>3. S.status[t] \in Awake /\ t \notin S.wakeup_callback
      BY <1>5, <1>7, <1>9 DEF Awake, AnswerOf, Statuses
    <2>4. CASE S.status[t] = "Ready"
      <3>1. T = U
        BY <1>6, <2>1, <2>2, <2>3, <2>4 DEF ResumeFromWait, Claim
      <3>2. OnlyAnswers(S, U, t)
        BY <1>6 DEF OnlyAnswers, SameRest
      <3>3. AnswerOf(U, t)
        BY <1>5, <1>6, <2>2, <2>4 DEF AnswerOf, Waiting, SameLocks
      <3>4. U \in KState /\ U.status[t] \in Awake
        BY <1>6, <2>2, <2>3
      <3>5. Good(U, {}, {}, {})
        BY <1>5, <2>3, <3>2, <3>3, <3>4, AwakeKeeps
      <3> QED BY <1>2, <3>1, <3>5 DEF IInv
    <2>5. CASE S.status[t] = "WaitSleep"
      <3>1. U.status[t] \in Waiting \cup {"WaitSleep"} /\ U \in KState
        BY <1>6, <2>2, <2>5
      <3>2. /\ T \in KState
            /\ SameLists(U, T) /\ SameLocks(U, T) /\ SameStock(U, T)
            /\ T.priority = U.priority /\ T.current_priority = U.current_priority
            /\ T.nominal_priority = U.nominal_priority /\ T.failed = U.failed
            /\ T.wakeup_callback = U.wakeup_callback \ {t}
            /\ T.wakeup_event = U.wakeup_event /\ T.timed = U.timed
            /\ T.result = U.result /\ T.granted = U.granted
            /\ T.status = [U.status EXCEPT ![t] = "Ready"]
        BY <2>1, <2>2, <3>1, ResumeStep
      <3>3. SameLists(S, T) /\ SameLocks(S, T) /\ SameStock(S, T)
        BY <1>6, <3>2 DEF SameLists, SameLocks, SameStock
      <3>4. T.wakeup_callback = S.wakeup_callback
        BY <1>6, <2>3, <3>2
      <3>5. S.status \in [Threads -> Statuses]
        BY <1>5 DEF KState
      <3>6. T.status[t] = "Ready" /\ \A u \in Threads \ {t} : T.status[u] = S.status[u]
        BY <2>2, <3>2, <3>5
      <3>7. OnlyAnswers(S, T, t)
        <4>1. /\ T.priority = S.priority /\ T.current_priority = S.current_priority
              /\ T.nominal_priority = S.nominal_priority /\ T.failed = S.failed
              /\ T.result = S.result /\ T.granted = S.granted /\ T.timed = S.timed
              /\ T.wakeup_event = S.wakeup_event \ {t}
          BY <1>6, <3>2 DEF SameRest
        <4> QED BY <3>3, <3>4, <3>6, <4>1 DEF OnlyAnswers
      <3>8. AnswerOf(T, t)
        <4>1. S.result[t] = "none" /\ S.granted[t] = {}
          BY <1>5, <2>5 DEF AnswerOf
        <4>2. T.result[t] = "none" /\ T.granted[t] = {}
          BY <1>6, <3>2, <4>1
        <4> QED BY <2>3, <3>4, <3>6, <4>2 DEF AnswerOf, Waiting
      <3>9. T \in KState /\ T.status[t] \in Awake
        BY <3>2, <3>6 DEF Awake
      <3>10. Good(T, {}, {}, {})
        BY <1>5, <2>3, <3>7, <3>8, <3>9, AwakeKeeps
      <3> QED BY <1>2, <3>10 DEF IInv
    <2> QED BY <1>7, <1>9, <2>4, <2>5 DEF Statuses
  <1> QED BY <1>8, <1>9

-----------------------------------------------------------------------------
(* svcSetThreadPriority. *)

SetPriority(S, t, p) == [S EXCEPT !.nominal_priority[t] = p, !.current_priority[t] = p]

(* What a new nominal priority changes. *)
LEMMA SetPriorityStep ==
    ASSUME NEW S \in KState, NEW t \in Threads, NEW p \in Prio, NEW T, T = SetPriority(S, t, p)
    PROVE  /\ T \in KState
           /\ SameLists(S, T) /\ SameLocks(S, T) /\ SameStock(S, T) /\ SameAnswers(S, T)
           /\ T.priority = S.priority /\ T.status = S.status /\ T.failed = S.failed
           /\ \A u \in Threads \ {t} : /\ T.nominal_priority[u] = S.nominal_priority[u]
                                       /\ T.current_priority[u] = S.current_priority[u]
  <1>1. PICK n, c : /\ n = [S.nominal_priority EXCEPT ![t] = p]
                    /\ c = [S.current_priority EXCEPT ![t] = p]
    OBVIOUS
  <1>2. S.nominal_priority \in [Threads -> Prio] /\ S.current_priority \in [Threads -> Prio]
    BY DEF KState
  <1>3. n \in [Threads -> Prio] /\ c \in [Threads -> Prio]
    BY <1>1, <1>2
  <1>4. T = [S EXCEPT !.nominal_priority = n, !.current_priority = c]
    BY <1>1 DEF SetPriority
  <1>5. /\ T \in KState
        /\ SameLists(S, T) /\ SameLocks(S, T) /\ SameStock(S, T) /\ SameAnswers(S, T)
        /\ T.priority = S.priority /\ T.status = S.status /\ T.failed = S.failed
        /\ T.nominal_priority = n /\ T.current_priority = c
    BY <1>3, <1>4, ZenonT(60) DEF KState, SameLists, SameLocks, SameStock, SameAnswers
  <1> QED BY <1>1, <1>2, <1>5

(* The loop of UpdatePending. *)
PendingSteps(f, S, q) ==
    f = [i \in 0 .. Len(q) |-> IF i = 0 THEN S ELSE MutexUpdatePriority(f[i - 1], q[i])]

(* UpdatePending as a sequence of updates. *)
LEMMA PendingLoop ==
    ASSUME NEW S \in KState, NEW t \in Threads, NEW q \in Seq(Mutexes),
           q = Kept(MutexOrder, S.pending_mutexes[t])
    PROVE  \E f : /\ f[0] = S
                  /\ \A i \in 1 .. Len(q) : f[i] = MutexUpdatePriority(f[i - 1], q[i])
                  /\ \A i \in 0 .. Len(q) : f[i] \in KState
                  /\ UpdatePending(S, t) = f[Len(q)]
  <1> DEFINE N == Len(q)
             g == [i \in 1 .. N |-> [x \in KState |-> MutexUpdatePriority(x, q[i])]]
  <1>1. N \in Nat /\ \A i \in 1 .. N : q[i] \in Mutexes
    OBVIOUS
  <1>2. \A i \in 1 .. N : \A x \in KState : g[i][x] = MutexUpdatePriority(x, q[i])
    BY Zenon
  <1>3. \A i \in 1 .. N : \A x \in KState : g[i][x] \in KState
    BY <1>1, <1>2, MutexUpdateFrame
  <1> HIDE DEF g, N
  <1>4. PICK h : LoopOf(h, g, N, S, KState)
    BY <1>1, <1>3, LoopExists
  <1>5. PendingSteps(h, S, q)
    <2>1. ASSUME NEW i \in 1 .. N PROVE g[i][h[i - 1]] = MutexUpdatePriority(h[i - 1], q[i])
      <3>1. h[i - 1] \in KState
        BY <1>1, <1>4 DEF LoopOf
      <3> QED BY <1>2, <3>1
    <2>2. \A i \in 0 .. N : i # 0 => i \in 1 .. N
      BY <1>1
    <2>3. h = [i \in 0 .. N |-> IF i = 0 THEN S ELSE MutexUpdatePriority(h[i - 1], q[i])]
      BY <1>4, <2>1, <2>2 DEF LoopOf
    <2> QED BY <2>3 DEF PendingSteps, N
  <1>6. PICK f : PendingSteps(f, S, q) /\ UpdatePending(S, t) = f[N]
    BY <1>5, Zenon DEF PendingSteps, UpdatePending, N
  <1>7. \A i \in 0 .. N : f[i] = IF i = 0 THEN S ELSE MutexUpdatePriority(f[i - 1], q[i])
    BY <1>6, Zenon DEF PendingSteps, N
  <1>8. f[0] = S /\ \A i \in 1 .. N : f[i] = MutexUpdatePriority(f[i - 1], q[i])
    BY <1>1, <1>7
  <1>9. \A i \in 0 .. N : f[i] \in KState
    <2>1. \A i \in 1 .. N : f[i - 1] \in KState => f[i] \in KState
      BY <1>1, <1>8, MutexUpdateFrame
    <2> QED BY <1>1, <1>8, <2>1, LoopTyped
  <1> QED BY <1>6, <1>8, <1>9 DEF N

(* Two steps that touch priorities only. *)
LEMMA CalmTwice ==
    ASSUME NEW S, NEW T, NEW U, Calm(S, T), Calm(T, U)
    PROVE  Calm(S, U)
  BY DEF Calm, SameLists, SameLocks, SameStock, SameAnswers, SameRest

(* The mutexes that t waits for get their priorities right, one by one. *)
LEMMA UpdatePendingKeeps ==
    ASSUME NEW S \in KState, NEW t \in Threads, NEW T, T = UpdatePending(S, t),
           MutexInv(S, {}), PrioInv(S), InheritInv(S, S.pending_mutexes[t])
    PROVE  T \in KState /\ Calm(S, T) /\ PrioInv(T) /\ InheritInv(T, {})
  <1>1. PICK P : P = S.pending_mutexes[t]
    OBVIOUS
  <1>2. PICK q : q = Kept(MutexOrder, P)
    OBVIOUS
  <1>3. P \in SUBSET Mutexes
    BY <1>1 DEF KState
  <1>4. q \in Seq(Mutexes) /\ Elements(q) = P
    BY <1>2, <1>3, MutexesInOrder DEF Holds
  <1> DEFINE N == Len(q)
  <1>5. N \in Nat
    BY <1>4
  <1>6. PICK f : /\ f[0] = S
                 /\ \A i \in 1 .. N : f[i] = MutexUpdatePriority(f[i - 1], q[i])
                 /\ \A i \in 0 .. N : f[i] \in KState
                 /\ UpdatePending(S, t) = f[N]
    BY <1>1, <1>2, <1>4, PendingLoop
  <1> DEFINE Done(x, n) == Calm(S, x) /\ PrioInv(x) /\ InheritInv(x, P \ First(q, n))
             I == {n \in 0 .. N : Done(f[n], n)}
  <1>7. 0 \in I
    <2>1. P \ First(q, 0) = P
      BY DEF First
    <2>2. Calm(S, S)
      BY DEF Calm, SameLists, SameLocks, SameStock, SameAnswers, SameRest
    <2>3. Done(S, 0)
      BY <1>1, <2>1, <2>2
    <2> QED BY <1>5, <1>6, <2>3
  <1>8. ASSUME NEW n \in 0 .. N - 1, n \in I PROVE n + 1 \in I
    <2>1. n + 1 \in 1 .. N /\ n + 1 \in 0 .. N /\ (n + 1) - 1 = n /\ n \in 0 .. N
      BY <1>5
    <2>2. PICK x : x = f[n]
      OBVIOUS
    <2>3. PICK y : y = f[n + 1]
      OBVIOUS
    <2>4. PICK m : m = q[n + 1]
      OBVIOUS
    <2>5. y = MutexUpdatePriority(x, m)
      BY <1>6, <2>1, <2>2, <2>3, <2>4
    <2>6. Done(x, n)
      BY <1>8, <2>2
    <2>7. First(q, n + 1) = First(q, n) \cup {m} /\ m \in Mutexes
      BY <1>4, <2>4, FirstStep
    <2>8. x \in KState
      BY <1>6, <2>1, <2>2
    <2>9. PICK E : E = P \ First(q, n)
      OBVIOUS
    <2>10. Calm(S, x) /\ PrioInv(x) /\ InheritInv(x, E)
      BY <2>6, <2>9
    <2>11. MutexInv(x, {})
      BY <2>10 DEF MutexInv, Calm, SameLocks, SameRest
    <2> HIDE DEF Done, I
    <2>12. Calm(x, y)
      BY <2>5, <2>7, <2>8, MutexUpdateFrame
    <2>13. PrioInv(y) /\ InheritInv(y, E \ {m})
      BY <2>5, <2>7, <2>8, <2>10, <2>11, MutexUpdateKeeps
    <2>14. E \ {m} = P \ First(q, n + 1)
      BY <2>7, <2>9
    <2>15. Done(y, n + 1)
      BY <2>10, <2>12, <2>13, <2>14, CalmTwice DEF Done
    <2> QED BY <2>1, <2>3, <2>15 DEF I
  <1>9. \A n \in 0 .. N : n \in I
    <2> HIDE DEF I
    <2> QED BY <1>5, <1>7, <1>8, LoopInduction
  <1>10. N \in 0 .. N
    BY <1>5
  <1>11. Done(f[N], N) /\ f[N] \in KState /\ T = f[N]
    BY <1>6, <1>9, <1>10
  <1>12. P \ First(q, N) = {}
    BY <1>4 DEF First, Elements
  <1> QED BY <1>11, <1>12

(* svcSetThreadPriority. *)
LEMMA SetThreadPriorityKeeps ==
    ASSUME IInv, NEW t \in Threads, NEW target \in Threads, NEW p \in Priorities,
           SetThreadPriority(t, target, p)
    PROVE  IInv'
  <1>1. PICK S, T : S = kernel /\ T = kernel'
    OBVIOUS
  <1>2. /\ S \in KState /\ S.failed = {} /\ ListInv(S) /\ FitsInv(S, {}) /\ MutexInv(S, {}) /\ PrioInv(S)
        /\ CountInv(S) /\ AnswerInv(S) /\ AvailInv(S, {}) /\ InheritInv(S, {})
    BY <1>1 DEF IInv, Good
  <1>3. PICK A : A = SetPriority(S, target, p)
    OBVIOUS
  <1>4. PICK B : B = UpdatePriority(A, target)
    OBVIOUS
  <1>5. T = UpdatePending(B, target)
    BY <1>1, <1>3, <1>4 DEF SetThreadPriority, SetPriority
  <1>6. p \in Prio
    BY PriorityAssumption DEF Prio
  <1>7. /\ A \in KState
        /\ SameLists(S, A) /\ SameLocks(S, A) /\ SameStock(S, A) /\ SameAnswers(S, A)
        /\ A.priority = S.priority /\ A.status = S.status /\ A.failed = S.failed
        /\ \A u \in Threads \ {target} : /\ A.nominal_priority[u] = S.nominal_priority[u]
                                         /\ A.current_priority[u] = S.current_priority[u]
    BY <1>2, <1>3, <1>6, SetPriorityStep
  <1>8. /\ B \in KState
        /\ B.current_priority = [A.current_priority EXCEPT ![target] = BestPriority(A, target)]
        /\ B.priority = A.priority
        /\ SameLists(A, B) /\ SameLocks(A, B) /\ SameStock(A, B)
        /\ SameAnswers(A, B) /\ SameRest(A, B)
    BY <1>4, <1>7, UpdatePriorityStep
  <1>9. /\ SameLists(S, B) /\ SameLocks(S, B) /\ SameStock(S, B) /\ SameAnswers(S, B)
        /\ B.priority = S.priority /\ B.status = S.status /\ B.failed = S.failed
        /\ B.nominal_priority = A.nominal_priority
    BY <1>7, <1>8 DEF SameLists, SameLocks, SameStock, SameAnswers, SameRest
  <1>10. A.current_priority \in [Threads -> Prio]
    BY <1>7 DEF KState
  <1>11. /\ B.current_priority[target] = BestPriority(A, target)
         /\ \A u \in Threads \ {target} : /\ B.current_priority[u] = S.current_priority[u]
                                          /\ B.nominal_priority[u] = S.nominal_priority[u]
    BY <1>7, <1>8, <1>9, <1>10
  <1>12. PrioInv(B)
    <2> SUFFICES ASSUME NEW u \in Threads, B.status[u] # "Dead"
                 PROVE  B.current_priority[u] = BestPriority(B, u)
      BY DEF PrioInv
    <2>1. CASE u = target
      <3>1. SameBest(A, B, u)
        BY <1>8 DEF SameBest, SameLocks, SameRest
      <3> QED BY <1>11, <2>1, <3>1, BestPrioritySame
    <2>2. CASE u # target
      <3>1. SameBest(S, B, u)
        BY <1>9, <1>11, <2>2 DEF SameBest, SameLocks
      <3>2. BestPriority(B, u) = BestPriority(S, u)
        BY <3>1, BestPrioritySame
      <3>3. S.current_priority[u] = BestPriority(S, u)
        BY <1>2, <1>9 DEF PrioInv
      <3> QED BY <1>11, <2>2, <3>2, <3>3
    <2> QED BY <2>1, <2>2
  <1>13. MutexInv(B, {})
    BY <1>2, <1>9 DEF MutexInv, SameLocks
  <1>14. InheritInv(B, B.pending_mutexes[target])
    <2>1. /\ B.pending_mutexes = S.pending_mutexes /\ B.waiting_threads = S.waiting_threads
          /\ B.holding_thread = S.holding_thread /\ B.held_mutexes = S.held_mutexes
      BY <1>9 DEF SameLists, SameLocks
    <2>2. ASSUME NEW m \in Mutexes \ B.pending_mutexes[target],
                 NEW w \in Elements(B.waiting_threads[m]), Plain(B, w)
          PROVE  Plain(S, w) /\ B.current_priority[w] = S.current_priority[w]
      <3>1. m \in Objects
        BY DEF Objects
      <3>2. Holds(S.waiting_threads[m], Threads, Waiters(S, m))
        BY <1>2, <3>1 DEF ListInv
      <3>3. w \in Threads /\ m \in Elements(S.wait_objects[w])
        BY <2>1, <3>2 DEF Holds, Waiters
      <3>4. m \in S.pending_mutexes[w]
        BY <1>2, <3>3 DEF ListInv
      <3>5. w # target
        BY <2>1, <3>4
      <3> QED BY <1>9, <1>11, <2>1, <2>2, <3>3, <3>5 DEF Plain
    <2>3. \A m \in Mutexes \ B.pending_mutexes[target] :
              B.holding_thread[m] # None => Unmoved(S, B, m)
      BY <1>9, <2>1, <2>2 DEF Unmoved
    <2> QED BY <1>2, <2>3, InheritKept
  <1>15. T \in KState /\ Calm(B, T) /\ PrioInv(T) /\ InheritInv(T, {})
    BY <1>5, <1>8, <1>12, <1>13, <1>14, UpdatePendingKeeps
  <1>16. /\ SameLists(S, T) /\ SameLocks(S, T) /\ SameStock(S, T) /\ SameAnswers(S, T)
         /\ T.status = S.status /\ T.failed = S.failed
    BY <1>9, <1>15 DEF Calm, SameLists, SameLocks, SameStock, SameAnswers, SameRest
  <1>17. ListInv(T)
    BY <1>2, <1>16, ListInvSame
  <1>18. FitsInv(T, {}) /\ MutexInv(T, {}) /\ CountInv(T)
    BY <1>2, <1>16 DEF FitsInv, MutexInv, CountInv, SameLists, SameLocks, SameStock
  <1>19. AnswerInv(T)
    BY <1>2, <1>16 DEF AnswerInv, SameLocks, SameAnswers
  <1>20. AvailInv(T, {})
    <2>1. \A x, u : ShouldWait(S, x, u) => ShouldWait(T, x, u)
      BY <1>16 DEF ShouldWait, SameLocks, SameStock
    <2>2. T.wait_objects = S.wait_objects
      BY <1>16 DEF SameLists
    <2> QED BY <1>2, <1>16, <2>1, <2>2 DEF AvailInv
  <1>21. Good(T, {}, {}, {})
    BY <1>2, <1>15, <1>16, <1>17, <1>18, <1>19, <1>20 DEF Good
  <1> QED BY <1>1, <1>21 DEF IInv

-----------------------------------------------------------------------------
(* The waits: a call that finds what it wants. *)

(* Between two steps nobody waits for a free mutex alone. *)
LEMMA NobodyRivals ==
    ASSUME NEW S, Good(S, {}, {}, {}), NEW o \in Objects, NEW t \in Threads
    PROVE  NoRival(S, o, t, {})
  <1>1. S \in KState /\ ListInv(S) /\ AvailInv(S, {})
    BY DEF Good
  <1> SUFFICES ASSUME o \in Mutexes, S.lock_count[o] = 0,
                      NEW w \in Elements(S.waiting_threads[o]), S.status[w] = "WaitSynchAny"
               PROVE  FALSE
    BY DEF NoRival
  <1>2. Holds(S.waiting_threads[o], Threads, Waiters(S, o))
    BY <1>1 DEF ListInv
  <1>3. w \in Threads /\ o \in Elements(S.wait_objects[w])
    BY <1>2 DEF Holds, Waiters
  <1>4. ShouldWait(S, o, w)
    BY <1>1, <1>3 DEF AvailInv
  <1> QED BY <1>4, KindAssumption DEF ShouldWait

(* A running thread that has acquired objects keeps the invariant. *)
LEMMA AcquiredKeeps ==
    ASSUME NEW S, Good(S, {}, {}, {}), NEW t \in Threads, S.status[t] = "Running", NEW O,
           NEW T \in KState, Acquiring(S, T, t, O),
           MutexInv(T, {}), PrioInv(T), InheritInv(T, {}), CountInv(T)
    PROVE  Good(T, {}, {}, {})
  <1>1. /\ S \in KState /\ S.failed = {} /\ ListInv(S) /\ FitsInv(S, {})
        /\ AnswerInv(S) /\ AvailInv(S, {})
    BY DEF Good
  <1>2. /\ SameLists(S, T) /\ SameAnswers(S, T) /\ SameRest(S, T)
        /\ \A u \in Threads \ {t} : T.held_mutexes[u] = S.held_mutexes[u]
        /\ \A p \in Objects, u \in Threads : ShouldWait(S, p, u) => ShouldWait(T, p, u)
    BY DEF Acquiring
  <1>3. ListInv(T)
    BY <1>1, <1>2, ListInvSame
  <1>4. FitsInv(T, {}) /\ T.failed = {}
    BY <1>1, <1>2 DEF FitsInv, SameLists, SameRest
  <1>5. AnswerInv(T)
    <2>1. \A u \in Threads : T.status[u] = "Ready" => T.held_mutexes[u] = S.held_mutexes[u]
      BY <1>2 DEF SameRest
    <2> QED BY <1>1, <1>2, <2>1 DEF AnswerInv, SameAnswers, SameRest
  <1>6. AvailInv(T, {})
    <2>1. \A u \in Threads : Elements(S.wait_objects[u]) \subseteq Objects
      <3>1. \A u \in Threads : S.wait_objects[u] \in Seq(Objects)
        BY <1>1 DEF KState
      <3> QED BY <3>1 DEF Elements
    <2>2. T.status = S.status /\ T.wait_objects = S.wait_objects
      BY <1>2 DEF SameLists, SameRest
    <2> SUFFICES ASSUME NEW u \in Threads
                 PROVE  /\ S.status[u] = "WaitSynchAny" =>
                              \A p \in Elements(S.wait_objects[u]) : ShouldWait(T, p, u)
                        /\ S.status[u] = "WaitSynchAll" =>
                              \E p \in Elements(S.wait_objects[u]) : ShouldWait(T, p, u)
      BY <2>2 DEF AvailInv
    <2>3. /\ S.status[u] = "WaitSynchAny" =>
                \A p \in Elements(S.wait_objects[u]) : ShouldWait(S, p, u)
          /\ S.status[u] = "WaitSynchAll" =>
                \E p \in Elements(S.wait_objects[u]) : ShouldWait(S, p, u)
      BY <1>1 DEF AvailInv
    <2> QED BY <1>2, <2>1, <2>3
  <1> QED BY <1>3, <1>4, <1>5, <1>6 DEF Good

(* One object is taken at once. *)
LEMMA TakesOne ==
    ASSUME NEW S, Good(S, {}, {}, {}), NEW t \in Threads, S.status[t] = "Running",
           NEW o \in Objects, ~ShouldWait(S, o, t), NEW T, T = Acquire(S, o, t)
    PROVE  Good(T, {}, {}, {})
  <1>1. S \in KState /\ MutexInv(S, {}) /\ PrioInv(S) /\ InheritInv(S, {}) /\ CountInv(S)
    BY DEF Good
  <1>2. NoRival(S, o, t, {})
    BY NobodyRivals
  <1>3. PICK N : N = {}
    OBVIOUS
  <1>4. /\ S \in KState /\ S.status[t] # "Dead" /\ \A u \in N : S.status[u] = "Dead"
        /\ MutexInv(S, N) /\ InheritInv(S, N) /\ NoRival(S, o, t, N)
    BY <1>1, <1>2, <1>3
  <1>5. /\ T \in KState
        /\ Acquiring(S, T, t, {o})
        /\ MutexInv(T, N) /\ PrioInv(T) /\ InheritInv(T, N) /\ CountInv(T)
    BY <1>1, <1>4, AcquireKeeps
  <1>6. T \in KState /\ MutexInv(T, {}) /\ InheritInv(T, {})
    BY <1>3, <1>5
  <1> QED BY <1>5, <1>6, AcquiredKeeps

(* Several objects are taken at once. *)
LEMMA TakesAll ==
    ASSUME NEW S, Good(S, {}, {}, {}), NEW t \in Threads, S.status[t] = "Running",
           NEW q \in Seq(Objects), \A i, j \in 1 .. Len(q) : q[i] = q[j] => i = j,
           \A o \in Elements(q) : ~ShouldWait(S, o, t), NEW T, T = AcquireAll(S, q, t)
    PROVE  Good(T, {}, {}, {})
  <1>1. S \in KState /\ MutexInv(S, {}) /\ PrioInv(S) /\ InheritInv(S, {}) /\ CountInv(S)
    BY DEF Good
  <1>2. Elements(q) \subseteq Objects
    BY DEF Elements
  <1>3. \A o \in Elements(q) : NoRival(S, o, t, {})
    BY <1>2, NobodyRivals
  <1>4. S \in KState /\ S.status[t] # "Dead" /\ \A u \in {} : S.status[u] = "Dead"
    BY <1>1
  <1>5. /\ T \in KState
        /\ Acquiring(S, T, t, Elements(q))
        /\ MutexInv(T, {}) /\ PrioInv(T) /\ InheritInv(T, {}) /\ CountInv(T)
    BY <1>1, <1>3, <1>4, AcquireAllKeeps
  <1>6. T \in KState
    BY <1>5
  <1> QED BY <1>5, <1>6, AcquiredKeeps

-----------------------------------------------------------------------------
(* The waits: a call that has to wait. *)

(* T comes from S when t joins the lists of the objects of q and suspends. *)
Blocked(S, T, t, q, status) ==
    /\ SameLocks(S, T) /\ SameStock(S, T)
    /\ T.nominal_priority = S.nominal_priority /\ T.failed = S.failed
    /\ T.result = S.result /\ T.granted = S.granted
    /\ T.wait_objects[t] = q /\ T.status[t] = status
    /\ T.pending_mutexes[t] = Elements(q) \cap Mutexes
    /\ \A p \in Objects : T.waiting_threads[p] = IF p \in Elements(q) THEN Append(S.waiting_threads[p], t)
                                                 ELSE S.waiting_threads[p]
    /\ \A u \in Threads \ {t} :
          /\ T.wait_objects[u] = S.wait_objects[u] /\ T.status[u] = S.status[u]
          /\ T.pending_mutexes[u] = S.pending_mutexes[u]
          /\ u \in T.wakeup_callback <=> u \in S.wakeup_callback
          /\ u \in T.wakeup_event <=> u \in S.wakeup_event
          /\ u \in T.timed <=> u \in S.timed
    /\ t \in T.wakeup_callback
    /\ t \in T.wakeup_event => t \in T.timed \/ t \in S.wakeup_event

(* Nothing that t may have is among what it waits for. *)
MustWait(S, t, q, status) ==
    /\ status = "WaitSynchAny" => \A o \in Elements(q) : ShouldWait(S, o, t)
    /\ status = "WaitSynchAll" => \E o \in Elements(q) : ShouldWait(S, o, t)

(* A running thread that suspends keeps the invariant. *)
LEMMA BlockedKeeps ==
    ASSUME NEW S, Good(S, {}, {}, {}), NEW t \in Threads, S.status[t] = "Running",
           NEW q \in Seq(Objects), q # << >>, \A i, j \in 1 .. Len(q) : q[i] = q[j] => i = j,
           t \notin Elements(q), NEW status \in Waiting, MustWait(S, t, q, status),
           NEW T \in KState, Blocked(S, T, t, q, status), PrioInv(T), InheritInv(T, {})
    PROVE  Good(T, {}, {}, {})
  <1>1. /\ S \in KState /\ S.failed = {} /\ ListInv(S) /\ FitsInv(S, {}) /\ MutexInv(S, {})
        /\ CountInv(S) /\ AnswerInv(S) /\ AvailInv(S, {})
    BY DEF Good
  <1>2. /\ SameLocks(S, T) /\ SameStock(S, T) /\ T.failed = S.failed
        /\ T.wait_objects[t] = q /\ T.status[t] = status
        /\ \A u \in Threads \ {t} : T.wait_objects[u] = S.wait_objects[u] /\ T.status[u] = S.status[u]
    BY DEF Blocked
  <1>3. S.wait_objects[t] = << >>
    BY <1>1 DEF FitsInv, Waiting
  <1>4. ListInv(T)
    <2>1. ASSUME NEW p \in Objects PROVE Holds(T.waiting_threads[p], Threads, Waiters(T, p))
      <3>1. Holds(S.waiting_threads[p], Threads, Waiters(S, p))
        BY <1>1 DEF ListInv
      <3>2. t \notin Waiters(S, p)
        BY <1>3 DEF Waiters, Elements
      <3>3. CASE p \in Elements(q)
        <4>1. Waiters(T, p) = Waiters(S, p) \cup {t}
          BY <1>2, <3>3 DEF Waiters
        <4>2. T.waiting_threads[p] = Append(S.waiting_threads[p], t)
          BY <3>3 DEF Blocked
        <4>3. Holds(Append(S.waiting_threads[p], t), Threads, Waiters(S, p) \cup {t})
          BY <3>1, <3>2, AppendHolds
        <4> QED BY <4>1, <4>2, <4>3
      <3>4. CASE p \notin Elements(q)
        <4>1. Waiters(T, p) = Waiters(S, p)
          BY <1>2, <3>2, <3>4 DEF Waiters
        <4>2. T.waiting_threads[p] = S.waiting_threads[p]
          BY <3>4 DEF Blocked
        <4> QED BY <3>1, <4>1, <4>2
      <3> QED BY <3>3, <3>4
    <2>2. ASSUME NEW u \in Threads
          PROVE  /\ \A i, j \in 1 .. Len(T.wait_objects[u]) :
                       T.wait_objects[u][i] = T.wait_objects[u][j] => i = j
                 /\ u \notin Elements(T.wait_objects[u])
                 /\ T.pending_mutexes[u] = Elements(T.wait_objects[u]) \cap Mutexes
      <3>1. CASE u = t
        <4>1. T.wait_objects[u] = q /\ T.pending_mutexes[u] = Elements(q) \cap Mutexes
          BY <3>1 DEF Blocked
        <4> QED BY <3>1, <4>1
      <3>2. CASE u # t
        <4>1. T.wait_objects[u] = S.wait_objects[u] /\ T.pending_mutexes[u] = S.pending_mutexes[u]
          BY <3>2 DEF Blocked
        <4> QED BY <1>1, <4>1 DEF ListInv
      <3> QED BY <3>1, <3>2
    <2> QED BY <2>1, <2>2 DEF ListInv
  <1>5. FitsInv(T, {})
    BY <1>1, <1>2 DEF FitsInv
  <1>6. MutexInv(T, {})
    <2>1. \A u \in Threads : T.status[u] = "Dead" => S.status[u] = "Dead"
      BY <1>2 DEF Waiting
    <2> QED BY <1>1, <1>2, <2>1 DEF MutexInv, SameLocks
  <1>7. CountInv(T)
    BY <1>1, <1>2 DEF CountInv, SameStock
  <1>8. AnswerInv(T)
    <2>1. ASSUME NEW u \in Threads, u # t PROVE AnswerOf(T, u)
      <3>1. AnswerOf(S, u)
        BY <1>1, AnswersOf
      <3> QED BY <2>1, <3>1 DEF AnswerOf, Blocked, SameLocks
    <2>2. AnswerOf(T, t)
      <3>1. AnswerOf(S, t)
        BY <1>1, AnswersOf
      <3>2. S.result[t] = "none" /\ S.granted[t] = {} /\ t \notin S.wakeup_event
        BY <3>1 DEF AnswerOf
      <3>3. /\ T.result[t] = "none" /\ T.granted[t] = {} /\ t \in T.wakeup_callback
            /\ t \in T.wakeup_event => t \in T.timed
        BY <3>2 DEF Blocked
      <3>4. T.status[t] \notin {"Ready", "Running", "WaitSleep", "Dead"}
        BY <1>2 DEF Waiting
      <3> QED BY <3>3, <3>4 DEF AnswerOf
    <2> QED BY <2>1, <2>2, AnswersOf
  <1>9. AvailInv(T, {})
    <2>1. \A u \in Threads : S.status[u] # "Dead" => T.status[u] # "Dead"
      BY <1>2 DEF Waiting
    <2>2. \A p \in Objects, u \in Threads : ShouldWait(S, p, u) => ShouldWait(T, p, u)
      BY <1>2, <2>1 DEF ShouldWait, SameLocks, SameStock
    <2>3. \A u \in Threads : S.wait_objects[u] \in Seq(Objects)
      BY <1>1 DEF KState
    <2>4. Elements(q) \subseteq Objects /\ \A u \in Threads : Elements(S.wait_objects[u]) \subseteq Objects
      BY <2>3 DEF Elements
    <2>5. ASSUME NEW u \in Threads
          PROVE  /\ T.status[u] = "WaitSynchAny" =>
                       \A p \in Elements(T.wait_objects[u]) : ShouldWait(T, p, u)
                 /\ T.status[u] = "WaitSynchAll" =>
                       \E p \in Elements(T.wait_objects[u]) : ShouldWait(T, p, u)
      <3>1. CASE u = t
        <4>1. MustWait(S, t, q, status)
          OBVIOUS
        <4> QED BY <1>2, <2>2, <2>4, <3>1, <4>1 DEF MustWait
      <3>2. CASE u # t
        <4>1. /\ S.status[u] = "WaitSynchAny" =>
                    \A p \in Elements(S.wait_objects[u]) : ShouldWait(S, p, u)
              /\ S.status[u] = "WaitSynchAll" =>
                    \E p \in Elements(S.wait_objects[u]) : ShouldWait(S, p, u)
          BY <1>1 DEF AvailInv
        <4> QED BY <1>2, <2>2, <2>4, <3>2, <4>1
      <3> QED BY <3>1, <3>2
    <2> QED BY <2>5 DEF AvailInv
  <1> QED BY <1>1, <1>2, <1>4, <1>5, <1>6, <1>7, <1>8, <1>9 DEF Good

(* A new waiter lends its priority to the mutex, whatever its status, and   *)
(* the mutex has that of one of its waiters, its holder aside.              *)
LEMMA AddLends ==
    ASSUME NEW S \in KState, NEW m \in Mutexes, NEW t \in Threads,
           NEW T, T = AddWaitingThread(S, m, t), t \notin Elements(S.waiting_threads[m]),
           S.holding_thread[m] # None, S.holding_thread[m] # t
    PROVE  /\ T.priority[m] <= T.current_priority[t]
           /\ \E u \in Elements(T.waiting_threads[m]) :
                 u = S.holding_thread[m] \/ T.priority[m] = T.current_priority[u]
  <1>1. m \in Objects
    BY DEF Objects
  <1>2. PICK w, p : /\ w = [S.waiting_threads EXCEPT ![m] = Append(S.waiting_threads[m], t)]
                    /\ p = [S.pending_mutexes EXCEPT ![t] = @ \cup {m}]
    OBVIOUS
  <1>3. /\ S.waiting_threads \in [Objects -> Seq(Threads)]
        /\ S.pending_mutexes \in [Threads -> SUBSET Mutexes]
    BY DEF KState
  <1>4. w \in [Objects -> Seq(Threads)] /\ p \in [Threads -> SUBSET Mutexes]
    BY <1>1, <1>2, <1>3
  <1>5. PICK P : P = [S EXCEPT !.waiting_threads = w, !.pending_mutexes = p]
    OBVIOUS
  <1>6. P \in KState /\ P.holding_thread = S.holding_thread /\ P.waiting_threads = w
    BY <1>4, <1>5 DEF KState
  <1>7. T = MutexUpdatePriority(P, m)
    BY <1>2, <1>5 DEF AddWaitingThread
  <1>8. t \in Elements(P.waiting_threads[m])
    <2>1. P.waiting_threads[m] = Append(S.waiting_threads[m], t) /\ S.waiting_threads[m] \in Seq(Threads)
      BY <1>1, <1>2, <1>3, <1>6
    <2> QED BY <2>1 DEF Elements
  <1>9. BestWaiter(P, m) \in Prio /\ BestWaiter(P, m) <= P.current_priority[t]
    BY <1>6, <1>8, BestWaiterLeast
  <1>12. PICK v \in Elements(P.waiting_threads[m]) : BestWaiter(P, m) = P.current_priority[v]
    BY <1>6, <1>8, BestWaiterLeast
  <1>13. v \in Threads
    <2>1. P.waiting_threads[m] \in Seq(Threads)
      BY <1>1, <1>4, <1>6
    <2> QED BY <2>1 DEF Elements
  <1>10. CASE P.priority[m] = BestWaiter(P, m)
    <2>1. T = P
      BY <1>7, <1>10 DEF MutexUpdatePriority
    <2> QED BY <1>9, <1>10, <1>12, <2>1
  <1>11. CASE P.priority[m] # BestWaiter(P, m)
    <2>1. P.holding_thread[m] # None
      BY <1>6
    <2>2. /\ T.waiting_threads = P.waiting_threads
          /\ T.priority = [P.priority EXCEPT ![m] = BestWaiter(P, m)]
          /\ \A u \in Threads : T.current_priority[u] = IF u = P.holding_thread[m] THEN BestPriority(T, u)
                                                        ELSE P.current_priority[u]
      BY <1>6, <1>7, <1>11, <2>1, MutexUpdateStep DEF Calm, SameLists
    <2>3. P.priority \in [Mutexes -> Prio]
      BY <1>6 DEF KState
    <2>4. T.priority[m] = BestWaiter(P, m)
      BY <2>2, <2>3
    <2>5. T.current_priority[t] = P.current_priority[t]
      BY <1>6, <2>2
    <2>6. v = S.holding_thread[m] \/ T.priority[m] = T.current_priority[v]
      BY <1>6, <1>12, <1>13, <2>2, <2>4
    <2> QED BY <1>9, <1>12, <2>2, <2>4, <2>5, <2>6
  <1> QED BY <1>10, <1>11

(* The loop of AddToAll. *)
AddSteps(f, S, q, t) ==
    f = [i \in 0 .. Len(q) |-> IF i = 0 THEN S ELSE AddWaitingThread(f[i - 1], q[i], t)]

(* AddToAll as a sequence of additions. *)
LEMMA AddLoop ==
    ASSUME NEW S \in KState, NEW q \in Seq(Objects), NEW t \in Threads
    PROVE  \E f : /\ f[0] = S
                  /\ \A i \in 1 .. Len(q) : f[i] = AddWaitingThread(f[i - 1], q[i], t)
                  /\ \A i \in 0 .. Len(q) : f[i] \in KState
                  /\ AddToAll(S, q, t) = f[Len(q)]
  <1> DEFINE N == Len(q)
             g == [i \in 1 .. N |-> [x \in KState |-> AddWaitingThread(x, q[i], t)]]
  <1>1. N \in Nat /\ \A i \in 1 .. N : q[i] \in Objects
    OBVIOUS
  <1>2. \A i \in 1 .. N : \A x \in KState : g[i][x] = AddWaitingThread(x, q[i], t)
    BY Zenon
  <1>3. \A i \in 1 .. N : \A x \in KState : g[i][x] \in KState
    BY <1>1, <1>2, AddType
  <1> HIDE DEF g, N
  <1>4. PICK h : LoopOf(h, g, N, S, KState)
    BY <1>1, <1>3, LoopExists
  <1>5. AddSteps(h, S, q, t)
    <2>1. ASSUME NEW i \in 1 .. N PROVE g[i][h[i - 1]] = AddWaitingThread(h[i - 1], q[i], t)
      <3>1. h[i - 1] \in KState
        BY <1>1, <1>4 DEF LoopOf
      <3> QED BY <1>2, <3>1
    <2>2. \A i \in 0 .. N : i # 0 => i \in 1 .. N
      BY <1>1
    <2>3. h = [i \in 0 .. N |-> IF i = 0 THEN S ELSE AddWaitingThread(h[i - 1], q[i], t)]
      BY <1>4, <2>1, <2>2 DEF LoopOf
    <2> QED BY <2>3 DEF AddSteps, N
  <1>6. PICK f : AddSteps(f, S, q, t) /\ AddToAll(S, q, t) = f[N]
    BY <1>5, Zenon DEF AddSteps, AddToAll, N
  <1>7. \A i \in 0 .. N : f[i] = IF i = 0 THEN S ELSE AddWaitingThread(f[i - 1], q[i], t)
    BY <1>6, Zenon DEF AddSteps, N
  <1>8. f[0] = S /\ \A i \in 1 .. N : f[i] = AddWaitingThread(f[i - 1], q[i], t)
    BY <1>1, <1>7
  <1>9. \A i \in 0 .. N : f[i] \in KState
    <2>1. \A i \in 1 .. N : f[i - 1] \in KState => f[i] \in KState
      BY <1>1, <1>8, AddType
    <2> QED BY <1>1, <1>8, <2>1, LoopTyped
  <1> QED BY <1>6, <1>8, <1>9 DEF N

(* T comes from S when t joins the lists of the objects in O. *)
Joined(S, T, t, O) ==
    /\ Listing(S, T)
    /\ \A p \in Objects : T.waiting_threads[p] = IF p \in O THEN Append(S.waiting_threads[p], t)
                                                 ELSE S.waiting_threads[p]
    /\ \A u \in Threads :
          T.pending_mutexes[u] = S.pending_mutexes[u] \cup (IF u = t THEN O \cap Mutexes ELSE {})
    /\ PrioInv(T)
    /\ InheritInv(T, {})

(* A thread joins the list of one more object. *)
LEMMA JoinStep ==
    ASSUME NEW S \in KState, NEW t \in Threads, MutexInv(S, {}),
           \A p \in Objects : t \notin Elements(S.waiting_threads[p]),
           NEW x \in KState, NEW O, Joined(S, x, t, O), NEW o \in Objects, o \notin O,
           NEW y, y = AddWaitingThread(x, o, t)
    PROVE  Joined(S, y, t, O \cup {o})
  <1>1. /\ Listing(S, x) /\ PrioInv(x) /\ InheritInv(x, {})
        /\ x.waiting_threads[o] = S.waiting_threads[o]
    BY DEF Joined
  <1>2. MutexInv(x, {}) /\ t \notin Elements(x.waiting_threads[o])
    BY <1>1 DEF MutexInv, Listing, SameLocks, SameRest
  <1>3. PICK N : N = {}
    OBVIOUS
  <1>4. MutexInv(x, N) /\ \A u \in N : x.status[u] = "Dead"
    BY <1>2, <1>3
  <1>5. /\ y \in KState
        /\ Listing(x, y)
        /\ y.waiting_threads = [x.waiting_threads EXCEPT ![o] = Append(x.waiting_threads[o], t)]
        /\ \A u \in Threads :
              y.pending_mutexes[u] =
                  x.pending_mutexes[u] \cup (IF u = t THEN {o} \cap Mutexes ELSE {})
        /\ PrioInv(y)
        /\ InheritInv(y, {})
    BY <1>1, <1>2, <1>4, AddStep
  <1>6. Listing(S, y)
    BY <1>1, <1>5 DEF Listing, SameLocks, SameStock, SameAnswers, SameRest
  <1>7. x.waiting_threads \in [Objects -> Seq(Threads)]
    BY DEF KState
  <1>8. ASSUME NEW p \in Objects
        PROVE  y.waiting_threads[p] = IF p \in O \cup {o} THEN Append(S.waiting_threads[p], t)
                                      ELSE S.waiting_threads[p]
    <2>1. x.waiting_threads[p] = IF p \in O THEN Append(S.waiting_threads[p], t)
                                 ELSE S.waiting_threads[p]
      BY DEF Joined
    <2>2. y.waiting_threads[p] = IF p = o THEN Append(x.waiting_threads[o], t) ELSE x.waiting_threads[p]
      BY <1>5, <1>7
    <2> QED BY <1>1, <2>1, <2>2
  <1>9. ASSUME NEW u \in Threads
        PROVE  y.pending_mutexes[u] =
                   S.pending_mutexes[u] \cup (IF u = t THEN (O \cup {o}) \cap Mutexes ELSE {})
    <2>1. x.pending_mutexes[u] = S.pending_mutexes[u] \cup (IF u = t THEN O \cap Mutexes ELSE {})
      BY DEF Joined
    <2> QED BY <1>5, <2>1
  <1> QED BY <1>5, <1>6, <1>8, <1>9 DEF Joined

(* A thread in no list joins the lists of the objects of q. *)
LEMMA JoinsAll ==
    ASSUME NEW S \in KState, NEW t \in Threads, MutexInv(S, {}), PrioInv(S), InheritInv(S, {}),
           \A p \in Objects : t \notin Elements(S.waiting_threads[p]),
           NEW q \in Seq(Objects), \A i, j \in 1 .. Len(q) : q[i] = q[j] => i = j,
           NEW T, T = AddToAll(S, q, t)
    PROVE  T \in KState /\ Joined(S, T, t, Elements(q))
  <1> DEFINE N == Len(q)
  <1>1. N \in Nat
    OBVIOUS
  <1>2. PICK f : /\ f[0] = S
                 /\ \A i \in 1 .. N : f[i] = AddWaitingThread(f[i - 1], q[i], t)
                 /\ \A i \in 0 .. N : f[i] \in KState
                 /\ AddToAll(S, q, t) = f[N]
    BY AddLoop
  <1> DEFINE I == {n \in 0 .. N : Joined(S, f[n], t, First(q, n))}
  <1>3. 0 \in I
    <2>1. First(q, 0) = {}
      BY DEF First
    <2>2. Joined(S, S, t, {})
      BY DEF Joined, Listing, SameLocks, SameStock, SameAnswers, SameRest
    <2>3. Joined(S, f[0], t, First(q, 0))
      BY <1>2, <2>1, <2>2, Zenon
    <2>4. 0 \in 0 .. N
      BY <1>1
    <2> QED BY <2>3, <2>4
  <1>4. ASSUME NEW n \in 0 .. N - 1, n \in I PROVE n + 1 \in I
    <2>1. n + 1 \in 1 .. N /\ n + 1 \in 0 .. N /\ (n + 1) - 1 = n /\ n \in 0 .. N
      BY <1>1
    <2>2. PICK x : x = f[n]
      OBVIOUS
    <2>3. PICK y : y = f[n + 1]
      OBVIOUS
    <2>4. PICK o : o = q[n + 1]
      OBVIOUS
    <2>5. y = AddWaitingThread(x, o, t)
      BY <1>2, <2>1, <2>2, <2>3, <2>4
    <2>6. PICK O : O = First(q, n)
      OBVIOUS
    <2>7. Joined(S, x, t, O)
      BY <1>4, <2>2, <2>6
    <2>8. First(q, n + 1) = First(q, n) \cup {q[n + 1]} /\ q[n + 1] \in Objects /\ q[n + 1] \notin First(q, n)
      BY FirstStep
    <2>9. First(q, n + 1) = O \cup {o} /\ o \in Objects /\ o \notin O
      BY <2>4, <2>6, <2>8
    <2>10. x \in KState
      BY <1>2, <2>1, <2>2
    <2> HIDE DEF I
    <2>11. Joined(S, y, t, O \cup {o})
      BY <2>5, <2>7, <2>9, <2>10, JoinStep
    <2> QED BY <2>1, <2>3, <2>9, <2>11 DEF I
  <1>5. \A n \in 0 .. N : n \in I
    <2> HIDE DEF I
    <2> QED BY <1>1, <1>3, <1>4, LoopInduction
  <1>6. N \in 0 .. N
    BY <1>1
  <1>7. T = f[N] /\ f[N] \in KState /\ Joined(S, f[N], t, First(q, N))
    BY <1>2, <1>5, <1>6
  <1>8. First(q, N) = Elements(q)
    BY DEF First, Elements
  <1> QED BY <1>7, <1>8

SetStatus(S, t, status) == [S EXCEPT !.status[t] = status]

(* What a new status changes. *)
LEMMA SetStatusStep ==
    ASSUME NEW S \in KState, NEW t \in Threads, NEW status \in Statuses, NEW T, T = SetStatus(S, t, status)
    PROVE  /\ T \in KState
           /\ SameLists(S, T) /\ SameLocks(S, T) /\ SameStock(S, T) /\ SameAnswers(S, T)
           /\ T.priority = S.priority /\ T.current_priority = S.current_priority
           /\ T.nominal_priority = S.nominal_priority /\ T.failed = S.failed
           /\ T.status[t] = status /\ \A u \in Threads \ {t} : T.status[u] = S.status[u]
  <1>1. PICK s : s = [S.status EXCEPT ![t] = status]
    OBVIOUS
  <1>2. S.status \in [Threads -> Statuses]
    BY DEF KState
  <1>3. s \in [Threads -> Statuses]
    BY <1>1, <1>2
  <1>4. T = [S EXCEPT !.status = s]
    BY <1>1 DEF SetStatus
  <1>5. /\ T \in KState
        /\ SameLists(S, T) /\ SameLocks(S, T) /\ SameStock(S, T) /\ SameAnswers(S, T)
        /\ T.priority = S.priority /\ T.current_priority = S.current_priority
        /\ T.nominal_priority = S.nominal_priority /\ T.failed = S.failed
        /\ T.status = s
    BY <1>3, <1>4, ZenonT(60) DEF KState, SameLists, SameLocks, SameStock, SameAnswers
  <1> QED BY <1>1, <1>2, <1>5

SetWait(S, t, q) == [S EXCEPT !.wait_objects[t] = q]

(* What new wait_objects change. *)
LEMMA SetWaitStep ==
    ASSUME NEW S \in KState, NEW t \in Threads, NEW q \in Seq(Objects), NEW T, T = SetWait(S, t, q)
    PROVE  /\ T \in KState
           /\ SameLocks(S, T) /\ SameStock(S, T) /\ SameAnswers(S, T) /\ SameRest(S, T)
           /\ T.priority = S.priority /\ T.current_priority = S.current_priority
           /\ T.waiting_threads = S.waiting_threads /\ T.pending_mutexes = S.pending_mutexes
           /\ T.wait_objects[t] = q /\ \A u \in Threads \ {t} : T.wait_objects[u] = S.wait_objects[u]
  <1>1. PICK w : w = [S.wait_objects EXCEPT ![t] = q]
    OBVIOUS
  <1>2. S.wait_objects \in [Threads -> Seq(Objects)]
    BY DEF KState
  <1>3. w \in [Threads -> Seq(Objects)]
    BY <1>1, <1>2
  <1>4. T = [S EXCEPT !.wait_objects = w]
    BY <1>1 DEF SetWait
  <1>5. /\ T \in KState
        /\ SameLocks(S, T) /\ SameStock(S, T) /\ SameAnswers(S, T) /\ SameRest(S, T)
        /\ T.priority = S.priority /\ T.current_priority = S.current_priority
        /\ T.waiting_threads = S.waiting_threads /\ T.pending_mutexes = S.pending_mutexes
        /\ T.wait_objects = w
    BY <1>3, <1>4, ZenonT(60) DEF KState, SameLocks, SameStock, SameAnswers, SameRest
  <1> QED BY <1>1, <1>2, <1>5

(* What suspending a thread changes. *)
LEMMA SuspendStep ==
    ASSUME NEW S \in KState, NEW t \in Threads, NEW timed \in BOOLEAN, NEW T, T = Suspend(S, t, timed)
    PROVE  /\ T \in KState
           /\ SameLists(S, T) /\ SameLocks(S, T) /\ SameStock(S, T) /\ SameRest(S, T)
           /\ T.priority = S.priority /\ T.current_priority = S.current_priority
           /\ T.result = S.result /\ T.granted = S.granted
           /\ \A u \in Threads \ {t} : /\ u \in T.wakeup_callback <=> u \in S.wakeup_callback
                                       /\ u \in T.wakeup_event <=> u \in S.wakeup_event
                                       /\ u \in T.timed <=> u \in S.timed
           /\ t \in T.wakeup_callback
           /\ t \in T.wakeup_event => t \in T.timed \/ t \in S.wakeup_event
  <1>1. PICK c, d, e : /\ c = S.wakeup_callback \cup {t}
                       /\ d = IF timed THEN S.timed \cup {t} ELSE S.timed \ {t}
                       /\ e = IF timed THEN S.wakeup_event \cup {t} ELSE S.wakeup_event
    OBVIOUS
  <1>2. S.wakeup_callback \in SUBSET Threads /\ S.timed \in SUBSET Threads /\ S.wakeup_event \in SUBSET Threads
    BY DEF KState
  <1>3. c \in SUBSET Threads /\ d \in SUBSET Threads /\ e \in SUBSET Threads
    BY <1>1, <1>2
  <1>4. T = [S EXCEPT !.wakeup_callback = c, !.timed = d, !.wakeup_event = e]
    BY <1>1 DEF Suspend
  <1>5. /\ T \in KState
        /\ SameLists(S, T) /\ SameLocks(S, T) /\ SameStock(S, T) /\ SameRest(S, T)
        /\ T.priority = S.priority /\ T.current_priority = S.current_priority
        /\ T.result = S.result /\ T.granted = S.granted
        /\ T.wakeup_callback = c /\ T.timed = d /\ T.wakeup_event = e
    BY <1>3, <1>4, ZenonT(60) DEF KState, SameLists, SameLocks, SameStock, SameRest
  <1> QED BY <1>1, <1>5

(* PrioInv depends on the priorities, on what is held and on who is dead. *)
LEMMA PrioInvSame ==
    ASSUME NEW S, NEW T, PrioInv(S), SameLocks(S, T), T.priority = S.priority,
           T.current_priority = S.current_priority, T.nominal_priority = S.nominal_priority,
           \A u \in Threads : T.status[u] # "Dead" => S.status[u] # "Dead"
    PROVE  PrioInv(T)
  BY DEF PrioInv, BestPriority, SameLocks

(* A running thread is in no waiting list. *)
LEMMA RunningIsUnlisted ==
    ASSUME NEW S, Good(S, {}, {}, {}), NEW t \in Threads, S.status[t] = "Running"
    PROVE  /\ S.wait_objects[t] = << >> /\ S.pending_mutexes[t] = {}
           /\ \A p \in Objects : t \notin Elements(S.waiting_threads[p])
  <1>1. ListInv(S) /\ FitsInv(S, {})
    BY DEF Good
  <1>2. S.wait_objects[t] = << >>
    BY <1>1 DEF FitsInv, Waiting
  <1>3. Elements(S.wait_objects[t]) = {}
    BY <1>2 DEF Elements
  <1>4. S.pending_mutexes[t] = {}
    BY <1>1, <1>3 DEF ListInv
  <1>5. \A p \in Objects : t \notin Elements(S.waiting_threads[p])
    BY <1>1, <1>3 DEF ListInv, Holds, Waiters
  <1> QED BY <1>2, <1>4, <1>5

Singleton(q, o) == q = <<o>>

(* svcWaitSynchronization1 that has to wait. *)
LEMMA WaitsForOne ==
    ASSUME NEW S, Good(S, {}, {}, {}), NEW t \in Threads, S.status[t] = "Running",
           NEW o \in Objects, o # t, ShouldWait(S, o, t), NEW timed \in BOOLEAN,
           NEW q, Singleton(q, o), NEW A, A = SetWait(S, t, q), NEW B, B = AddWaitingThread(A, o, t),
           NEW C, C = SetStatus(B, t, "WaitSynchAny"), NEW T, T = Suspend(C, t, timed)
    PROVE  Good(T, {}, {}, {})
  <1>1. /\ S \in KState /\ MutexInv(S, {}) /\ PrioInv(S) /\ InheritInv(S, {})
        /\ S.pending_mutexes[t] = {}
        /\ \A p \in Objects : t \notin Elements(S.waiting_threads[p])
    BY RunningIsUnlisted DEF Good
  <1>2. S \in KState /\ q \in Seq(Objects)
    BY <1>1 DEF Singleton
  <1>3. /\ q \in Seq(Objects) /\ q # << >> /\ Elements(q) = {o}
        /\ \A i, j \in 1 .. Len(q) : q[i] = q[j] => i = j
    BY DEF Elements, Singleton
  <1>4. /\ A \in KState
        /\ SameLocks(S, A) /\ SameStock(S, A) /\ SameAnswers(S, A) /\ SameRest(S, A)
        /\ A.priority = S.priority /\ A.current_priority = S.current_priority
        /\ A.waiting_threads = S.waiting_threads /\ A.pending_mutexes = S.pending_mutexes
        /\ A.wait_objects[t] = q /\ \A u \in Threads \ {t} : A.wait_objects[u] = S.wait_objects[u]
    BY <1>2, SetWaitStep
  <1>5. MutexInv(A, {}) /\ t \notin Elements(A.waiting_threads[o])
    BY <1>1, <1>4 DEF MutexInv, SameLocks, SameRest
  <1>6. PrioInv(A)
    BY <1>1, <1>4 DEF PrioInv, BestPriority, SameLocks, SameRest
  <1>7. InheritInv(A, {})
    BY <1>1, <1>4 DEF InheritInv, Lends, Plain, SameLocks, SameRest
  <1>8. Joined(A, B, t, {o}) /\ B \in KState
    <2>1. Joined(A, A, t, {})
      BY <1>6, <1>7 DEF Joined, Listing, SameLocks, SameStock, SameAnswers, SameRest
    <2>2. A \in KState /\ o \notin {} /\ \A p \in Objects : t \notin Elements(A.waiting_threads[p])
      BY <1>1, <1>4
    <2>3. Joined(A, B, t, {} \cup {o})
      BY <1>5, <2>1, <2>2, JoinStep
    <2>4. {} \cup {o} = {o}
      OBVIOUS
    <2>5. B \in KState
      BY <2>2, AddType
    <2> QED BY <2>3, <2>4, <2>5
  <1>9. "WaitSynchAny" \in Statuses /\ "WaitSynchAny" \in Waiting
    BY DEF Statuses, Waiting
  <1>10. /\ C \in KState
         /\ SameLists(B, C) /\ SameLocks(B, C) /\ SameStock(B, C) /\ SameAnswers(B, C)
         /\ C.priority = B.priority /\ C.current_priority = B.current_priority
         /\ C.nominal_priority = B.nominal_priority /\ C.failed = B.failed
         /\ C.status[t] = "WaitSynchAny" /\ \A u \in Threads \ {t} : C.status[u] = B.status[u]
    BY <1>8, <1>9, SetStatusStep
  <1>11. /\ T \in KState
         /\ SameLists(C, T) /\ SameLocks(C, T) /\ SameStock(C, T) /\ SameRest(C, T)
         /\ T.priority = C.priority /\ T.current_priority = C.current_priority
         /\ T.result = C.result /\ T.granted = C.granted
         /\ \A u \in Threads \ {t} : /\ u \in T.wakeup_callback <=> u \in C.wakeup_callback
                                     /\ u \in T.wakeup_event <=> u \in C.wakeup_event
                                     /\ u \in T.timed <=> u \in C.timed
         /\ t \in T.wakeup_callback
         /\ t \in T.wakeup_event => t \in T.timed \/ t \in C.wakeup_event
    BY <1>10, SuspendStep
  <1>12. /\ Listing(A, B) /\ PrioInv(B) /\ InheritInv(B, {})
         /\ \A p \in Objects : B.waiting_threads[p] = IF p \in {o} THEN Append(A.waiting_threads[p], t)
                                                      ELSE A.waiting_threads[p]
         /\ \A u \in Threads :
               B.pending_mutexes[u] = A.pending_mutexes[u] \cup (IF u = t THEN {o} \cap Mutexes ELSE {})
    BY <1>8 DEF Joined
  <1>13. SameLocks(S, T) /\ SameStock(S, T)
    BY <1>4, <1>10, <1>11, <1>12 DEF Listing, SameLocks, SameStock
  <1>14. Blocked(S, T, t, q, "WaitSynchAny")
    <2>1. /\ T.nominal_priority = S.nominal_priority /\ T.failed = S.failed
          /\ T.result = S.result /\ T.granted = S.granted
      BY <1>4, <1>10, <1>11, <1>12 DEF Listing, SameAnswers, SameRest
    <2>2. T.wait_objects[t] = q /\ T.status[t] = "WaitSynchAny"
      BY <1>4, <1>10, <1>11, <1>12 DEF Listing, SameLists, SameRest
    <2>3. T.pending_mutexes[t] = Elements(q) \cap Mutexes
      BY <1>1, <1>3, <1>4, <1>10, <1>11, <1>12 DEF SameLists
    <2>4. \A p \in Objects : T.waiting_threads[p] = IF p \in Elements(q) THEN Append(S.waiting_threads[p], t)
                                                    ELSE S.waiting_threads[p]
      BY <1>3, <1>4, <1>10, <1>11, <1>12 DEF SameLists
    <2>5. \A u \in Threads \ {t} : /\ T.wait_objects[u] = S.wait_objects[u] /\ T.status[u] = S.status[u]
                                   /\ T.pending_mutexes[u] = S.pending_mutexes[u]
      <3>1. /\ T.wait_objects = A.wait_objects /\ T.pending_mutexes = B.pending_mutexes
            /\ T.status = C.status /\ B.status = S.status
        BY <1>4, <1>10, <1>11, <1>12 DEF Listing, SameLists, SameRest
      <3>2. ASSUME NEW u \in Threads, u # t
            PROVE  /\ A.wait_objects[u] = S.wait_objects[u] /\ C.status[u] = B.status[u]
                   /\ B.pending_mutexes[u] = A.pending_mutexes[u]
        BY <1>4, <1>10, <1>12, <3>2
      <3> QED BY <1>4, <3>1, <3>2
    <2>6. C.wakeup_callback = S.wakeup_callback /\ C.wakeup_event = S.wakeup_event /\ C.timed = S.timed
      BY <1>4, <1>10, <1>12 DEF Listing, SameAnswers
    <2> QED BY <1>11, <1>13, <2>1, <2>2, <2>3, <2>4, <2>5, <2>6 DEF Blocked
  <1>15. PrioInv(T)
    <2>1. SameLocks(B, T) /\ T.priority = B.priority /\ T.current_priority = B.current_priority
          /\ T.nominal_priority = B.nominal_priority
      BY <1>10, <1>11 DEF SameLocks, SameRest
    <2>2. B.status[t] = "Running" /\ \A u \in Threads \ {t} : T.status[u] = B.status[u]
      BY <1>4, <1>10, <1>11, <1>12 DEF Listing, SameRest
    <2>3. \A u \in Threads : T.status[u] # "Dead" => B.status[u] # "Dead"
      BY <2>2
    <2> QED BY <1>12, <2>1, <2>3, PrioInvSame
  <1>16. InheritInv(T, {})
    <2> SUFFICES ASSUME NEW m \in Mutexes, T.holding_thread[m] # None
                 PROVE  Lends(T, m)
      BY DEF InheritInv
    <2>1. /\ T.priority = B.priority /\ T.current_priority = B.current_priority
          /\ T.waiting_threads = B.waiting_threads /\ T.holding_thread = B.holding_thread
          /\ T.held_mutexes = B.held_mutexes
      BY <1>10, <1>11 DEF SameLists, SameLocks
    <2>2. m \in Objects /\ Elements(T.waiting_threads[m]) \subseteq Threads
      <3>1. m \in Objects
        BY DEF Objects
      <3>2. T.waiting_threads[m] \in Seq(Threads)
        BY <1>11, <3>1 DEF KState
      <3> QED BY <3>1, <3>2 DEF Elements
    <2>3. ASSUME NEW w \in Elements(T.waiting_threads[m]), w # t, Plain(T, w) PROVE Plain(B, w)
      BY <1>10, <1>11, <2>1, <2>2, <2>3 DEF Plain, SameRest
    <2>4. Lends(B, m)
      BY <1>12, <2>1 DEF InheritInv
    <2>5. CASE m # o
      <3>1. t \notin Elements(T.waiting_threads[m])
        BY <1>1, <1>4, <1>12, <2>1, <2>2, <2>5
      <3> QED BY <2>1, <2>3, <2>4, <3>1 DEF Lends
    <2>6. CASE m = o
      <3>2. A.holding_thread = T.holding_thread /\ S.holding_thread = T.holding_thread
            /\ A.held_mutexes = T.held_mutexes
        BY <1>4, <1>12, <2>1 DEF Listing, SameLocks
      <3>3. S.holding_thread[o] # t
        BY <2>6, KindAssumption DEF ShouldWait, Resettable
      <3>4. /\ B.priority[o] <= B.current_priority[t]
            /\ \E u \in Elements(B.waiting_threads[o]) :
                  u = A.holding_thread[o] \/ B.priority[o] = B.current_priority[u]
        BY <1>4, <1>5, <2>6, <3>2, <3>3, AddLends
      <3>5. ~Plain(T, T.holding_thread[o])
        BY <1>5, <2>6, <3>2 DEF MutexInv, Plain
      <3> QED BY <2>1, <2>3, <2>4, <2>6, <3>2, <3>4, <3>5 DEF Lends
    <2> QED BY <2>5, <2>6
  <1>17. MustWait(S, t, q, "WaitSynchAny")
    BY <1>3 DEF MustWait
  <1>18. t \notin Elements(q)
    BY <1>3
  <1>19. T \in KState
    BY <1>11
  <1> QED BY <1>3, <1>9, <1>14, <1>15, <1>16, <1>17, <1>18, <1>19, BlockedKeeps

(* svcWaitSynchronizationN that has to wait. *)
LEMMA WaitsForMany ==
    ASSUME NEW S, Good(S, {}, {}, {}), NEW t \in Threads, S.status[t] = "Running",
           NEW q \in Seq(Objects), q # << >>, \A i, j \in 1 .. Len(q) : q[i] = q[j] => i = j,
           t \notin Elements(q), NEW status \in Waiting, MustWait(S, t, q, status), NEW timed \in BOOLEAN,
           NEW A, A = SetStatus(S, t, status), NEW B, B = AddToAll(A, q, t),
           NEW C, C = SetWait(B, t, q), NEW T, T = Suspend(C, t, timed)
    PROVE  Good(T, {}, {}, {})
  <1>1. /\ S \in KState /\ MutexInv(S, {}) /\ PrioInv(S) /\ InheritInv(S, {})
        /\ S.pending_mutexes[t] = {}
        /\ \A p \in Objects : t \notin Elements(S.waiting_threads[p])
    BY RunningIsUnlisted DEF Good
  <1>2. status \in Statuses /\ S \in KState
    BY <1>1 DEF Statuses
  <1>3. /\ A \in KState
        /\ SameLists(S, A) /\ SameLocks(S, A) /\ SameStock(S, A) /\ SameAnswers(S, A)
        /\ A.priority = S.priority /\ A.current_priority = S.current_priority
        /\ A.nominal_priority = S.nominal_priority /\ A.failed = S.failed
        /\ A.status[t] = status /\ \A u \in Threads \ {t} : A.status[u] = S.status[u]
    BY <1>2, SetStatusStep
  <1>4. \A u \in Threads : A.status[u] # "Dead" <=> S.status[u] # "Dead"
    BY <1>3 DEF Waiting
  <1>5. MutexInv(A, {})
    BY <1>1, <1>3, <1>4 DEF MutexInv, SameLocks
  <1>6. PrioInv(A)
    BY <1>1, <1>3, <1>4, PrioInvSame
  <1>7. InheritInv(A, {})
    <2>1. /\ A.waiting_threads = S.waiting_threads /\ A.holding_thread = S.holding_thread
          /\ A.held_mutexes = S.held_mutexes
      BY <1>3 DEF SameLists, SameLocks
    <2>2. ASSUME NEW m \in Mutexes, NEW w \in Elements(A.waiting_threads[m]), Plain(A, w)
          PROVE  Plain(S, w) /\ A.current_priority[w] = S.current_priority[w]
      <3>1. m \in Objects
        BY DEF Objects
      <3>2. S.waiting_threads[m] \in Seq(Threads)
        BY <1>2, <3>1 DEF KState
      <3>3. w \in Threads /\ w # t
        BY <1>1, <2>1, <3>1, <3>2 DEF Elements
      <3>4. S.status[w] = "WaitSynchAny"
        BY <1>3, <2>2, <3>3 DEF Plain
      <3> QED BY <1>3, <2>1, <2>2, <3>4 DEF Plain
    <2>3. \A m \in Mutexes : A.holding_thread[m] # None => Unmoved(S, A, m)
      BY <1>3, <2>1, <2>2 DEF Unmoved
    <2> QED BY <1>1, <2>3, InheritKept
  <1>8. Joined(A, B, t, Elements(q)) /\ B \in KState
    <2>1. A \in KState /\ \A p \in Objects : t \notin Elements(A.waiting_threads[p])
      BY <1>1, <1>3 DEF SameLists
    <2> QED BY <1>5, <1>6, <1>7, <2>1, JoinsAll
  <1>9. /\ C \in KState
        /\ SameLocks(B, C) /\ SameStock(B, C) /\ SameAnswers(B, C) /\ SameRest(B, C)
        /\ C.priority = B.priority /\ C.current_priority = B.current_priority
        /\ C.waiting_threads = B.waiting_threads /\ C.pending_mutexes = B.pending_mutexes
        /\ C.wait_objects[t] = q /\ \A u \in Threads \ {t} : C.wait_objects[u] = B.wait_objects[u]
    BY <1>8, SetWaitStep
  <1>10. /\ T \in KState
         /\ SameLists(C, T) /\ SameLocks(C, T) /\ SameStock(C, T) /\ SameRest(C, T)
         /\ T.priority = C.priority /\ T.current_priority = C.current_priority
         /\ T.result = C.result /\ T.granted = C.granted
         /\ \A u \in Threads \ {t} : /\ u \in T.wakeup_callback <=> u \in C.wakeup_callback
                                     /\ u \in T.wakeup_event <=> u \in C.wakeup_event
                                     /\ u \in T.timed <=> u \in C.timed
         /\ t \in T.wakeup_callback
         /\ t \in T.wakeup_event => t \in T.timed \/ t \in C.wakeup_event
    BY <1>9, SuspendStep
  <1>11. /\ Listing(A, B) /\ PrioInv(B) /\ InheritInv(B, {})
         /\ \A p \in Objects : B.waiting_threads[p] = IF p \in Elements(q) THEN Append(A.waiting_threads[p], t)
                                                      ELSE A.waiting_threads[p]
         /\ \A u \in Threads :
               B.pending_mutexes[u] =
                   A.pending_mutexes[u] \cup (IF u = t THEN Elements(q) \cap Mutexes ELSE {})
    BY <1>8 DEF Joined
  <1>12. /\ T.status = A.status /\ T.waiting_threads = B.waiting_threads
         /\ T.pending_mutexes = B.pending_mutexes /\ T.wait_objects = C.wait_objects
         /\ B.wait_objects = S.wait_objects /\ A.waiting_threads = S.waiting_threads
         /\ A.pending_mutexes = S.pending_mutexes /\ T.status = B.status
    BY <1>3, <1>9, <1>10, <1>11 DEF Listing, SameLists, SameRest
  <1>13. SameLocks(S, T) /\ SameStock(S, T) /\ SameLocks(B, T)
    BY <1>3, <1>9, <1>10, <1>11 DEF Listing, SameLocks, SameStock
  <1>14. Blocked(S, T, t, q, status)
    <2>1. /\ T.nominal_priority = S.nominal_priority /\ T.failed = S.failed
          /\ T.result = S.result /\ T.granted = S.granted
      BY <1>3, <1>9, <1>10, <1>11 DEF Listing, SameAnswers, SameRest
    <2>2. T.wait_objects[t] = q /\ T.status[t] = status
      BY <1>3, <1>9, <1>12
    <2>3. T.pending_mutexes[t] = Elements(q) \cap Mutexes
      BY <1>1, <1>11, <1>12
    <2>4. \A p \in Objects : T.waiting_threads[p] = IF p \in Elements(q) THEN Append(S.waiting_threads[p], t)
                                                    ELSE S.waiting_threads[p]
      BY <1>11, <1>12
    <2>5. ASSUME NEW u \in Threads, u # t
          PROVE  /\ T.wait_objects[u] = S.wait_objects[u] /\ T.status[u] = S.status[u]
                 /\ T.pending_mutexes[u] = S.pending_mutexes[u]
      <3>1. C.wait_objects[u] = B.wait_objects[u] /\ A.status[u] = S.status[u]
        BY <1>3, <1>9, <2>5
      <3>2. B.pending_mutexes[u] = A.pending_mutexes[u]
        <4>1. B.pending_mutexes[u] =
                  A.pending_mutexes[u] \cup (IF u = t THEN Elements(q) \cap Mutexes ELSE {})
          BY <1>11, Zenon
        <4>2. PICK P : P = A.pending_mutexes[u]
          OBVIOUS
        <4>3. B.pending_mutexes[u] = P \cup {}
          BY <2>5, <4>1, <4>2, Zenon
        <4>4. P \cup {} = P
          OBVIOUS
        <4> QED BY <4>2, <4>3, <4>4
      <3> QED BY <1>12, <3>1, <3>2
    <2>6. C.wakeup_callback = S.wakeup_callback /\ C.wakeup_event = S.wakeup_event /\ C.timed = S.timed
      BY <1>3, <1>9, <1>11 DEF Listing, SameAnswers
    <2> QED BY <1>10, <1>13, <2>1, <2>2, <2>3, <2>4, <2>5, <2>6 DEF Blocked
  <1>15. T.priority = B.priority /\ T.current_priority = B.current_priority
         /\ T.nominal_priority = B.nominal_priority
    BY <1>9, <1>10 DEF SameRest
  <1>16. PrioInv(T)
    BY <1>11, <1>12, <1>13, <1>15, PrioInvSame
  <1>17. InheritInv(T, {})
    BY <1>11, <1>12, <1>13, <1>15 DEF InheritInv, Lends, Plain, SameLocks
  <1>18. T \in KState
    BY <1>10
  <1> QED BY <1>14, <1>16, <1>17, <1>18, BlockedKeeps

(* svcWaitSynchronization1. *)
LEMMA WaitSynchronization1Keeps ==
    ASSUME IInv, NEW t \in Threads, NEW o \in Objects, o # t, NEW timed \in BOOLEAN,
           WaitSynchronization1(t, o, timed)
    PROVE  IInv'
  <1>1. PICK S, T : S = kernel /\ T = kernel'
    OBVIOUS
  <1>2. Good(S, {}, {}, {}) /\ S.status[t] = "Running"
    BY <1>1 DEF IInv, WaitSynchronization1, Running
  <1>3. CASE ShouldWait(S, o, t)
    <2>1. PICK q : Singleton(q, o)
      BY DEF Singleton
    <2>2. PICK A : A = SetWait(S, t, q)
      OBVIOUS
    <2>3. PICK B : B = AddWaitingThread(A, o, t)
      OBVIOUS
    <2>4. PICK C : C = SetStatus(B, t, "WaitSynchAny")
      OBVIOUS
    <2>5. T = Suspend(C, t, timed)
      BY <1>1, <1>3, <2>1, <2>2, <2>3, <2>4 DEF WaitSynchronization1, Singleton, SetWait, SetStatus
    <2>6. Good(T, {}, {}, {})
      BY <1>2, <1>3, <2>1, <2>2, <2>3, <2>4, <2>5, WaitsForOne
    <2> QED BY <1>1, <2>6 DEF IInv
  <1>4. CASE ~ShouldWait(S, o, t)
    <2>1. T = Acquire(S, o, t)
      BY <1>1, <1>4 DEF WaitSynchronization1
    <2>2. Good(T, {}, {}, {})
      BY <1>2, <1>4, <2>1, TakesOne
    <2> QED BY <1>1, <2>2 DEF IInv
  <1> QED BY <1>3, <1>4

(* A list without duplicates that does not name its caller. *)
ProperList(q, t) ==
    q \in Seq(Objects) /\ q # << >> /\ t \notin Elements(q)
    /\ \A i, j \in 1 .. Len(q) : q[i] = q[j] => i = j

(* svcWaitSynchronizationN that suspends. *)
LEMMA SuspendNKeeps ==
    ASSUME NEW S, S = kernel, Good(S, {}, {}, {}), NEW t \in Threads, S.status[t] = "Running",
           NEW q, ProperList(q, t), NEW status \in Waiting, MustWait(S, t, q, status),
           NEW timed \in BOOLEAN, SuspendN(t, q, status, timed)
    PROVE  IInv'
  <1>1. PICK T : T = kernel'
    OBVIOUS
  <1>2. PICK A : A = SetStatus(S, t, status)
    OBVIOUS
  <1>3. PICK B : B = AddToAll(A, q, t)
    OBVIOUS
  <1>4. PICK C : C = SetWait(B, t, q)
    OBVIOUS
  <1>5. T = Suspend(C, t, timed)
    BY <1>1, <1>2, <1>3, <1>4 DEF SuspendN, SetWait, SetStatus
  <1>6. /\ q \in Seq(Objects) /\ q # << >> /\ t \notin Elements(q)
        /\ \A i, j \in 1 .. Len(q) : q[i] = q[j] => i = j
    BY DEF ProperList
  <1>7. Good(T, {}, {}, {})
    BY <1>2, <1>3, <1>4, <1>5, <1>6, WaitsForMany
  <1> QED BY <1>1, <1>7 DEF IInv

(* svcWaitSynchronizationN with wait_all. *)
LEMMA WaitSynchronizationAllKeeps ==
    ASSUME IInv, NEW t \in Threads, NEW q, ProperList(q, t), NEW timed \in BOOLEAN,
           WaitSynchronizationAll(t, q, timed)
    PROVE  IInv'
  <1>1. PICK S, T : S = kernel /\ T = kernel'
    OBVIOUS
  <1>2. Good(S, {}, {}, {}) /\ S.status[t] = "Running"
    BY <1>1 DEF IInv, WaitSynchronizationAll, Running
  <1>3. CASE \A o \in Elements(q) : ~ShouldWait(S, o, t)
    <2>1. T = AcquireAll(S, q, t)
      BY <1>1, <1>3 DEF WaitSynchronizationAll
    <2>2. q \in Seq(Objects) /\ \A i, j \in 1 .. Len(q) : q[i] = q[j] => i = j
      BY DEF ProperList
    <2>3. Good(T, {}, {}, {})
      BY <1>2, <1>3, <2>1, <2>2, TakesAll
    <2> QED BY <1>1, <2>3 DEF IInv
  <1>4. CASE ~\A o \in Elements(q) : ~ShouldWait(S, o, t)
    <2>1. SuspendN(t, q, "WaitSynchAll", timed)
      BY <1>1, <1>4 DEF WaitSynchronizationAll
    <2>2. MustWait(S, t, q, "WaitSynchAll") /\ "WaitSynchAll" \in Waiting
      BY <1>4 DEF MustWait, Waiting
    <2> QED BY <1>1, <1>2, <2>1, <2>2, SuspendNKeeps
  <1> QED BY <1>3, <1>4

(* svcWaitSynchronizationN without wait_all. *)
LEMMA WaitSynchronizationAnyKeeps ==
    ASSUME IInv, NEW t \in Threads, NEW q, ProperList(q, t), NEW timed \in BOOLEAN,
           WaitSynchronizationAny(t, q, timed)
    PROVE  IInv'
  <1>1. PICK S, T : S = kernel /\ T = kernel'
    OBVIOUS
  <1>2. Good(S, {}, {}, {}) /\ S.status[t] = "Running"
    BY <1>1 DEF IInv, WaitSynchronizationAny, Running
  <1>3. q \in Seq(Objects)
    BY DEF ProperList
  <1>4. PICK A : A = {i \in 1 .. Len(q) : ~ShouldWait(S, q[i], t)}
    OBVIOUS
  <1>5. CASE A # {}
    <2>1. A \subseteq Nat
      BY <1>3, <1>4
    <2>2. Min(A) \in A
      BY <1>5, <2>1, Least
    <2>3. PICK o : o = q[Min(A)]
      OBVIOUS
    <2>4. T = Acquire(S, o, t)
      BY <1>1, <1>4, <1>5, <2>3 DEF WaitSynchronizationAny
    <2>5. ~ShouldWait(S, o, t) /\ o \in Objects
      <3>1. Min(A) \in 1 .. Len(q) /\ ~ShouldWait(S, q[Min(A)], t)
        BY <1>4, <2>2
      <3> QED BY <1>3, <2>3, <3>1
    <2>6. Good(T, {}, {}, {})
      BY <1>2, <2>4, <2>5, TakesOne
    <2> QED BY <1>1, <2>6 DEF IInv
  <1>6. CASE A = {}
    <2>1. SuspendN(t, q, "WaitSynchAny", timed)
      BY <1>1, <1>4, <1>6 DEF WaitSynchronizationAny
    <2>2. MustWait(S, t, q, "WaitSynchAny") /\ "WaitSynchAny" \in Waiting
      BY <1>4, <1>6 DEF MustWait, Waiting, Elements
    <2> QED BY <1>1, <1>2, <2>1, <2>2, SuspendNKeeps
  <1> QED BY <1>5, <1>6

-----------------------------------------------------------------------------
(* The theorems. *)

(* How the programs call the waits: no thread waits for itself, and the     *)
(* lists of svcWaitSynchronizationN are not empty and name no object twice. *)
(* The runs duplicate_handles and self_wait show what happens otherwise.    *)
WellUsed ==
    /\ ~SelfWait
    /\ \A l \in HandleLists : l # << >> /\ IsInjective(l)

(* The invariant holds at first. *)
LEMMA InitHolds ==
    ASSUME Init
    PROVE  IInv
  <1>1. PICK S : S = kernel
    OBVIOUS
  <1>2. InitPriority \in [Threads -> Prio] /\ ThreadPrioLowest \in Prio
    BY PriorityAssumption DEF Prio
  <1>3. /\ S.status = [t \in Threads |-> "Ready"]
        /\ S.nominal_priority = InitPriority /\ S.current_priority = InitPriority
        /\ S.held_mutexes = [t \in Threads |-> {}] /\ S.pending_mutexes = [t \in Threads |-> {}]
        /\ S.wait_objects = [t \in Threads |-> << >>]
        /\ S.wakeup_callback = {} /\ S.wakeup_event = {} /\ S.timed = {}
        /\ S.result = [t \in Threads |-> "none"] /\ S.granted = [t \in Threads |-> {}]
        /\ S.waiting_threads = [o \in Objects |-> << >>]
        /\ S.lock_count = [m \in Mutexes |-> 0] /\ S.holding_thread = [m \in Mutexes |-> None]
        /\ S.priority = [m \in Mutexes |-> ThreadPrioLowest]
        /\ S.available_count = [s \in Semaphores |-> 0]
        /\ S.signaled = {} /\ S.scheduled = {} /\ S.interval = {} /\ S.failed = {}
    BY <1>1 DEF Init
  <1>4. S \in KState
    <2>1. /\ [t \in Threads |-> "Ready"] \in [Threads -> Statuses]
          /\ [t \in Threads |-> {}] \in [Threads -> SUBSET Mutexes]
          /\ [t \in Threads |-> {}] \in [Threads -> SUBSET Objects]
          /\ [t \in Threads |-> << >>] \in [Threads -> Seq(Objects)]
          /\ [t \in Threads |-> "none"] \in [Threads -> {"none", "Success", "Timeout"}]
          /\ [o \in Objects |-> << >>] \in [Objects -> Seq(Threads)]
          /\ [m \in Mutexes |-> 0] \in [Mutexes -> Nat]
          /\ [m \in Mutexes |-> None] \in [Mutexes -> Threads \cup {None}]
          /\ [m \in Mutexes |-> ThreadPrioLowest] \in [Mutexes -> Prio]
          /\ [s \in Semaphores |-> 0] \in [Semaphores -> Nat]
      BY <1>2 DEF Statuses
    <2>2. PICK a, b, c, d, e, f, g, h, i, j :
             /\ a = [t \in Threads |-> "Ready"] /\ b = [t \in Threads |-> {}]
             /\ c = [t \in Threads |-> << >>] /\ d = [t \in Threads |-> "none"]
             /\ e = [o \in Objects |-> << >>] /\ f = [m \in Mutexes |-> 0]
             /\ g = [m \in Mutexes |-> None] /\ h = [m \in Mutexes |-> ThreadPrioLowest]
             /\ i = [s \in Semaphores |-> 0] /\ j = {}
      OBVIOUS
    <2>3. /\ a \in [Threads -> Statuses] /\ b \in [Threads -> SUBSET Mutexes]
          /\ b \in [Threads -> SUBSET Objects] /\ c \in [Threads -> Seq(Objects)]
          /\ d \in [Threads -> {"none", "Success", "Timeout"}]
          /\ e \in [Objects -> Seq(Threads)] /\ f \in [Mutexes -> Nat]
          /\ g \in [Mutexes -> Threads \cup {None}] /\ h \in [Mutexes -> Prio]
          /\ i \in [Semaphores -> Nat] /\ j \in SUBSET Threads /\ j \in SUBSET Resettable
          /\ j \in SUBSET Timers /\ j \in SUBSET Assertions
      BY <2>1, <2>2
    <2>4. S = [status |-> a, nominal_priority |-> InitPriority, current_priority |-> InitPriority,
               held_mutexes |-> b, pending_mutexes |-> b, wait_objects |-> c,
               wakeup_callback |-> j, wakeup_event |-> j, timed |-> j,
               result |-> d, granted |-> b, waiting_threads |-> e,
               lock_count |-> f, holding_thread |-> g, priority |-> h, available_count |-> i,
               signaled |-> j, scheduled |-> j, interval |-> j, failed |-> j]
      BY <1>1, <2>2 DEF Init
    <2> QED BY <1>2, <2>3, <2>4 DEF KState
  <1>5. \A t \in Threads : /\ S.status[t] = "Ready" /\ S.wait_objects[t] = << >>
                           /\ S.held_mutexes[t] = {} /\ S.pending_mutexes[t] = {}
                           /\ S.result[t] = "none" /\ S.granted[t] = {}
    BY <1>3
  <1>6. \A t \in Threads : Elements(S.wait_objects[t]) = {}
    BY <1>5 DEF Elements
  <1>7. ListInv(S)
    <2>1. ASSUME NEW o \in Objects PROVE Holds(S.waiting_threads[o], Threads, Waiters(S, o))
      <3>1. Waiters(S, o) = {}
        BY <1>6 DEF Waiters
      <3>2. S.waiting_threads[o] = << >>
        BY <1>3
      <3> QED BY <3>1, <3>2, EmptyHolds
    <2>2. ASSUME NEW t \in Threads
          PROVE  /\ \A i, j \in 1 .. Len(S.wait_objects[t]) :
                       S.wait_objects[t][i] = S.wait_objects[t][j] => i = j
                 /\ t \notin Elements(S.wait_objects[t])
                 /\ S.pending_mutexes[t] = Elements(S.wait_objects[t]) \cap Mutexes
      BY <1>5, <1>6
    <2> QED BY <2>1, <2>2 DEF ListInv
  <1>8. FitsInv(S, {})
    BY <1>5 DEF FitsInv, Waiting
  <1>9. MutexInv(S, {})
    BY <1>3, <1>5 DEF MutexInv
  <1>10. PrioInv(S)
    <2> SUFFICES ASSUME NEW t \in Threads PROVE S.current_priority[t] = BestPriority(S, t)
      BY DEF PrioInv
    <2>1. PICK A : A = {S.nominal_priority[t]} \cup {S.priority[m] : m \in S.held_mutexes[t]}
      OBVIOUS
    <2>2. A = {S.current_priority[t]} /\ S.current_priority[t] \in Nat
      BY <1>2, <1>3, <1>5, <2>1 DEF Prio
    <2>3. Min(A) \in A
      BY <2>2, Least
    <2> QED BY <2>1, <2>2, <2>3 DEF BestPriority
  <1>11. CountInv(S)
    BY <1>3, CountAssumption DEF CountInv
  <1>12. AnswerInv(S)
    BY <1>3, <1>5 DEF AnswerInv, Waiting
  <1>13. AvailInv(S, {})
    BY <1>5 DEF AvailInv
  <1>14. InheritInv(S, {})
    BY <1>3 DEF InheritInv, Lends, Plain, Elements, Objects
  <1>15. Good(S, {}, {}, {})
    BY <1>3, <1>4, <1>7, <1>8, <1>9, <1>10, <1>11, <1>12, <1>13, <1>14 DEF Good
  <1> QED BY <1>1, <1>15 DEF IInv

(* Every system call keeps the invariant. *)
LEMMA SyscallKeeps ==
    ASSUME WellUsed, IInv, NEW t \in Threads, Syscall(t)
    PROVE  IInv'
  <1>1. ASSUME NEW o \in WaitTargets, NEW timed \in BOOLEAN, o = t => SelfWait,
               WaitSynchronization1(t, o, timed)
        PROVE  IInv'
    <2>1. o \in Objects /\ o # t
      BY <1>1, CallAssumption DEF WellUsed
    <2> QED BY <1>1, <2>1, WaitSynchronization1Keeps
  <1>2. ASSUME NEW l \in HandleLists, t \in Elements(l) => SelfWait
        PROVE  ProperList(l, t)
    <2>1. l \in Seq(Objects) /\ l # << >> /\ IsInjective(l) /\ t \notin Elements(l)
      BY <1>2, CallAssumption DEF WellUsed
    <2>2. \A i, j \in 1 .. Len(l) : l[i] = l[j] => i = j
      BY <2>1 DEF IsInjective
    <2> QED BY <2>1, <2>2 DEF ProperList
  <1>3. ASSUME NEW l \in HandleLists, NEW timed \in BOOLEAN, t \in Elements(l) => SelfWait,
               WaitSynchronizationAll(t, l, timed)
        PROVE  IInv'
    BY <1>2, <1>3, WaitSynchronizationAllKeeps
  <1>4. ASSUME NEW l \in HandleLists, NEW timed \in BOOLEAN, t \in Elements(l) => SelfWait,
               WaitSynchronizationAny(t, l, timed)
        PROVE  IInv'
    BY <1>2, <1>4, WaitSynchronizationAnyKeeps
  <1>5. ASSUME NEW m \in Mutexes, ReleaseMutex(t, m) PROVE IInv'
    BY <1>5, ReleaseMutexKeeps
  <1>6. ASSUME NEW s \in Semaphores, NEW n \in 1 .. MaxCount[s], ReleaseSemaphore(t, s, n) PROVE IInv'
    BY <1>6, ReleaseSemaphoreKeeps
  <1>7. ASSUME NEW e \in Events, SignalEvent(t, e) PROVE IInv'
    BY <1>7, SignalEventKeeps
  <1>8. ASSUME NEW o \in Resettable, Clear(t, o) PROVE IInv'
    BY <1>8, ClearKeeps
  <1>9. ASSUME NEW o \in Timers, NEW initial \in BOOLEAN, NEW interval \in BOOLEAN,
               SetTimer(t, o, initial, interval)
        PROVE  IInv'
    BY <1>9, SetTimerKeeps
  <1>10. ASSUME NEW o \in Timers, CancelTimer(t, o) PROVE IInv'
    BY <1>10, CancelTimerKeeps
  <1>11. ASSUME NEW u \in Threads, NEW p \in Priorities, SetThreadPriority(t, u, p) PROVE IInv'
    BY <1>11, SetThreadPriorityKeeps
  <1>12. ASSUME SleepThread(t) PROVE IInv'
    BY <1>12, SleepThreadKeeps
  <1>13. ASSUME ExitThread(t) PROVE IInv'
    BY <1>13, ExitThreadKeeps
  <1>14. ASSUME NEW u \in Threads, ExitProcess(t, ProcessOf[u]) PROVE IInv'
    BY <1>14, ExitProcessKeeps
  <1> QED BY <1>1, <1>3, <1>4, <1>5, <1>6, <1>7, <1>8, <1>9, <1>10, <1>11, <1>12, <1>13, <1>14 DEF Syscall

(* Every step keeps the invariant. *)
LEMMA NextKeeps ==
    ASSUME WellUsed, IInv, [Next]_vars
    PROVE  IInv'
  <1>1. ASSUME NEW t \in Threads, Syscall(t) PROVE IInv'
    BY <1>1, SyscallKeeps
  <1>2. ASSUME NEW t \in Threads, ThreadWakeupCallback(t) PROVE IInv'
    BY <1>2, ThreadWakeupCallbackKeeps
  <1>3. ASSUME NEW o \in Timers, TimerCallback(o) PROVE IInv'
    BY <1>3, TimerCallbackKeeps
  <1>4. ASSUME NEW t \in Threads, SwitchIn(t) PROVE IInv'
    BY <1>4, SwitchInKeeps
  <1>5. ASSUME NEW t \in Threads, SwitchOut(t) PROVE IInv'
    BY <1>5, SwitchOutKeeps
  <1>6. CASE UNCHANGED vars
    BY <1>6 DEF IInv, vars
  <1> QED BY <1>1, <1>2, <1>3, <1>4, <1>5, <1>6 DEF Next

(* The inductive invariant holds at every moment between two steps. *)
THEOREM Invariant ==
    ASSUME WellUsed
    PROVE  Spec => []IInv
  <1>1. Init => IInv
    BY InitHolds
  <1>2. IInv /\ [Next]_vars => IInv'
    BY NextKeeps
  <1> QED BY <1>1, <1>2, PTL DEF Spec

(* The type invariant: every field of the kernel stays in its set, the      *)
(* waiting lists hold threads, priorities stay between 0 and the lowest,    *)
(* and Semaphore::Release and Acquire keep a count below max_count.         *)
THEOREM TypeCorrect ==
    ASSUME WellUsed
    PROVE  Spec => []TypeOK
  <1>1. IInv => TypeOK
    BY DEF IInv, Good, CountInv, TypeOK
  <1> QED BY <1>1, Invariant, PTL

(* No lost wakeup (WakeupAllWaitingThreads and its callers): between two    *)
(* steps no thread sleeps on objects it could have, whatever made them      *)
(* available and whoever was served first.                                  *)
THEOREM NoWakeupIsLost ==
    ASSUME WellUsed
    PROVE  Spec => []NoLostWakeup
  <1>1. IInv => NoLostWakeup
    BY DEF IInv, Good, AvailInv, NoLostWakeup
  <1> QED BY <1>1, Invariant, PTL

(* Waiting lists and wait_objects match (AddWaitingThread and               *)
(* RemoveWaitingThread): a thread is in the list of an object, once,        *)
(* exactly while it waits for it.                                           *)
THEOREM WaitListsCorrect ==
    ASSUME WellUsed
    PROVE  Spec => []WaitListsMatch
  <1>1. IInv => WaitListsMatch
    <2> SUFFICES ASSUME IInv PROVE WaitListsMatch
      OBVIOUS
    <2>1. ListInv(kernel) /\ FitsInv(kernel, {}) /\ kernel \in KState
      BY DEF IInv, Good
    <2>2. ASSUME NEW t \in Threads, NEW o \in Objects
          PROVE  t \in Elements(kernel.waiting_threads[o]) <=> o \in Elements(kernel.wait_objects[t])
      <3>1. Holds(kernel.waiting_threads[o], Threads, Waiters(kernel, o))
        BY <2>1 DEF ListInv
      <3> QED BY <3>1 DEF Holds, Waiters
    <2>3. ASSUME NEW o \in Objects PROVE IsInjective(kernel.waiting_threads[o])
      <3>1. Holds(kernel.waiting_threads[o], Threads, Waiters(kernel, o))
        BY <2>1 DEF ListInv
      <3>2. PICK q : q = kernel.waiting_threads[o]
        OBVIOUS
      <3>3. q \in Seq(Threads) /\ \A i, j \in 1 .. Len(q) : q[i] = q[j] => i = j
        BY <3>1, <3>2 DEF Holds
      <3>4. IsInjective(q)
        BY <3>3 DEF IsInjective
      <3> QED BY <3>2, <3>4
    <2>4. ASSUME NEW t \in Threads
          PROVE  /\ kernel.wait_objects[t] # << >> <=> kernel.status[t] \in Waiting
                 /\ kernel.pending_mutexes[t] = Elements(kernel.wait_objects[t]) \cap Mutexes
      BY <2>1 DEF ListInv, FitsInv
    <2> QED BY <2>2, <2>3, <2>4 DEF WaitListsMatch
  <1> QED BY <1>1, Invariant, PTL

(* A mutex is locked exactly while one live thread holds it (Acquire,       *)
(* Release and ReleaseThreadMutexes): none outlives its holder.             *)
THEOREM MutexesOwned ==
    ASSUME WellUsed
    PROVE  Spec => []MutexOwnership
  <1>1. IInv => MutexOwnership
    <2> SUFFICES ASSUME IInv, NEW m \in Mutexes
                 PROVE  /\ kernel.lock_count[m] > 0 <=> kernel.holding_thread[m] # None
                        /\ \A t \in Threads :
                              /\ kernel.holding_thread[m] = t <=> m \in kernel.held_mutexes[t]
                              /\ kernel.holding_thread[m] = t => kernel.status[t] # "Dead"
      BY DEF MutexOwnership
    <2>1. MutexInv(kernel, {})
      BY DEF IInv, Good
    <2>2. /\ kernel.lock_count[m] > 0 <=> kernel.holding_thread[m] # None
          /\ kernel.holding_thread[m] # None => m \in kernel.held_mutexes[kernel.holding_thread[m]]
          /\ \A t \in Threads : m \in kernel.held_mutexes[t] =>
                                    kernel.holding_thread[m] = t /\ kernel.status[t] # "Dead"
      BY <2>1 DEF MutexInv
    <2>3. \A t \in Threads : t # None
      BY KindAssumption
    <2> QED BY <2>2, <2>3
  <1> QED BY <1>1, Invariant, PTL

(* The priority of a live thread is the best of its nominal priority and    *)
(* of what its mutexes owe it at every moment (Thread::UpdatePriority and   *)
(* its callers): of a mutex with waiters that lend in one step, the         *)
(* priority of the best of those who wait now, and of one nobody waits for, *)
(* what Mutex::Acquire recorded, an earlier boost of the holder included.   *)
THEOREM PrioritiesExact ==
    ASSUME WellUsed
    PROVE  Spec => []PriorityExact
  <1>1. IInv => PriorityExact
    <2> SUFFICES ASSUME IInv, NEW t \in Threads, kernel.status[t] # "Dead"
                 PROVE  kernel.current_priority[t] =
                            Min({kernel.nominal_priority[t]} \cup {Owed(m) : m \in kernel.held_mutexes[t]})
      BY DEF PriorityExact
    <2>1. /\ kernel \in KState /\ MutexInv(kernel, {}) /\ InheritInv(kernel, {})
          /\ kernel.current_priority[t] = BestPriority(kernel, t)
      BY DEF IInv, Good, PrioInv
    <2>2. ASSUME NEW m \in kernel.held_mutexes[t] PROVE Owed(m) = kernel.priority[m]
      <3>1. m \in Mutexes
        BY <2>1 DEF KState
      <3>2. Lends(kernel, m)
        BY <2>1, <2>2, <3>1, KindAssumption DEF InheritInv, MutexInv
      <3> DEFINE W == Elements(kernel.waiting_threads[m])
      <3>3. CASE W # {} /\ \A w \in W : Simple(w)
        <4>1. W \subseteq Threads
          <5>1. kernel.waiting_threads[m] \in Seq(Threads)
            BY <2>1, <3>1 DEF KState, Objects
          <5> QED BY <5>1 DEF Elements
        <4>2. Owed(m) = BestWaiter(kernel, m)
          BY <3>3 DEF Owed
        <4>3. /\ \A w \in W : kernel.priority[m] <= kernel.current_priority[w]
              /\ \E w \in W : kernel.priority[m] = kernel.current_priority[w]
          BY <3>2, <3>3 DEF Lends, Plain, Simple
        <4>4. /\ \A w \in W : BestWaiter(kernel, m) <= kernel.current_priority[w]
              /\ \E w \in W : BestWaiter(kernel, m) = kernel.current_priority[w]
              /\ BestWaiter(kernel, m) \in Prio
          BY <2>1, <3>1, <3>3, BestWaiterLeast
        <4>5. kernel.priority[m] \in Nat /\ \A w \in W : kernel.current_priority[w] \in Nat
          BY <2>1, <3>1, <4>1, PriorityAssumption DEF KState, Prio
        <4>6. BestWaiter(kernel, m) \in Nat
          BY <4>4, PriorityAssumption DEF Prio
        <4> HIDE DEF W
        <4> QED BY <4>2, <4>3, <4>4, <4>5, <4>6
      <3>4. CASE ~(W # {} /\ \A w \in W : Simple(w))
        BY <3>4 DEF Owed
      <3> QED BY <3>3, <3>4
    <2>3. {Owed(m) : m \in kernel.held_mutexes[t]} = {kernel.priority[m] : m \in kernel.held_mutexes[t]}
      BY <2>2
    <2> QED BY <2>1, <2>3 DEF BestPriority
  <1> QED BY <1>1, Invariant, PTL

(* Inheritance in one step (Mutex::UpdatePriority): the holder of a mutex   *)
(* runs at least at the priority of a thread that waits for any of its      *)
(* objects, this mutex among them, and holds none itself.                   *)
THEOREM InheritanceDirect ==
    ASSUME WellUsed
    PROVE  Spec => []DirectInheritance
  <1>1. IInv => DirectInheritance
    <2> SUFFICES ASSUME IInv, NEW m \in Mutexes, NEW w \in Threads,
                        w \in Elements(kernel.waiting_threads[m]),
                        kernel.status[w] = "WaitSynchAny", kernel.held_mutexes[w] = {}
                 PROVE  kernel.current_priority[kernel.holding_thread[m]] <= kernel.current_priority[w]
      BY DEF DirectInheritance
    <2>1. PICK S : S = kernel
      OBVIOUS
    <2>2. /\ S \in KState /\ ListInv(S) /\ MutexInv(S, {}) /\ PrioInv(S)
          /\ AvailInv(S, {}) /\ InheritInv(S, {})
      BY <2>1 DEF IInv, Good
    <2>3. m \in Objects
      BY DEF Objects
    <2>4. m \in Elements(S.wait_objects[w])
      BY <2>1, <2>2, <2>3 DEF ListInv, Holds, Waiters
    <2>5. ShouldWait(S, m, w)
      BY <2>1, <2>2, <2>4 DEF AvailInv
    <2>6. S.lock_count[m] > 0
      BY <2>5, KindAssumption DEF ShouldWait
    <2>7. PICK h : h = S.holding_thread[m]
      OBVIOUS
    <2>8. h # None /\ h \in Threads /\ m \in S.held_mutexes[h]
      BY <2>2, <2>6, <2>7 DEF MutexInv, KState
    <2>9. S.status[h] # "Dead"
      BY <2>2, <2>8 DEF MutexInv
    <2>10. S.current_priority[h] = BestPriority(S, h)
      BY <2>2, <2>8, <2>9 DEF PrioInv
    <2>11. BestPriority(S, h) <= S.priority[m]
      BY <2>2, <2>8, BestPriorityLeast
    <2>12. S.priority[m] <= S.current_priority[w]
      BY <2>1, <2>2, <2>7, <2>8 DEF InheritInv, Lends, Plain
    <2>13. S.current_priority[h] \in Nat /\ S.priority[m] \in Nat /\ S.current_priority[w] \in Nat
      BY <2>2, <2>8, PriorityAssumption DEF KState, Prio
    <2> QED BY <2>1, <2>7, <2>10, <2>11, <2>12, <2>13
  <1> QED BY <1>1, Invariant, PTL

(* The answer of a wait and what it acquired agree until the thread runs    *)
(* again (SVC_SyncCallback, ThreadWakeupCallback), and no wakeup event of   *)
(* an earlier wait fires into one without a timeout.                        *)
THEOREM ResultsCorrect ==
    ASSUME WellUsed
    PROVE  Spec => []ResultMatchesOwnership
  <1>1. IInv => ResultMatchesOwnership
    BY DEF IInv, Good, AnswerInv, ResultMatchesOwnership
  <1> QED BY <1>1, Invariant, PTL

(* None of the ASSERTs of Acquire, WakeupAllWaitingThreads and              *)
(* ResumeFromWait fails.                                                    *)
THEOREM AssertionsNeverFail ==
    ASSUME WellUsed
    PROVE  Spec => []AssertionsHold
  <1>1. IInv => AssertionsHold
    BY DEF IInv, Good, AssertionsHold
  <1> QED BY <1>1, Invariant, PTL
=============================================================================
