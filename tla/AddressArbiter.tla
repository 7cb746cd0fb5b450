--------------------------- MODULE AddressArbiter ---------------------------
(***************************************************************************)
(* address_arbiter.cpp: threads that sleep until a memory word is          *)
(* signalled.  The arbiter is no WaitObject: it keeps a list of its own,   *)
(* which ResumeFromWait and Stop do not know about.                        *)
(*                                                                         *)
(* The memory words belong to the program, whose threads may store into    *)
(* them at any time: whether a word is less than the value it is compared  *)
(* with is a free choice here, and the decrement of the word is left out.  *)
(***************************************************************************)
EXTENDS ThreadWait, Sequences, FiniteSets, Filters

CONSTANT Addresses

ASSUME AddressAssumption == None \notin Addresses

VARIABLES
    alive,            \* a handle, and so the arbiter, still exists
    waiting_threads,  \* AddressArbiter::waiting_threads
    wait_address,     \* Thread::wait_address, None once nobody reads it
    arrived           \* history: the listed threads in the order they came

arbiterVars == <<alive, waiting_threads, wait_address, arrived>>

Listed == {waiting_threads[i] : i \in 1 .. Len(waiting_threads)}
Without(q, S) == Kept(q, Threads \ S)
Forgotten(S) == [t \in Threads |-> IF t \in S THEN None ELSE wait_address[t]]

ArbiterTypeOK ==
    /\ alive \in BOOLEAN
    /\ waiting_threads \in Seq(Threads)
    /\ wait_address \in [Threads -> Addresses \cup {None}]
    /\ arrived \in Seq(Threads)

ArbiterInit ==
    /\ alive = TRUE
    /\ waiting_threads = << >>
    /\ wait_address = [t \in Threads |-> None]
    /\ arrived = << >>

-----------------------------------------------------------------------------
(* Faulty variant: the partition does not keep the order of its groups. *)
PartitionReversed(a) ==
    LET n == Len(waiting_threads)
        back == [i \in 1 .. n |-> waiting_threads[n + 1 - i]]
    IN  SelectSeq(back, LAMBDA t : wait_address[t] # a)
            \o SelectSeq(back, LAMBDA t : wait_address[t] = a)

(* std::stable_partition: first the threads that wait elsewhere, then the   *)
(* threads that wait at a, each group in its old order.                     *)
Partition(a) ==
    Kept(waiting_threads, {t \in Threads : wait_address[t] # a})
        \o Kept(waiting_threads, {t \in Threads : wait_address[t] = a})

Matches(a) == {t \in Listed : wait_address[t] = a}

(* t is found before u by min_element: a better priority, or the same and   *)
(* an earlier place in the list q.                                          *)
Before(q, t, u) ==
    \/ Priority[t] < Priority[u]
    \/ Priority[t] = Priority[u] /\ \E i, j \in 1 .. Len(q) : i < j /\ q[i] = t /\ q[j] = u

(* ResumeHighestPriorityThread called n times: the n first waiters at a. *)
Highest(a, n) ==
    {t \in Matches(a) :
        Cardinality({u \in Matches(a) \ {t} : Before(Partition(a), u, t)}) < n}

(* ResumeAllThreads and ResumeHighestPriorityThread look at every thread of *)
(* the list, wherever it waits.                                             *)
Inconsistent == \E t \in Listed : status[t] # "WaitArb"

(* ArbitrationType::Signal; a negative value resumes all.  With the value 0 *)
(* the list is not even looked at.                                          *)
Signal(a, value) ==
    LET woken == IF value < 0 THEN Matches(a) ELSE Highest(a, value)
    IN  /\ alive /\ failed = {}
        /\ IF value # 0 /\ Inconsistent
           THEN /\ failed' = {"Inconsistent AddressArbiter state"}
                /\ UNCHANGED <<status, wakeup_callback, waiting_threads, wait_address, arrived>>
           ELSE /\ ResumeFromWait(woken, {})
                /\ waiting_threads' = IF value = 0 THEN waiting_threads
                                                   ELSE Without(Partition(a), woken)
                /\ wait_address' = Forgotten(woken)
                /\ arrived' = Without(arrived, woken)
        /\ UNCHANGED <<current, wakeups, ts_wakeups, died, alive>>

(* WaitThread, and for the calls with a timeout the callback and the event. *)
WaitThread(t, a, withTimeout, timed) ==
    /\ status' = [status EXCEPT ![t] = "WaitArb"]
    /\ wait_address' = [wait_address EXCEPT ![t] = a]
    /\ waiting_threads' = Append(waiting_threads, t)
    /\ arrived' = Append(arrived, t)
    /\ wakeup_callback' = IF withTimeout THEN [wakeup_callback EXCEPT ![t] = "Arbiter"]
                                         ELSE wakeup_callback
    /\ WakeAfterDelay(t, timed)
    /\ UNCHANGED <<current, ts_wakeups, died, failed, alive>>

(* WaitIfLessThan and DecrementAndWaitIfLessThan, with and without timeout, *)
(* when the word is less than the value; otherwise nothing changes.         *)
WaitIfLessThan(t, a, withTimeout, timed) ==
    /\ Runs(t) /\ alive
    /\ timed => withTimeout
    /\ WaitThread(t, a, withTimeout, timed)

(* Faulty variant: a timeout leaves the thread on the list. *)
WakeUpNoErase(t) == UNCHANGED <<waiting_threads, wait_address, arrived>>

(* AddressArbiter::WakeUp, the callback of a timeout. *)
WakeUp(t) ==
    /\ waiting_threads' = Without(waiting_threads, {t})
    /\ wait_address' = Forgotten({t})
    /\ arrived' = Without(arrived, {t})

(* The last handle is closed: the arbiter and its list are gone, although   *)
(* threads may still sleep and their callbacks still refer to it.           *)
Destroy ==
    /\ alive /\ failed = {}
    /\ alive' = FALSE
    /\ waiting_threads' = << >>
    /\ wait_address' = Forgotten(Threads)
    /\ arrived' = << >>
    /\ UNCHANGED threadVars
=============================================================================
