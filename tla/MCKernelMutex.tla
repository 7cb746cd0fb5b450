--------------------------- MODULE MCKernelMutex ---------------------------
(***************************************************************************)
(* Three threads with three priorities on two cores, two processes, two    *)
(* mutexes and an event: recursive locking, chains of holders and waiters, *)
(* timeouts, exits and kills in every order.                               *)
(***************************************************************************)
EXTENDS KernelSync, TLC

CONSTANTS t1, t2, t3, m1, m2, e1

MCThreads == {t1, t2, t3}
MCMutexes == {m1, m2}
MCEvents == {e1}
MCInitPriority == (t1 :> 0) @@ (t2 :> 1) @@ (t3 :> 2)
MCCoreOf == (t1 :> 0) @@ (t2 :> 0) @@ (t3 :> 1)
MCProcessOf == (t1 :> "A") @@ (t2 :> "B") @@ (t3 :> "B")
MCThreadList == <<t1, t2, t3>>
MCMutexOrder == <<m1, m2>>
MCResetType == [o \in Resettable |-> "OneShot"]
MCMaxCount == << >>
MCWaitTargets == {t1, m1, m2}
MCMutexLists == {<<m1, m2>>}
MCHandleLists == {<<m1, m2>>, <<m2, e1>>}

(* A list that names one event twice. *)
MCDuplicateLists == {<<e1, e1>>}
=============================================================================
