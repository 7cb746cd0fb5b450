-------------------------- MODULE MCKernelObjects --------------------------
(***************************************************************************)
(* Two threads of equal priority on one core with one object of every      *)
(* kind: a recursive mutex, a semaphore of two slots, a pulse event, a     *)
(* one-shot timer and the other thread, waited for singly, in any and in   *)
(* all.                                                                    *)
(***************************************************************************)
EXTENDS KernelSync, TLC

CONSTANTS t1, t2, m1, s1, e1, c1

MCThreads == {t1, t2}
MCMutexes == {m1}
MCSemaphores == {s1}
MCEvents == {e1}
MCTimers == {c1}
MCInitPriority == (t1 :> 1) @@ (t2 :> 1)
MCCoreOf == (t1 :> 0) @@ (t2 :> 0)
MCProcessOf == (t1 :> "A") @@ (t2 :> "B")
MCThreadList == <<t1, t2>>
MCMutexOrder == <<m1>>
MCResetType == (e1 :> "Pulse") @@ (c1 :> "OneShot")
MCMaxCount == (s1 :> 2)
MCWaitTargets == {t1, t2, m1, s1, e1, c1}
MCHandleLists == {<<m1, s1>>, <<s1, e1>>, <<c1, s1>>}
=============================================================================
