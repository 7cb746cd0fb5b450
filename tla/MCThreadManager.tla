-------------------------- MODULE MCThreadManager --------------------------
(***************************************************************************)
(* Two threads and three priorities, so that priorities are linked in      *)
(* every order and a queue can hold more than one thread.                  *)
(***************************************************************************)
EXTENDS ThreadManager

CONSTANTS t1, t2

MCThreads == {t1, t2}
=============================================================================
