----------------------------- MODULE MCCoreOne -----------------------------
(***************************************************************************)
(* A thread of an application and one of a system module, of the same      *)
(* priority and in processes of their own, that share an arbiter, two      *)
(* addresses, and changes of the CPU limit from core 1 and from another.   *)
(***************************************************************************)
EXTENDS CoreOne

CONSTANTS app, sys

MCThreads == {app, sys}
MCPriority == [t \in MCThreads |-> 2]
MCProcessOf == [t \in MCThreads |-> IF t = sys THEN "system" ELSE "app"]
MCCategory == [t \in MCThreads |-> IF t = sys THEN "Other" ELSE "Application"]
=============================================================================
