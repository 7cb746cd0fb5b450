--------------------------- MODULE MCHandleTable ---------------------------
(***************************************************************************)
(* A table of 3 slots with generations 1 .. 4, so that within a few steps  *)
(* the table fills up, slots are reused in every order and the generation  *)
(* counter wraps while handles of the previous turn are still open.        *)
(***************************************************************************)
EXTENDS HandleTable
=============================================================================
