--------------------------- MODULE MCSystemLoop ---------------------------
(***************************************************************************)
(* Two cores, a periodic event and one that the guest and host threads     *)
(* schedule: at once, inside a slice, and beyond the next slice; one       *)
(* savestate slot.                                                         *)
(***************************************************************************)
EXTENDS SystemLoop
=============================================================================
