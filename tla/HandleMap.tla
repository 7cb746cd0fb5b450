----------------------------- MODULE HandleMap -----------------------------
(***************************************************************************)
(* What the handle table promises its callers (handle_table.h): a partial  *)
(* map from handles to objects with room for Capacity of them.  A new      *)
(* handle is one that denotes nothing yet, closing one forgets exactly     *)
(* that one, and only a full map refuses a new handle.                     *)
(***************************************************************************)
EXTENDS Naturals, FiniteSets

CONSTANTS Handle, Object, Capacity

VARIABLE map

Init == map = << >>

Create(h, obj) ==
    /\ h \in Handle \ DOMAIN map
    /\ Cardinality(DOMAIN map) < Capacity
    /\ map' = [k \in DOMAIN map \cup {h} |-> IF k = h THEN obj ELSE map[k]]

Close(h) ==
    /\ h \in DOMAIN map
    /\ map' = [k \in DOMAIN map \ {h} |-> map[k]]

Clear == map' = << >>

Next ==
    \/ \E h \in Handle, obj \in Object : Create(h, obj)
    \/ \E h \in Handle : Close(h)
    \/ Clear

Spec == Init /\ [][Next]_map
=============================================================================
