--------------------------- MODULE MCMultiplayer ---------------------------
(***************************************************************************)
(* A host and a guest in a room for two; one of them may come back.        *)
(***************************************************************************)
EXTENDS Multiplayer

CONSTANTS host, guest

MCNicks == {host, guest}
MCUnreliable == {guest}
MCModRequests == {[type |-> t, nick |-> guest] : t \in {"ModKick", "ModBan", "ModUnban"}}
=============================================================================
