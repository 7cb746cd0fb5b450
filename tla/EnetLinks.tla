----------------------------- MODULE EnetLinks -----------------------------
(***************************************************************************)
(* The connections between a room and its members, as room.cpp and         *)
(* room_member.cpp use ENet (external): reliable packets in order on one   *)
(* channel, a disconnection that discards what is still queued, and a      *)
(* connection that times out, which each end learns for itself.            *)
(***************************************************************************)
EXTENDS Naturals, Sequences, FiniteSets

CONSTANTS
    Nicks,      \* the players: a nickname, a console id and an address each
    MaxLinks    \* connections of one player that may exist at a time

ASSUME LinksAssumption == MaxLinks \in Nat \ {0}

VARIABLE link   \* the connections

Peers == Nicks \X (1..MaxLinks)
Nick(p) == p[1]

(* up and down are the packets on their way to the room and to the member. *)
(* An end's upBye or downBye says that this end's next service may report  *)
(* ENET_EVENT_TYPE_DISCONNECT, with whatever it has not dispatched lost.   *)
Free == [room |-> "none", client |-> "none", up |-> <<>>, down |-> <<>>,
         upBye |-> FALSE, downBye |-> FALSE]

Connected(p) == link[p].room = "up"

(* The player's own end of its connection: one at most. *)
Open(n) == {p \in Peers : Nick(p) = n /\ link[p].client = "up"}

(* The first peer that is free, as enet_host_connect looks for one. *)
FirstFree(n) ==
    LET free == {k \in 1..MaxLinks : link[<<n, k>>] = Free} IN
    IF free = {} THEN <<n, 0>> ELSE <<n, CHOOSE k \in free : \A j \in free : k <= j>>

(* enet_host_connect and the ENET_EVENT_TYPE_CONNECT that answers it. *)
ConnectedLink(l, p) == [l EXCEPT ![p] = [Free EXCEPT !.room = "up", !.client = "up"]]

(* enet_peer_send to the member: an end that is gone takes nothing. *)
SentDown(l, to, msg) ==
    [p \in Peers |->
        IF p \in to /\ l[p].room = "up" /\ l[p].client = "up" /\ ~l[p].downBye
        THEN [l[p] EXCEPT !.down = Append(@, msg)] ELSE l[p]]

(* enet_peer_send to the room, of a list of packets. *)
SentUp(l, to, msgs) ==
    [p \in Peers |->
        IF p \in to /\ l[p].room = "up" /\ l[p].client = "up" /\ ~l[p].upBye
        THEN [l[p] EXCEPT !.up = @ \o msgs] ELSE l[p]]

(* enet_peer_disconnect by the room: what it has received is dropped, the  *)
(* member is told, and the room will hear of the end of the connection.    *)
RoomDisconnects(l, p) ==
    [l EXCEPT ![p].room = "closing", ![p].up = <<>>, ![p].upBye = TRUE, ![p].downBye = TRUE]

(* The end of the room's peer: its slot is free for another connection. *)
RoomEnds(l, P) ==
    [p \in Peers |->
        IF p \notin P THEN l[p]
        ELSE IF l[p].client = "none" THEN Free
        ELSE [l[p] EXCEPT !.room = "none", !.up = <<>>, !.upBye = FALSE, !.downBye = TRUE]]

(* The end of the member's peer, told to the room if tell holds. *)
ClientEnds(l, P, tell) ==
    [p \in Peers |->
        IF p \notin P THEN l[p]
        ELSE IF l[p].room = "none" THEN Free
        ELSE [l[p] EXCEPT !.client = "none", !.down = <<>>, !.downBye = FALSE,
                          !.upBye = @ \/ tell]]

(* The connection breaks, with what is on it: each end times out by itself. *)
Breaks(p) ==
    /\ Connected(p)
    /\ link[p].client = "up"
    /\ ~link[p].downBye
    /\ ~link[p].upBye
    /\ link' = [link EXCEPT ![p].upBye = TRUE, ![p].downBye = TRUE,
                            ![p].up = <<>>, ![p].down = <<>>]
=============================================================================
