------------------------------- MODULE Room -------------------------------
(***************************************************************************)
(* A multiplayer room (network/room.cpp): its thread takes one event of    *)
(* the host at a time and keeps the list of the members and of the bans.   *)
(* Chat, wifi and game packets are passed on without a change of the list  *)
(* and are left out, as are the answers that only raise an error.          *)
(***************************************************************************)
EXTENDS EnetLinks, Filters

CONSTANTS
    Host,     \* host_username: the nickname that moderates
    Slots     \* member_slots

ASSUME RoomAssumption == Host \in Nicks /\ Slots \in Nat \ {0}

VARIABLES
    isOpen,     \* state # Closed
    members,    \* the peers of the members, in the order they joined
    banned      \* ip_ban_list

roomVars == <<isOpen, members, banned>>

Members == {members[i] : i \in 1..Len(members)}
NicksOf(ms) == {Nick(ms[i]) : i \in 1..Len(ms)}

Without(ms, p) == Kept(ms, Peers \ {p})

RoomInformation(ms) == [type |-> "RoomInformation", nicks |-> NicksOf(ms)]
Answer(type) == [type |-> type, nicks |-> {}]

BroadcastRoomInformation(l, ms) == SentDown(l, Peers, RoomInformation(ms))

HasModPermission(ms, p) == (\E i \in 1..Len(ms) : ms[i] = p) /\ Nick(p) = Host

(* The packet the room takes from peer p. *)
Taken(p) == [link EXCEPT ![p].up = Tail(@)]

-----------------------------------------------------------------------------
(* Faulty variant: a nickname that is in use is let in. *)
IsValidNicknameAlways(p) == TRUE

(* Faulty variant: the player hears that it joined before it has the list. *)
AnnouncedEarly(l, ms, p) ==
    BroadcastRoomInformation(
        SentDown(l, {p}, Answer(IF HasModPermission(ms, p) THEN "JoinSuccessAsMod"
                                ELSE "JoinSuccess")), ms)

(* Faulty variant: the others are not told that a member left. *)
HandleClientDisconnectionSilent(p) ==
    /\ isOpen
    /\ link[p].room # "none"
    /\ link[p].upBye
    /\ members' = Without(members, p)
    /\ link' = RoomEnds(link, {p})
    /\ UNCHANGED <<isOpen, banned>>

(* Faulty variant: a request is dropped without an answer. *)
JoinRefusedSilent(p) ==
    /\ link' = Taken(p)
    /\ UNCHANGED roomVars
-----------------------------------------------------------------------------

(* Nobody in the room has the nickname or the console id of p's player. *)
IsValidNickname(p) == Nick(p) \notin NicksOf(members)

IsBanned(p) == Nick(p) \in banned

(* A member hears of the room before it hears that it joined. *)
Announced(l, ms, p) ==
    SentDown(BroadcastRoomInformation(l, ms), {p},
             Answer(IF HasModPermission(ms, p) THEN "JoinSuccessAsMod" ELSE "JoinSuccess"))

(* Any request may have the wrong password, a mac address that is in use,  *)
(* or another version; the answers differ in the error they report.        *)
JoinRefused(p) ==
    /\ link' = SentDown(Taken(p), {p}, Answer("Refused"))
    /\ UNCHANGED roomVars

JoinAccepted(p) ==
    /\ Len(members) < Slots
    /\ IsValidNickname(p)
    /\ ~IsBanned(p)
    /\ members' = Append(members, p)
    /\ link' = Announced(Taken(p), members', p)
    /\ UNCHANGED <<isOpen, banned>>

HandleJoinRequest(p) == JoinRefused(p) \/ JoinAccepted(p)

(* SendUserKicked or SendUserBanned, and the end of the connection. *)
Removed(l, p, type) == RoomDisconnects(SentDown(l, {p}, Answer(type)), p)

(* HandleModKickPacket and HandleModBanPacket, with the target's nickname. *)
HandleRemoval(p, n, ban) ==
    LET target == {q \in Members : Nick(q) = n} IN
    IF HasModPermission(members, p) /\ target # {}
    THEN \E q \in target :
           /\ members' = Without(members, q)
           /\ banned' = IF ban THEN banned \cup {n} ELSE banned
           /\ link' = BroadcastRoomInformation(
                          Removed(Taken(p), q, IF ban THEN "HostBanned" ELSE "HostKicked"),
                          members')
           /\ UNCHANGED isOpen
    ELSE link' = Taken(p) /\ UNCHANGED roomVars

HandleModUnban(p, n) ==
    /\ banned' = IF HasModPermission(members, p) THEN banned \ {n} ELSE banned
    /\ link' = Taken(p)
    /\ UNCHANGED <<isOpen, members>>

(* ENET_EVENT_TYPE_RECEIVE in ServerLoop. *)
RoomReceives(p) ==
    /\ isOpen
    /\ Connected(p)
    /\ link[p].up # <<>>
    /\ LET msg == Head(link[p].up) IN
         CASE msg.type = "JoinRequest" -> HandleJoinRequest(p)
           [] msg.type = "ModKick" -> HandleRemoval(p, msg.nick, FALSE)
           [] msg.type = "ModBan" -> HandleRemoval(p, msg.nick, TRUE)
           [] msg.type = "ModUnban" -> HandleModUnban(p, msg.nick)

HandleClientDisconnection(p) ==
    /\ isOpen
    /\ link[p].room # "none"
    /\ link[p].upBye
    /\ members' = Without(members, p)
    /\ link' = BroadcastRoomInformation(RoomEnds(link, {p}), members')
    /\ UNCHANGED <<isOpen, banned>>

(* Room::Destroy: the loop ends with SendCloseMessage, to the members only, *)
(* and the host is destroyed, which the other peers find out by a timeout.  *)
Destroy ==
    /\ isOpen
    /\ isOpen' = FALSE
    /\ members' = <<>>
    /\ link' = RoomEnds(SentDown(link, Members, Answer("CloseRoom")),
                        {p \in Peers : link[p].room # "none"})
    /\ UNCHANGED banned

RoomInit(ms) == isOpen = TRUE /\ members = ms /\ banned \in SUBSET (Nicks \ {Host})
=============================================================================
