---------------------------- MODULE Multiplayer ----------------------------
(***************************************************************************)
(* A room and its players over the network: the room's thread, and of each *)
(* player the user thread and the loop thread, in any order.               *)
(***************************************************************************)
EXTENDS Room, RoomMember

CONSTANT Unreliable   \* the players whose connection may break

ASSUME UnreliableAssumption == Unreliable \subseteq Nicks

vars == <<link, roomVars, memberVars>>

(* Where a room starts: the one who created it has joined it. *)
Init ==
    /\ link = ConnectedLink([p \in Peers |-> Free], <<Host, 1>>)
    /\ RoomInit(<<<<Host, 1>>>>)
    /\ MemberInit({Host})

(* The host was created with one peer more than the room has slots, so that *)
(* a full room can still answer.                                            *)
HasPeer == isOpen /\ Cardinality({p \in Peers : link[p].room # "none"}) < Slots + 1

UserStep(n) ==
    /\ \/ JoinLeavesFirst(n)
       \/ JoinConnects(n, HasPeer)
       \/ Leave(n)
       \/ LeaveReturns(n)
       \/ \E request \in ModRequests : SendModerationRequest(n, request)
    /\ UNCHANGED roomVars

LoopStep(n) == MemberLoop(n) /\ UNCHANGED roomVars

RoomStep(p) ==
    /\ RoomReceives(p) \/ HandleClientDisconnection(p)
    /\ UNCHANGED memberVars

RoomEndsStep == Destroy /\ UNCHANGED memberVars

(* Any connection may break.  That of a host who plays in the process that *)
(* runs the room is over the loopback interface, which holds; that of the  *)
(* host of a dedicated room is as unreliable as the others.                *)
LinkBreaks(p) == Nick(p) \in Unreliable /\ Breaks(p) /\ UNCHANGED <<roomVars, memberVars>>

Next ==
    \/ \E n \in Nicks : UserStep(n) \/ LoopStep(n)
    \/ \E p \in Peers : RoomStep(p) \/ LinkBreaks(p)
    \/ RoomEndsStep

(* The threads run: a player's loop thread until it ends, its user thread  *)
(* out of Leave once it has, and the room's thread.  An iteration of a     *)
(* loop that finds nothing changes nothing, so what arrives is taken.      *)
Fairness ==
    /\ \A n \in Nicks :
         WF_vars(LoopStep(n) \/ (LeaveReturns(n) /\ UNCHANGED roomVars))
    /\ WF_vars(\E p \in Peers : RoomStep(p))

Spec == Init /\ [][Next]_vars /\ Fairness

-----------------------------------------------------------------------------
(* Types, and the shape of a connection. *)
UpMessages == [type : {"JoinRequest", "ModKick", "ModBan", "ModUnban"}, nick : Nicks]
DownMessages == [type : Thrown \cup {"JoinSuccess", "JoinSuccessAsMod", "RoomInformation"},
                 nicks : SUBSET Nicks]
Links == [room : {"none", "up", "closing"}, client : {"none", "up"},
          up : Seq(UpMessages), down : Seq(DownMessages), upBye : BOOLEAN, downBye : BOOLEAN]

TypeOK ==
    /\ link \in [Peers -> Links]
    /\ isOpen \in BOOLEAN
    /\ members \in Seq(Peers)
    /\ banned \subseteq Nicks
    /\ state \in [Nicks -> InRoom \cup {"Idle", "Joining"}]
    /\ user \in [Nicks -> {"free", "leaving", "rejoining"}]
    /\ loop \in [Nicks -> {"none", "running", "body", "ended"}]
    /\ sendList \in [Nicks -> Seq(UpMessages)]
    /\ known \in [Nicks -> SUBSET Nicks]
    /\ undone \in [Nicks -> BOOLEAN]
    /\ calls \in 0..MaxCalls

(* The list of a room holds a player once, through one connection that the *)
(* room still has, and never more than it has slots: a player that comes   *)
(* back over a new connection while the room has not seen the old one end  *)
(* must wait for it (IsValidNickname, HandleClientDisconnection).  And a   *)
(* member whose player is gone is about to leave the list: the room has a  *)
(* disconnection to handle.                                                *)
MembersExact ==
    /\ Len(members) <= Slots
    /\ Cardinality(NicksOf(members)) = Len(members)
    /\ \A p \in Members : Connected(p) /\ Nick(p) \notin banned
    /\ \A p \in Members : link[p].client = "none" => link[p].upBye

(* The assertion of MemberLoop: when JoinSuccess is handled the player has *)
(* the member list, and finds itself on it.                                *)
JoinAssert ==
    \A n \in Nicks : \A p \in Open(n) :
        /\ link[p].down # <<>>
        /\ Head(link[p].down).type \in {"JoinSuccess", "JoinSuccessAsMod"}
        => n \in known[n]

(* What the player has, or last gets, of the room's list. *)
LastKnown(p) ==
    LET down == link[p].down
        infos == {i \in 1..Len(down) : down[i].type = "RoomInformation"}
    IN  IF infos = {} THEN known[Nick(p)]
        ELSE down[CHOOSE i \in infos : \A j \in infos : j <= i].nicks

(* Every change of the list is broadcast: a member whose connection holds  *)
(* has the room's list once it has handled what is on its way.             *)
ListConverges ==
    \A p \in Members :
        link[p].client = "up" /\ ~link[p].downBye => LastKnown(p) = NicksOf(members)

(* A player that believes to be in the room is on its list, or a packet or *)
(* a disconnection that will tell it otherwise is on its way.              *)
MembershipAgrees ==
    \A n \in Nicks :
        state[n] \in InRoom =>
            \E p \in Open(n) :
                \/ p \in Members
                \/ link[p].downBye
                \/ \E i \in 1..Len(link[p].down) : link[p].down[i].type \in Thrown

(* A player's request to join is answered, unless the connection is lost   *)
(* first: then MemberLoop ignores the event and the player stays Joining.  *)
JoinAnswered == \A n \in Nicks : state[n] = "Joining" ~> state[n] # "Joining" \/ Open(n) = {}

(* Leave ends the loop thread and returns, unless the loop was handling    *)
(* the answer to the join: its SetState(Joined) undoes Leave's             *)
(* SetState(Idle), and Leave blocks for as long as the player is in the    *)
(* room.                                                                   *)
LeaveEnds ==
    \A n \in Nicks : user[n] \in {"leaving", "rejoining"} ~>
        user[n] = "free" \/ loop[n] = "ended" \/ undone[n]

=============================================================================
