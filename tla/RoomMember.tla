---------------------------- MODULE RoomMember ----------------------------
(***************************************************************************)
(* The players' side (network/room_member.cpp).  Each player has a user    *)
(* thread, which joins, leaves and moderates, and while it is in a room a  *)
(* loop thread that owns the connection; they share state and send_list.   *)
(***************************************************************************)
EXTENDS EnetLinks

CONSTANTS
    ModRequests,   \* the moderation requests a player may make: their type and target
    MaxCalls       \* bound: the connections made and the requests of all players

ASSUME MemberAssumption ==
    /\ ModRequests \subseteq [type : {"ModKick", "ModBan", "ModUnban"}, nick : Nicks]
    /\ MaxCalls \in Nat

VARIABLES
    state,      \* state
    user,       \* "free", or in Leave ("leaving"), or in the Leave of a Join ("rejoining")
    loop,       \* loop_thread: "none", "running", past its test of the state ("body") or "ended"
    sendList,   \* send_list
    known,      \* member_information, by nickname
    undone,     \* history: the loop thread went back into the room during this Leave
    calls       \* connections made by Join, and moderation requests, so far

memberVars == <<state, user, loop, sendList, known, undone, calls>>
userVars == <<user, calls>>

InRoom == {"Joined", "Moderator"}
IsConnected(n) == state[n] \in InRoom \cup {"Joining"}

(* Packets to the room; nick is the target of a moderation request. *)
JoinRequest(n) == [type |-> "JoinRequest", nick |-> n]

Thrown == {"Refused", "CloseRoom", "HostKicked", "HostBanned"}

-----------------------------------------------------------------------------
(* Faulty variant: Leave waits for the loop without telling it to end. *)
LeavingNoState(n) == UNCHANGED <<state, loop>>

(* Faulty variant: a lost connection is not noticed in the room either. *)
StateLostStays(n) == state[n]

(* The tail of Join once enet has answered: StartLoop and SendJoinRequest. *)
Connects(n, p) ==
    /\ link[p] = Free
    /\ link' = ConnectedLink(link, p)
    /\ state' = [state EXCEPT ![n] = "Joining"]
    /\ loop' = [loop EXCEPT ![n] = "running"]
    /\ sendList' = [sendList EXCEPT ![n] = Append(@, JoinRequest(n))]
    /\ calls' = calls + 1

(* CouldNotConnect: no answer in ConnectionTimeoutMs. *)
CannotConnect(n) ==
    /\ state' = [state EXCEPT ![n] = "Idle"]
    /\ loop' = [loop EXCEPT ![n] = "none"]
    /\ UNCHANGED <<link, sendList, calls>>

(* SetState(Idle) at the start of Leave.  The loop thread may be past its  *)
(* test of the state: then it goes through one more iteration.             *)
Leaving(n) ==
    /\ state' = [state EXCEPT ![n] = "Idle"]
    /\ \/ loop' = loop
       \/ loop[n] = "running" /\ IsConnected(n) /\ loop' = [loop EXCEPT ![n] = "body"]

(* Join with a loop thread that was not joined yet calls Leave first. *)
JoinLeavesFirst(n) ==
    /\ user[n] = "free"
    /\ loop[n] # "none"
    /\ calls < MaxCalls
    /\ Leaving(n)
    /\ user' = [user EXCEPT ![n] = "rejoining"]
    /\ UNCHANGED <<link, sendList, known, undone, calls>>

(* The rest of Join; room says whether the room has a peer to give. *)
JoinConnects(n, room) ==
    /\ \/ user[n] = "free" /\ loop[n] = "none"
       \/ user[n] = "rejoining" /\ loop[n] = "ended"
    /\ calls < MaxCalls
    /\ \/ /\ room
          /\ \E p \in Peers : p = FirstFree(n) /\ Connects(n, p)
       \/ CannotConnect(n)
    /\ user' = [user EXCEPT ![n] = "free"]
    /\ undone' = [undone EXCEPT ![n] = FALSE]
    /\ UNCHANGED known

Leave(n) ==
    /\ user[n] = "free"
    /\ loop[n] # "none"
    /\ Leaving(n)
    /\ user' = [user EXCEPT ![n] = "leaving"]
    /\ UNCHANGED <<link, sendList, known, undone, calls>>

(* Leave goes on once the loop thread has ended. *)
LeaveReturns(n) ==
    /\ user[n] = "leaving"
    /\ loop[n] = "ended"
    /\ user' = [user EXCEPT ![n] = "free"]
    /\ loop' = [loop EXCEPT ![n] = "none"]
    /\ undone' = [undone EXCEPT ![n] = FALSE]
    /\ UNCHANGED <<link, state, sendList, known, calls>>

SendModerationRequest(n, request) ==
    /\ user[n] = "free"
    /\ IsConnected(n)
    /\ calls < MaxCalls
    /\ sendList' = [sendList EXCEPT ![n] = Append(@, request)]
    /\ calls' = calls + 1
    /\ UNCHANGED <<link, state, user, loop, known, undone>>

-----------------------------------------------------------------------------
(* Disconnect: the room is told; what still arrives is ignored. *)
Disconnect(n) ==
    /\ known' = [known EXCEPT ![n] = {}]
    /\ link' = ClientEnds(link, Open(n), TRUE)
    /\ loop' = [loop EXCEPT ![n] = "ended"]

(* The loop's test of the state, and the iteration it lets through. *)
InBody(n) == loop[n] = "body" \/ (loop[n] = "running" /\ IsConnected(n))

LoopExits(n) ==
    /\ loop[n] = "running"
    /\ ~IsConnected(n)
    /\ Disconnect(n)
    /\ UNCHANGED <<state, sendList, undone, userVars>>

(* The end of an iteration sends what the user thread has queued. *)
Sends(n, l) ==
    /\ link' = SentUp(l, {p \in Open(n) : l[p].client = "up"}, sendList[n])
    /\ sendList' = [sendList EXCEPT ![n] = <<>>]
    /\ loop' = [loop EXCEPT ![n] = "running"]

(* What a packet makes of the state, whatever the user thread set meanwhile. *)
StateAfter(n, msg) ==
    CASE msg.type = "JoinSuccess" -> "Joined"
      [] msg.type = "JoinSuccessAsMod" -> "Moderator"
      [] msg.type \in Thrown -> "Idle"
      [] OTHER -> state[n]

LoopReceives(n) ==
    /\ InBody(n)
    /\ \E p \in Open(n) :
         /\ link[p].down # <<>>
         /\ LET msg == Head(link[p].down) IN
              /\ state' = [state EXCEPT ![n] = StateAfter(n, msg)]
              /\ known' = IF msg.type = "RoomInformation"
                          THEN [known EXCEPT ![n] = msg.nicks] ELSE known
         /\ Sends(n, [link EXCEPT ![p].down = Tail(@)])
    /\ undone' = [undone EXCEPT ![n] = @ \/ (user[n] # "free" /\ state'[n] \in InRoom)]
    /\ UNCHANGED userVars

(* A disconnection is not noticed while the player is still joining. *)
StateLost(n) == IF state[n] \in InRoom THEN "Idle" ELSE state[n]

LoopDisconnected(n) ==
    /\ InBody(n)
    /\ \E p \in Open(n) :
         /\ link[p].downBye
         /\ state' = [state EXCEPT ![n] = StateLost(n)]
         /\ Sends(n, ClientEnds(link, {p}, FALSE))
    /\ UNCHANGED <<known, undone, userVars>>

(* Nothing arrives within the 16 ms of enet_host_service. *)
LoopIdles(n) ==
    /\ InBody(n)
    /\ Sends(n, link)
    /\ UNCHANGED <<state, known, undone, userVars>>

MemberLoop(n) == LoopExits(n) \/ LoopReceives(n) \/ LoopDisconnected(n) \/ LoopIdles(n)

MemberInit(moderators) ==
    /\ state = [n \in Nicks |-> IF n \in moderators THEN "Moderator" ELSE "Idle"]
    /\ user = [n \in Nicks |-> "free"]
    /\ loop = [n \in Nicks |-> IF n \in moderators THEN "running" ELSE "none"]
    /\ sendList = [n \in Nicks |-> <<>>]
    /\ known = [n \in Nicks |-> IF n \in moderators THEN moderators ELSE {}]
    /\ undone = [n \in Nicks |-> FALSE]
    /\ calls = 0
=============================================================================
