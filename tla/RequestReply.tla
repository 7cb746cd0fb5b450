---------------------------- MODULE RequestReply ----------------------------
(***************************************************************************)
(* What svcSendSyncRequest promises (server_session.h): a request waits at *)
(* its session until the server takes it, one at a time, and the caller    *)
(* goes on once the server has replied.  When a session loses an end, the  *)
(* callers that wait there are told so, as the comment in ~ServerSession   *)
(* has it, or left asleep, as the code has it: both are allowed.  A caller *)
(* that is stopped stays so.                                               *)
(***************************************************************************)
CONSTANTS Clients, None

VARIABLES
    state,   \* of the request of each client
    at,      \* the session it is made at
    ended    \* the sessions that lack an end

requestVars == <<state, at, ended>>

AtSession == {"asked", "taken"}
Waiting == AtSession \cup {"hle"}
States == Waiting \cup {"none", "dropped", "gone"}

(* What a request does at a session with two ends, and at one that ends. *)
Moves == {<<"none", "asked">>, <<"none", "taken">>, <<"asked", "taken">>, <<"taken", "none">>,
          <<"none", "hle">>, <<"hle", "none">>}
         \cup {<<s, "gone">> : s \in States}
EndMoves == {<<s, r>> : s \in AtSession, r \in {"none", "dropped"}}

Init ==
    /\ state = [c \in Clients |-> "none"]
    /\ at = [c \in Clients |-> None]

Did(from, to) == {c \in Clients : state[c] = from /\ state'[c] = to}
AtMostOne(S) == \A c, d \in S : c = d

(* One step of a caller, of the server or of the one who closes an end. *)
Next ==
    /\ \A c \in Clients : state[c] # state'[c] =>
          \/ <<state[c], state'[c]>> \in Moves
          \/ at[c] \in ended' /\ <<state[c], state'[c]>> \in EndMoves
    /\ \A c \in Clients : state[c] \in Waiting /\ state'[c] \in Waiting => at'[c] = at[c]
    /\ \A c \in Clients : state'[c] \in AtSession => at'[c] \notin ended'
    /\ \A c, d \in Clients : c # d /\ state'[c] = "taken" /\ state'[d] = "taken"
                             => at'[c] # at'[d]
    /\ AtMostOne({c \in Did("taken", "none") : at[c] \notin ended'})
    /\ AtMostOne(Did("asked", "taken") \cup Did("none", "taken"))

Spec == Init /\ [][Next]_requestVars
=============================================================================
