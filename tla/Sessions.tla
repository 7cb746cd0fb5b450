------------------------------ MODULE Sessions ------------------------------
(***************************************************************************)
(* IPC between processes: ports, sessions and svcReplyAndReceive           *)
(* (client_port.cpp, server_port.cpp, client_session.cpp,                  *)
(* server_session.cpp, svc.cpp).  Clients call svcSendSyncRequest and      *)
(* sleep in WaitIPC; server threads take requests one at a time per        *)
(* session and reply.  Sessions of a HLE service are answered by the       *)
(* emulator itself after a delay.                                          *)
(*                                                                         *)
(* The contents of requests and their translation are left out.  Which of  *)
(* several server threads of one priority is woken is left open.  A server *)
(* end lives while a thread waits on it: closing it is modelled when the   *)
(* last of them is gone.  A session whose two ends are gone is used again. *)
(* The port of the server lives as long as its client port, which the      *)
(* kernel keeps by name: a session that nobody accepts stays queued.       *)
(***************************************************************************)
EXTENDS Integers, Sequences, FiniteSets, Functions

CONSTANTS
    Clients, Servers,   \* threads
    Mortal,             \* those that may be stopped
    Ids,                \* the sessions
    MaxSessions,        \* max_sessions of each port
    None

Threads == Clients \cup Servers
Ports == {"lle", "hle"}

ASSUME SessionsAssumption ==
    /\ Clients \cap Servers = {} /\ None \notin Clients \cup Servers \cup Ids \cup Ports
    /\ "port" \notin Ids /\ Mortal \subseteq Threads
    /\ MaxSessions \in [Ports -> Nat \ {0}]

VARIABLES
    status,            \* of every thread
    wait_objects,      \* of the server threads; the port is "port"
    client,            \* whether the client end of a session exists
    server,            \* its server end: gone, in pending_sessions, with a handle, or
                       \* kept by a HLE handler
    port,              \* the port a session was made at, None for svcCreateSession
    pending_requesting_threads,
    currently_handling,
    pending_sessions,  \* of the port of the LLE server
    active_sessions,   \* of each port
    timer,             \* the clients with a wakeup event
    orphans,           \* history: clients whose request was dropped with an end
    missed             \* history: sessions that became ready by a reply while
                       \* another thread waited on them

threadVars == <<status, wait_objects, timer>>
portVars == <<pending_sessions, active_sessions>>
sessionVars == <<client, server, port, pending_requesting_threads, currently_handling>>
vars == <<threadVars, portVars, sessionVars, orphans, missed>>

Unused(s) == ~client[s] /\ server[s] = "gone"
Listed(s) == Range(pending_requesting_threads[s])
Held(s) == Listed(s) \cup ({currently_handling[s]} \ {None})
Waiting(o) == {t \in Servers : status[t] = "WaitSynchAny" /\ o \in wait_objects[t]}

TypeOK ==
    /\ \A c \in Clients : status[c] \in {"Running", "WaitIPC", "Dead"}
    /\ \A t \in Servers : /\ status[t] \in {"Running", "WaitSynchAny", "Dead"}
                          /\ wait_objects[t] \subseteq Ids \cup {"port"}
    /\ client \in [Ids -> BOOLEAN]
    /\ server \in [Ids -> {"gone", "queued", "open", "handler"}]
    /\ port \in [Ids -> Ports \cup {None}]
    /\ currently_handling \in [Ids -> Clients \cup {None}]
    /\ \A s \in Ids : Listed(s) \subseteq Clients
    /\ Range(pending_sessions) = {s \in Ids : server[s] = "queued"}
    /\ active_sessions \in [Ports -> Nat] /\ \A p \in Ports : active_sessions[p] <= MaxSessions[p]
    /\ timer \subseteq Clients /\ orphans \subseteq Clients /\ missed \subseteq Ids

Init ==
    /\ status = [t \in Threads |-> "Running"]
    /\ wait_objects = [t \in Servers |-> {}]
    /\ client = [s \in Ids |-> FALSE]
    /\ server = [s \in Ids |-> "gone"]
    /\ port = [s \in Ids |-> None]
    /\ pending_requesting_threads = [s \in Ids |-> << >>]
    /\ currently_handling = [s \in Ids |-> None]
    /\ pending_sessions = << >>
    /\ active_sessions = [p \in Ports |-> 0]
    /\ timer = {} /\ orphans = {} /\ missed = {}

-----------------------------------------------------------------------------
(* The newest of a list, and the others: both kinds of pending lists are    *)
(* stacks.                                                                  *)
Newest(q) == q[Len(q)]
Older(q) == SubSeq(q, 1, Len(q) - 1)

(* Faulty variant: a thread that was stopped is resumed as well. *)
SleepAndResumeRevives(C, R) ==
    /\ status' = [t \in Threads |-> IF t \in C THEN "WaitIPC"
                                    ELSE IF t \in R THEN "Running" ELSE status[t]]
    /\ wait_objects' = [t \in Servers |-> IF t \in R THEN {} ELSE wait_objects[t]]

(* The threads in C sleep in WaitIPC, those in R go on: ResumeFromWait      *)
(* leaves a thread alone that was stopped, and a debug build fails an       *)
(* assertion there.                                                         *)
SleepAndResume(C, R) ==
    /\ status' = [t \in Threads |-> IF t \in C THEN "WaitIPC"
                                    ELSE IF t \in R /\ status[t] # "Dead" THEN "Running"
                                    ELSE status[t]]
    /\ wait_objects' = [t \in Servers |-> IF t \in R THEN {} ELSE wait_objects[t]]

(* CreateSessionPair; the rest of the session is as the last one left it. *)
NewSession(s, p, end) ==
    /\ Unused(s)
    /\ client' = [client EXCEPT ![s] = TRUE]
    /\ server' = [server EXCEPT ![s] = end]
    /\ port' = [port EXCEPT ![s] = p]
    /\ UNCHANGED <<pending_requesting_threads, currently_handling, timer, orphans, missed>>

(* svcConnectToPort and svcCreateSessionToPort: ClientPort::Connect.  A HLE *)
(* service keeps the server end, a LLE server finds it in pending_sessions. *)
Connect(c, s, p) ==
    /\ status[c] = "Running"
    /\ active_sessions[p] < MaxSessions[p]
    /\ active_sessions' = [active_sessions EXCEPT ![p] = @ + 1]
    /\ NewSession(s, p, IF p = "hle" THEN "handler" ELSE "queued")
    /\ IF p = "hle"
       THEN UNCHANGED <<pending_sessions, status, wait_objects>>
       ELSE /\ pending_sessions' = Append(pending_sessions, s)
            /\ SleepAndResume({}, Waiting("port"))

(* svcCreateSession of a server thread: a session without a port, whose     *)
(* client end it hands out.                                                 *)
CreateSession(t, s) ==
    /\ status[t] = "Running"
    /\ NewSession(s, None, "open")
    /\ UNCHANGED <<portVars, status, wait_objects>>

(* svcAcceptSession. *)
Accept(t) ==
    /\ status[t] = "Running" /\ pending_sessions # << >>
    /\ server' = [server EXCEPT ![Newest(pending_sessions)] = "open"]
    /\ pending_sessions' = Older(pending_sessions)
    /\ UNCHANGED <<threadVars, active_sessions, client, port, pending_requesting_threads,
                   currently_handling, orphans, missed>>

(* Faulty variant: the server threads that wait are not woken. *)
SendSyncRequestNoWakeup(c, s) ==
    /\ status[c] = "Running" /\ client[s] /\ server[s] \in {"queued", "open"}
    /\ SleepAndResume({c}, {})
    /\ pending_requesting_threads' = [pending_requesting_threads EXCEPT ![s] = Append(@, c)]
    /\ UNCHANGED <<portVars, client, server, port, currently_handling, timer, orphans, missed>>

(* svcSendSyncRequest to a LLE server: HandleSyncRequest, and a waiting     *)
(* thread takes the request unless another one is being handled.            *)
SendSyncRequest(c, s) ==
    LET q == Append(pending_requesting_threads[s], c)
        taken == currently_handling[s] = None /\ Waiting(s) # {}
    IN  /\ status[c] = "Running" /\ client[s] /\ server[s] \in {"queued", "open"}
        /\ \E w \in IF taken THEN Waiting(s) ELSE {None} : SleepAndResume({c}, {w})
        /\ pending_requesting_threads' =
              [pending_requesting_threads EXCEPT ![s] = IF taken THEN Older(q) ELSE q]
        /\ currently_handling' =
              [currently_handling EXCEPT ![s] = IF taken THEN Newest(q) ELSE @]
        /\ missed' = IF taken THEN missed \ {s} ELSE missed
        /\ UNCHANGED <<portVars, client, server, port, timer, orphans>>

(* svcSendSyncRequest to a HLE service that answers at once: the caller     *)
(* sleeps for a fixed delay (the others: HleAsync).                         *)
SendHleRequest(c, s) ==
    /\ status[c] = "Running" /\ client[s] /\ server[s] = "handler"
    /\ SleepAndResume({c}, {})
    /\ timer' = timer \cup {c}
    /\ UNCHANGED <<portVars, sessionVars, orphans, missed>>

HleDelayEnds(c) ==
    /\ c \in timer
    /\ SleepAndResume({}, {c})
    /\ timer' = timer \ {c}
    /\ UNCHANGED <<portVars, sessionVars, orphans, missed>>

-----------------------------------------------------------------------------
(* A reply to a session without a request changes nothing and ends the call. *)
CanReply(t, target) ==
    /\ status[t] = "Running"
    /\ target # None => server[target] = "open" /\ currently_handling[target] # None

Answered(target) == IF target = None THEN {} ELSE {currently_handling[target]}
Handling(target) == [s \in Ids |-> IF s = target THEN None ELSE currently_handling[s]]

(* ~ShouldWait once the reply was sent. *)
Ready(s, target) ==
    ~client[s] \/ (pending_requesting_threads[s] # << >> /\ Handling(target)[s] = None)

Open == {s \in Ids : server[s] = "open"}

(* A reply leaves a request for another thread, which is not woken. *)
Missed(target) == {s \in {target} \cap Ids : pending_requesting_threads[s] # << >> /\ Waiting(s) # {}}

(* svcReplyAndReceive with no handles, or when the port is the first that   *)
(* is ready.                                                                *)
Reply(t, target) ==
    /\ target # None /\ CanReply(t, target)
    /\ SleepAndResume({}, Answered(target))
    /\ currently_handling' = Handling(target)
    /\ missed' = missed \cup Missed(target)
    /\ UNCHANGED <<portVars, client, server, port, pending_requesting_threads, timer, orphans>>

(* svcReplyAndReceive when session s is the first that is ready: its newest *)
(* request is taken, or the call tells that the client end is closed.       *)
Receive(t, target, s) ==
    /\ CanReply(t, target)
    /\ s \in Open /\ Ready(s, target)
    /\ SleepAndResume({}, Answered(target))
    /\ IF client[s]
       THEN /\ currently_handling' =
                  [Handling(target) EXCEPT ![s] = Newest(pending_requesting_threads[s])]
            /\ pending_requesting_threads' = [pending_requesting_threads EXCEPT ![s] = Older(@)]
       ELSE /\ currently_handling' = Handling(target)
            /\ UNCHANGED pending_requesting_threads
    /\ missed' = (missed \cup Missed(target)) \ {s}
    /\ UNCHANGED <<portVars, client, server, port, timer, orphans>>

(* Faulty variant: the thread is added to the first object only. *)
WaitOnFirst(t, target) ==
    /\ CanReply(t, target)
    /\ pending_sessions = << >> /\ \A s \in Open : ~Ready(s, target)
    /\ status' = [u \in Threads |->
                     IF u = t THEN "WaitSynchAny"
                     ELSE IF u \in Answered(target) /\ status[u] # "Dead" THEN "Running"
                     ELSE status[u]]
    /\ wait_objects' = [wait_objects EXCEPT ![t] = {"port"}]
    /\ currently_handling' = Handling(target)
    /\ UNCHANGED <<portVars, client, server, port, pending_requesting_threads, timer,
                   orphans, missed>>

(* svcReplyAndReceive when nothing is ready: the thread waits on all.       *)
Wait(t, target) ==
    /\ CanReply(t, target)
    /\ pending_sessions = << >> /\ \A s \in Open : ~Ready(s, target)
    /\ status' = [u \in Threads |->
                     IF u = t THEN "WaitSynchAny"
                     ELSE IF u \in Answered(target) /\ status[u] # "Dead" THEN "Running"
                     ELSE status[u]]
    /\ wait_objects' = [wait_objects EXCEPT ![t] = Open \cup {"port"}]
    /\ currently_handling' = Handling(target)
    /\ UNCHANGED <<portVars, client, server, port, pending_requesting_threads, timer,
                   orphans, missed>>

-----------------------------------------------------------------------------
(* Faulty variant: the request that is being handled is kept. *)
DropPendingOnly(s) ==
    /\ pending_requesting_threads' = [pending_requesting_threads EXCEPT ![s] = << >>]
    /\ orphans' = orphans \cup {c \in Held(s) : status[c] = "WaitIPC"}
    /\ missed' = missed \ {s}
    /\ UNCHANGED <<timer, currently_handling>>

(* The requests of s are forgotten with an end of it; nobody wakes the      *)
(* callers.                                                                 *)
Drop(s) ==
    /\ pending_requesting_threads' = [pending_requesting_threads EXCEPT ![s] = << >>]
    /\ currently_handling' = [currently_handling EXCEPT ![s] = None]
    /\ orphans' = orphans \cup {c \in Held(s) : status[c] = "WaitIPC"}
    /\ missed' = missed \ {s}
    /\ UNCHANGED timer

(* Faulty variant: a server end that goes does not free its place. *)
ConnectionClosedNever(s) == UNCHANGED active_sessions

(* ClientPort::ConnectionClosed, in the destructor of ServerSession. *)
ConnectionClosed(s) ==
    active_sessions' = [p \in Ports |-> IF p = port[s] THEN active_sessions[p] - 1
                                                      ELSE active_sessions[p]]

(* The last handle of the client end is closed: ClientSession's destructor, *)
(* which wakes the server, or disconnects from the HLE service.             *)
CloseClient(s) ==
    /\ client[s]
    /\ client' = [client EXCEPT ![s] = FALSE]
    /\ Drop(s)
    /\ SleepAndResume({}, Waiting(s))
    /\ IF server[s] = "handler"
       THEN server' = [server EXCEPT ![s] = "gone"] /\ ConnectionClosed(s)
       ELSE UNCHANGED <<server, active_sessions>>
    /\ UNCHANGED <<pending_sessions, port>>

(* The last reference to the server end is gone: ServerSession's destructor. *)
CloseServer(s) ==
    /\ server[s] = "open" /\ Waiting(s) = {}
    /\ server' = [server EXCEPT ![s] = "gone"]
    /\ ConnectionClosed(s)
    /\ Drop(s)
    /\ UNCHANGED <<status, wait_objects, pending_sessions, client, port>>

(* A thread is stopped, by itself or with its process: Stop cancels its     *)
(* event and takes it off the objects it waits on, but a request of it      *)
(* stays with the session, and so does one that it was handling.            *)
Kill(t) ==
    /\ status[t] # "Dead"
    /\ status' = [status EXCEPT ![t] = "Dead"]
    /\ wait_objects' = [u \in Servers |-> IF u = t THEN {} ELSE wait_objects[u]]
    /\ timer' = timer \ {t}
    /\ UNCHANGED <<portVars, sessionVars, orphans, missed>>

Next ==
    \/ \E c \in Clients, s \in Ids :
          \/ \E p \in Ports : Connect(c, s, p)
          \/ SendSyncRequest(c, s)
          \/ SendHleRequest(c, s)
    \/ \E c \in Clients : HleDelayEnds(c)
    \/ \E t \in Mortal : Kill(t)
    \/ \E t \in Servers, s \in Ids : CreateSession(t, s)
    \/ \E t \in Servers :
          \/ Accept(t)
          \/ \E target \in Ids \cup {None} :
                \/ Reply(t, target)
                \/ \E s \in Ids : Receive(t, target, s)
                \/ Wait(t, target)
    \/ \E s \in Ids : CloseClient(s) \/ CloseServer(s)

(* A server thread goes on with something that is ready, in the order of    *)
(* its handles, which nothing is assumed of; and it closes a session that   *)
(* it is told is closed.                                                    *)
Fairness ==
    /\ \A t \in Servers :
          WF_vars(Accept(t) \/ \E target \in Ids \cup {None}, s \in Ids : Receive(t, target, s))
    /\ \A s \in Ids : WF_vars(~client[s] /\ CloseServer(s))

Spec == Init /\ [][Next]_vars /\ Fairness

-----------------------------------------------------------------------------
(* A client that sleeps in WaitIPC is held by exactly one session, once, as *)
(* pending or as handled, and the session has both ends; or its delay runs; *)
(* or its session lost an end.  One that runs is held by none: no request   *)
(* is answered twice, and no reply reaches a thread that does not wait.     *)
(* One that was stopped is in one place at most, so that one reply at most  *)
(* is still sent to it.                                                     *)
RequestTracked ==
    \A c \in Clients :
        LET at == {s \in Ids : c \in Held(s)}
            reasons == {<<"session", s>> : s \in at}
                       \cup {<<"timer", c>> : x \in {c} \cap timer}
                       \cup {<<"orphan", c>> : x \in {c} \cap orphans}
        IN  /\ status[c] = "WaitIPC" => Cardinality(reasons) = 1
            /\ status[c] = "Running" => reasons = {}
            /\ status[c] = "Dead" => Cardinality(reasons) <= 1
            /\ \A s \in at : /\ client[s] /\ server[s] \in {"queued", "open"}
                             /\ currently_handling[s] = c => c \notin Listed(s)
                             /\ Cardinality({i \in DOMAIN pending_requesting_threads[s] :
                                    pending_requesting_threads[s][i] = c}) <= 1

(* Every server end occupies a place of its port, from Connect until it is  *)
(* destroyed, whoever closes first: a port neither runs out of places nor   *)
(* admits more than max_sessions, and ConnectionClosed never underflows.    *)
SessionsCounted ==
    \A p \in Ports :
        active_sessions[p] = Cardinality({s \in Ids : server[s] # "gone" /\ port[s] = p})

(* No server thread sleeps on a session or port that is ready, except for   *)
(* one: if another server thread replies on the session, the request that   *)
(* waits behind wakes nobody.                                               *)
NoLostWakeup ==
    \A t \in Servers : status[t] = "WaitSynchAny" =>
        /\ pending_sessions = << >>
        /\ \A s \in wait_objects[t] \cap Ids : Ready(s, None) => s \in missed

(* Where the request of each client is, and at which session.  A caller     *)
(* that sleeps and is found nowhere is "lost".                              *)
RequestState ==
    [c \in Clients |->
        IF status[c] = "Dead" THEN "gone"
        ELSE IF status[c] = "Running" THEN "none"
        ELSE IF c \in orphans THEN "dropped"
        ELSE IF c \in timer THEN "hle"
        ELSE IF \E s \in Ids : c \in Listed(s) THEN "asked"
        ELSE IF \E s \in Ids : currently_handling[s] = c THEN "taken"
        ELSE "lost"]

RequestAt ==
    [c \in Clients |->
        IF \E s \in Ids : c \in Held(s) THEN CHOOSE s \in Ids : c \in Held(s) ELSE None]

Ended == {s \in Ids : ~client[s] \/ server[s] = "gone"}

(* Sessions keep the promise of svcSendSyncRequest. *)
Requests == INSTANCE RequestReply WITH state <- RequestState, at <- RequestAt, ended <- Ended

(* A request is taken by one server at a time and answered only after that, *)
(* by a reply on its session; it waits at no session that has lost an end;  *)
(* no caller sleeps that no one knows of; and a reply to a caller that was  *)
(* stopped does not bring it back.                                          *)
ImplementsRequests == Requests!Spec

(* A client makes a session or a request or closes its end, and a time      *)
(* after which none does.                                                   *)
ClientActs ==
    \/ client' # client
    \/ \E c \in Clients : status[c] = "Running" /\ status'[c] = "WaitIPC"
Quiet == <>[][~ClientActs]_vars

(* Once the clients are quiet, every request that waits at a session is     *)
(* followed by one that is taken, unless a server thread was stopped: the   *)
(* servers do not all fall asleep over a request, however sends, replies,   *)
(* connections and closed ends interleaved before.  While clients go on, a  *)
(* session can starve behind newer connections and earlier handles.  If the *)
(* thread that replied is stopped, the others may sleep on (NoLostWakeup).  *)
RequestsTaken ==
    Quiet => \A s \in Ids : pending_requesting_threads[s] # << >>
                 ~> \/ currently_handling[s] # None \/ pending_requesting_threads[s] = << >>
                    \/ \E t \in Servers : status[t] = "Dead"
=============================================================================
