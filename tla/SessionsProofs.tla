--------------------------- MODULE SessionsProofs ---------------------------
(***************************************************************************)
(* Proofs about Sessions, for any clients, server threads and sessions,    *)
(* any max_sessions of the ports and any threads that may be stopped.      *)
(*                                                                         *)
(* The inductive invariant looks at one session, one client and one server *)
(* thread at a time: what a session's lists may hold (SessionInv), why a   *)
(* client sleeps (ClientInv) and what a sleeping server thread may be left *)
(* waiting on (ServerInv).  QueueInv and PlacesInv count the sessions of   *)
(* the ports.                                                              *)
(***************************************************************************)
EXTENDS Sessions, QueueLemmas, FiniteSetTheorems

(* The types of the variables. *)
TypeInv ==
    /\ status \in [Threads -> {"Running", "WaitIPC", "WaitSynchAny", "Dead"}]
    /\ wait_objects \in [Servers -> SUBSET (Ids \cup {"port"})]
    /\ client \in [Ids -> BOOLEAN]
    /\ server \in [Ids -> {"gone", "queued", "open", "handler"}]
    /\ port \in [Ids -> Ports \cup {None}]
    /\ pending_requesting_threads \in [Ids -> Seq(Clients)]
    /\ currently_handling \in [Ids -> Clients \cup {None}]
    /\ active_sessions \in [Ports -> Int]
    /\ timer \subseteq Clients /\ orphans \subseteq Clients /\ missed \subseteq Ids

StatusInv ==
    /\ \A c \in Clients : status[c] # "WaitSynchAny"
    /\ \A t \in Servers : status[t] # "WaitIPC"

Queued == {s \in Ids : server[s] = "queued"}
QueueInv == Holds(pending_sessions, Ids, Queued)

Places(p) == {s \in Ids : server[s] # "gone" /\ port[s] = p}
PlacesInv ==
    \A p \in Ports : /\ IsFiniteSet(Places(p))
                     /\ active_sessions[p] = Cardinality(Places(p))
                     /\ active_sessions[p] <= MaxSessions[p]

SessionInv(s) ==
    /\ Holds(pending_requesting_threads[s], Clients, Listed(s))
    /\ currently_handling[s] \notin Listed(s)
    /\ Held(s) # {} => client[s] /\ server[s] \in {"queued", "open"}

ClientInv(c) ==
    /\ \A r, s \in Ids : c \in Held(r) /\ c \in Held(s) => r = s
    /\ \A s \in Ids : c \in Held(s) => c \notin timer /\ c \notin orphans /\ status[c] # "Running"
    /\ c \in timer => c \notin orphans /\ status[c] = "WaitIPC"
    /\ c \in orphans => status[c] # "Running"
    /\ status[c] = "WaitIPC" => c \in timer \/ c \in orphans \/ \E s \in Ids : c \in Held(s)

ServerInv(t) ==
    status[t] = "WaitSynchAny" =>
        /\ "port" \in wait_objects[t]
        /\ pending_sessions = << >>
        /\ \A s \in wait_objects[t] \cap Ids :
              /\ client[s] /\ server[s] = "open"
              /\ pending_requesting_threads[s] # << >> /\ currently_handling[s] = None
                     => s \in missed

IInv ==
    /\ TypeInv
    /\ StatusInv
    /\ QueueInv
    /\ PlacesInv
    /\ \A s \in Ids : SessionInv(s)
    /\ \A c \in Clients : ClientInv(c)
    /\ \A t \in Servers : ServerInv(t)

-----------------------------------------------------------------------------
(* Lists that are used as stacks *)

LEMMA NewestOlder ==
    ASSUME NEW q, NEW T, NEW S, Holds(q, T, S), q # << >>
    PROVE  /\ Newest(q) \in S /\ Newest(q) \in T
           /\ Older(q) \in Seq(T)
           /\ Holds(Older(q), T, S \ {Newest(q)})
  <1> DEFINE n == Len(q)
             r == SubSeq(q, 1, n - 1)
  <1>1. q \in Seq(T) /\ n \in Nat /\ n > 0
    BY DEF Holds
  <1>2. /\ r \in Seq(T) /\ Len(r) = n - 1
        /\ \A i \in 1 .. n - 1 : r[i] = q[i]
    <2>1. n - 1 \in Int /\ \A i \in 1 .. n - 1 : q[i] \in T
      BY <1>1
    <2> HIDE DEF n
    <2>2. /\ r \in Seq(T)
          /\ Len(r) = IF 1 <= n - 1 THEN (n - 1) - 1 + 1 ELSE 0
          /\ \A i \in 1 .. (n - 1) - 1 + 1 : r[i] = q[1 + i - 1]
      BY <2>1, SubSeqProperties
    <2> HIDE DEF r
    <2> QED BY <1>1, <2>2
  <1>3. n \in 1 .. n /\ q[n] \in T
    BY <1>1
  <1> HIDE DEF r, n
  <1>4. q[n] \in S
    BY <1>3 DEF Holds, Elements, n
  <1>5. \A i, j \in 1 .. n - 1 : r[i] = r[j] => i = j
    BY <1>1, <1>2 DEF Holds, n
  <1>6. Elements(r) = S \ {q[n]}
    <2>1. ASSUME NEW i \in 1 .. n - 1 PROVE r[i] \in S /\ r[i] # q[n]
      <3>1. i \in 1 .. n /\ i # n /\ r[i] = q[i]
        BY <1>1, <1>2
      <3> QED BY <1>3, <3>1 DEF Holds, Elements, n
    <2>2. ASSUME NEW x \in S, x # q[n] PROVE \E i \in 1 .. n - 1 : r[i] = x
      <3>1. PICK i \in 1 .. n : q[i] = x
        BY DEF Holds, Elements, n
      <3>2. i \in 1 .. n - 1
        BY <1>1, <2>2, <3>1
      <3> QED BY <1>2, <3>1, <3>2
    <2> QED BY <1>2, <2>1, <2>2 DEF Elements
  <1> QED BY <1>2, <1>3, <1>4, <1>5, <1>6 DEF Newest, Older, Holds, r, n

LEMMA PushPop ==
    ASSUME NEW T, NEW q \in Seq(T), NEW x \in T
    PROVE  Newest(Append(q, x)) = x /\ Older(Append(q, x)) = q
  BY DEF Newest, Older

(* Range, as the model has it, and Elements, as the lemmas have it. *)
LEMMA ListedElements ==
    ASSUME TypeInv, NEW s \in Ids
    PROVE  /\ Listed(s) = Elements(pending_requesting_threads[s])
           /\ pending_requesting_threads[s] \in Seq(Clients)
  <1>1. pending_requesting_threads[s] \in Seq(Clients)
    BY DEF TypeInv
  <1>2. DOMAIN pending_requesting_threads[s] = 1 .. Len(pending_requesting_threads[s])
    BY <1>1
  <1> QED BY <1>1, <1>2 DEF Listed, Range, Elements

-----------------------------------------------------------------------------
(* What the operations on requests do *)

(* svcSendSyncRequest: the request is queued or, if a thread waits and no   *)
(* other request is handled, taken at once.                                 *)
LEMMA SendEffect ==
    ASSUME TypeInv, NEW c \in Clients, NEW s \in Ids, SendSyncRequest(c, s)
    PROVE  /\ status[c] = "Running" /\ client[s] /\ server[s] \in {"queued", "open"}
           /\ UNCHANGED <<portVars, client, server, port, timer, orphans>>
           /\ \E w \in Servers \cup {None} : SleepAndResume({c}, {w})
           /\ \/ /\ pending_requesting_threads' =
                       [pending_requesting_threads EXCEPT ![s] = Append(pending_requesting_threads[s], c)]
                 /\ currently_handling' = currently_handling
                 /\ missed' = missed
                 /\ currently_handling[s] # None \/ Waiting(s) = {}
              \/ /\ pending_requesting_threads' = pending_requesting_threads
                 /\ currently_handling[s] = None
                 /\ currently_handling' = [currently_handling EXCEPT ![s] = c]
                 /\ missed' = missed \ {s}
  <1> DEFINE q == Append(pending_requesting_threads[s], c)
             taken == currently_handling[s] = None /\ Waiting(s) # {}
  <1>1. /\ status[c] = "Running" /\ client[s] /\ server[s] \in {"queued", "open"}
        /\ UNCHANGED <<portVars, client, server, port, timer, orphans>>
        /\ \E w \in IF taken THEN Waiting(s) ELSE {None} : SleepAndResume({c}, {w})
        /\ pending_requesting_threads' =
              [pending_requesting_threads EXCEPT ![s] = IF taken THEN Older(q) ELSE q]
        /\ currently_handling' =
              [currently_handling EXCEPT ![s] = IF taken THEN Newest(q) ELSE @]
        /\ missed' = IF taken THEN missed \ {s} ELSE missed
    BY DEF SendSyncRequest
  <1>2. Older(q) = pending_requesting_threads[s] /\ Newest(q) = c
    BY PushPop DEF TypeInv
  <1>3. \E w \in Servers \cup {None} : SleepAndResume({c}, {w})
    BY <1>1 DEF Waiting
  <1> HIDE DEF q
  <1>4. CASE taken
    <2>1. pending_requesting_threads' = pending_requesting_threads
      BY <1>1, <1>2, <1>4 DEF TypeInv
    <2> QED BY <1>1, <1>2, <1>3, <1>4, <2>1
  <1>5. CASE ~taken
    <2>1. currently_handling' = currently_handling
      BY <1>1, <1>5 DEF TypeInv
    <2> QED BY <1>1, <1>3, <1>5, <2>1 DEF q
  <1> QED BY <1>4, <1>5

(* svcReplyAndReceive of session s: the newest request is taken. *)
LEMMA ReceiveEffect ==
    ASSUME TypeInv, \A r \in Ids : SessionInv(r), NEW t \in Servers, NEW target \in Ids \cup {None},
           NEW s \in Ids, Receive(t, target, s), client[s]
    PROVE  LET q == pending_requesting_threads[s] IN
           /\ q # << >> /\ Handling(target)[s] = None
           /\ Newest(q) \in Listed(s) /\ Newest(q) \in Clients
           /\ Holds(Older(q), Clients, Listed(s) \ {Newest(q)})
           /\ pending_requesting_threads' = [pending_requesting_threads EXCEPT ![s] = Older(q)]
           /\ currently_handling' = [Handling(target) EXCEPT ![s] = Newest(q)]
  <1>1. pending_requesting_threads[s] # << >> /\ Handling(target)[s] = None
    BY DEF Receive, Ready
  <1>2. Holds(pending_requesting_threads[s], Clients, Listed(s))
    BY DEF SessionInv
  <1>3. /\ pending_requesting_threads' =
              [pending_requesting_threads EXCEPT ![s] = Older(pending_requesting_threads[s])]
        /\ currently_handling' =
              [Handling(target) EXCEPT ![s] = Newest(pending_requesting_threads[s])]
    BY DEF Receive
  <1> QED BY <1>1, <1>2, <1>3, NewestOlder

LEMMA TypeInit == Init => TypeInv /\ StatusInv
  BY SessionsAssumption DEF Init, TypeInv, StatusInv, Threads, Ports

LEMMA TypeStep ==
    ASSUME IInv, [Next]_vars
    PROVE  TypeInv'
  <1>0. TypeInv /\ \A s \in Ids : SessionInv(s)
    BY DEF IInv
  <1> USE <1>0
  <1>1. ASSUME NEW C, NEW R, SleepAndResume(C, R)
        PROVE  /\ status' \in [Threads -> {"Running", "WaitIPC", "WaitSynchAny", "Dead"}]
               /\ wait_objects' \in [Servers -> SUBSET (Ids \cup {"port"})]
    BY <1>1 DEF SleepAndResume, TypeInv
  <1>2. \A target : Handling(target) \in [Ids -> Clients \cup {None}]
    BY DEF Handling, TypeInv
  <1>3. ASSUME NEW s \in Ids, ConnectionClosed(s) PROVE active_sessions' \in [Ports -> Int]
    BY <1>3 DEF ConnectionClosed, TypeInv
  <1>4. ASSUME NEW s \in Ids, Drop(s)
        PROVE  /\ pending_requesting_threads' \in [Ids -> Seq(Clients)]
               /\ currently_handling' \in [Ids -> Clients \cup {None}]
               /\ timer' \subseteq Clients /\ orphans' \subseteq Clients /\ missed' \subseteq Ids
    <2>1. Held(s) \subseteq Clients
      BY ListedElements DEF Held, TypeInv, Elements
    <2> QED BY <1>4, <2>1 DEF Drop, TypeInv
  <1>5. ASSUME NEW c \in Clients, NEW s \in Ids, NEW p \in Ports, Connect(c, s, p) PROVE TypeInv'
    <2>1. /\ status' \in [Threads -> {"Running", "WaitIPC", "WaitSynchAny", "Dead"}]
          /\ wait_objects' \in [Servers -> SUBSET (Ids \cup {"port"})]
      <3>1. UNCHANGED <<status, wait_objects>> \/ SleepAndResume({}, Waiting("port"))
        BY <1>5 DEF Connect
      <3> QED BY <1>1, <3>1 DEF TypeInv
    <2>2. active_sessions' \in [Ports -> Int]
      BY <1>5 DEF Connect, TypeInv
    <2>3. NewSession(s, p, IF p = "hle" THEN "handler" ELSE "queued")
      BY <1>5 DEF Connect
    <2>4. /\ client' \in [Ids -> BOOLEAN]
          /\ server' \in [Ids -> {"gone", "queued", "open", "handler"}]
          /\ port' \in [Ids -> Ports \cup {None}]
          /\ UNCHANGED <<pending_requesting_threads, currently_handling, timer, orphans, missed>>
      BY <2>3 DEF NewSession, TypeInv
    <2> QED BY <2>1, <2>2, <2>4 DEF TypeInv
  <1>6. ASSUME NEW c \in Clients, NEW s \in Ids, SendSyncRequest(c, s) PROVE TypeInv'
    <2>1. Append(pending_requesting_threads[s], c) \in Seq(Clients)
      BY DEF TypeInv
    <2>2. /\ UNCHANGED <<active_sessions, client, server, port, timer, orphans>>
          /\ \E w \in Servers \cup {None} : SleepAndResume({c}, {w})
          /\ missed' \subseteq missed
      BY <1>6, SendEffect DEF portVars
    <2>3. /\ \/ pending_requesting_threads' = pending_requesting_threads
             \/ pending_requesting_threads' = [pending_requesting_threads EXCEPT
                                                  ![s] = Append(pending_requesting_threads[s], c)]
          /\ \/ currently_handling' = currently_handling
             \/ currently_handling' = [currently_handling EXCEPT ![s] = c]
      BY <1>6, SendEffect
    <2>4. pending_requesting_threads' \in [Ids -> Seq(Clients)]
      BY <2>1, <2>3 DEF TypeInv
    <2>5. currently_handling' \in [Ids -> Clients \cup {None}]
      BY <2>3 DEF TypeInv
    <2> QED BY <1>1, <2>2, <2>4, <2>5 DEF TypeInv
  <1>7. ASSUME NEW c \in Clients, NEW s \in Ids, SendHleRequest(c, s) PROVE TypeInv'
    BY <1>1, <1>7 DEF SendHleRequest, TypeInv, portVars, sessionVars
  <1>8. ASSUME NEW c \in Clients, HleDelayEnds(c) PROVE TypeInv'
    BY <1>1, <1>8 DEF HleDelayEnds, TypeInv, portVars, sessionVars
  <1>17. ASSUME NEW t \in Mortal, Kill(t) PROVE TypeInv'
    BY <1>17 DEF Kill, TypeInv, portVars, sessionVars
  <1>9. ASSUME NEW t \in Servers, NEW s \in Ids, CreateSession(t, s) PROVE TypeInv'
    BY <1>9 DEF CreateSession, NewSession, TypeInv, portVars
  <1>10. ASSUME NEW t \in Servers, Accept(t) PROVE TypeInv'
    BY <1>10 DEF Accept, TypeInv, threadVars
  <1>11. ASSUME NEW t \in Servers, NEW target \in Ids \cup {None}, Reply(t, target) PROVE TypeInv'
    BY <1>1, <1>2, <1>11 DEF Reply, Missed, TypeInv, portVars
  <1>12. ASSUME NEW t \in Servers, NEW target \in Ids \cup {None}, NEW s \in Ids,
                Receive(t, target, s)
         PROVE  TypeInv'
    <2>1. /\ SleepAndResume({}, Answered(target))
          /\ missed' = (missed \cup Missed(target)) \ {s}
          /\ UNCHANGED <<portVars, client, server, port, timer, orphans>>
      BY <1>12 DEF Receive
    <2>2. /\ pending_requesting_threads' \in [Ids -> Seq(Clients)]
          /\ currently_handling' \in [Ids -> Clients \cup {None}]
      <3>1. CASE client[s]
        <4> DEFINE q == pending_requesting_threads[s]
        <4>1. /\ Newest(q) \in Clients
              /\ Older(q) \in Seq(Clients)
              /\ pending_requesting_threads' = [pending_requesting_threads EXCEPT ![s] = Older(q)]
              /\ currently_handling' = [Handling(target) EXCEPT ![s] = Newest(q)]
          BY <1>12, <3>1, ReceiveEffect DEF Holds
        <4> HIDE DEF q
        <4> QED BY <1>2, <4>1 DEF TypeInv
      <3>2. CASE ~client[s]
        BY <1>2, <1>12, <3>2 DEF Receive, TypeInv
      <3> QED BY <3>1, <3>2
    <2> QED BY <1>1, <2>1, <2>2 DEF Missed, TypeInv, portVars
  <1>13. ASSUME NEW t \in Servers, NEW target \in Ids \cup {None}, Wait(t, target) PROVE TypeInv'
    BY <1>2, <1>13 DEF Wait, TypeInv, portVars, Open
  <1>14. ASSUME NEW s \in Ids, CloseClient(s) PROVE TypeInv'
    <2>1. Drop(s) /\ SleepAndResume({}, Waiting(s)) /\ port' = port
          /\ client' = [client EXCEPT ![s] = FALSE]
      BY <1>14 DEF CloseClient
    <2>2. /\ server' \in [Ids -> {"gone", "queued", "open", "handler"}]
          /\ active_sessions' \in [Ports -> Int]
      BY <1>3, <1>14 DEF CloseClient, TypeInv
    <2> QED BY <1>1, <1>4, <2>1, <2>2 DEF TypeInv
  <1>15. ASSUME NEW s \in Ids, CloseServer(s) PROVE TypeInv'
    BY <1>3, <1>4, <1>15 DEF CloseServer, TypeInv
  <1>16. CASE UNCHANGED vars
    BY <1>16 DEF vars, threadVars, portVars, sessionVars, TypeInv
  <1> QED BY <1>5, <1>6, <1>7, <1>8, <1>9, <1>10, <1>11, <1>12, <1>13, <1>14, <1>15, <1>16, <1>17
          DEF Next

-----------------------------------------------------------------------------
(* Ports *)

(* Clients are put to sleep and resumed; server threads are only resumed. *)
LEMMA StatusStep ==
    ASSUME IInv, [Next]_vars
    PROVE  StatusInv'
  <1>0. TypeInv /\ StatusInv
    BY DEF IInv
  <1> USE <1>0, SessionsAssumption DEF StatusInv
  <1>1. ASSUME NEW C \in SUBSET Clients, NEW R, SleepAndResume(C, R) PROVE StatusInv'
    BY <1>1 DEF SleepAndResume, Threads
  <1>2. ASSUME UNCHANGED status PROVE StatusInv'
    BY <1>2
  <1>3. ASSUME NEW c \in Clients, NEW s \in Ids, NEW p \in Ports, Connect(c, s, p) PROVE StatusInv'
    BY <1>1, <1>2, <1>3 DEF Connect
  <1>4. ASSUME NEW c \in Clients, NEW s \in Ids, SendSyncRequest(c, s) PROVE StatusInv'
    <2>1. \E w : SleepAndResume({c}, {w})
      BY <1>4, SendEffect
    <2> QED BY <1>1, <2>1
  <1>5. ASSUME NEW c \in Clients, NEW s \in Ids, SendHleRequest(c, s) PROVE StatusInv'
    BY <1>1, <1>5 DEF SendHleRequest
  <1>6. ASSUME NEW c \in Clients, HleDelayEnds(c) PROVE StatusInv'
    BY <1>1, <1>6 DEF HleDelayEnds
  <1>7. ASSUME NEW t \in Mortal, Kill(t) PROVE StatusInv'
    BY <1>7 DEF Kill, TypeInv, Threads
  <1>8. ASSUME NEW t \in Servers, NEW target \in Ids \cup {None},
               Reply(t, target) \/ \E s \in Ids : Receive(t, target, s)
        PROVE  StatusInv'
    BY <1>1, <1>8 DEF Reply, Receive
  <1>9. ASSUME NEW t \in Servers, NEW target \in Ids \cup {None}, Wait(t, target) PROVE StatusInv'
    BY <1>9 DEF Wait, Threads
  <1>10. ASSUME NEW s \in Ids, CloseClient(s) PROVE StatusInv'
    BY <1>1, <1>10 DEF CloseClient
  <1>11. ASSUME NEW t \in Servers, (\E s \in Ids : CreateSession(t, s)) \/ Accept(t) PROVE StatusInv'
    BY <1>2, <1>11 DEF CreateSession, Accept, threadVars
  <1>12. ASSUME NEW s \in Ids, CloseServer(s) PROVE StatusInv'
    BY <1>2, <1>12 DEF CloseServer
  <1>13. CASE UNCHANGED vars
    BY <1>2, <1>13 DEF vars, threadVars
  <1> QED BY <1>3, <1>4, <1>5, <1>6, <1>7, <1>8, <1>9, <1>10, <1>11, <1>12, <1>13 DEF Next

LEMMA PortsInit == Init => QueueInv /\ PlacesInv
  <1> SUFFICES ASSUME Init PROVE QueueInv /\ PlacesInv
    OBVIOUS
  <1>1. Queued = {} /\ pending_sessions = << >>
    BY DEF Init, Queued
  <1>2. QueueInv
    BY <1>1, EmptyHolds DEF QueueInv
  <1>3. \A p \in Ports : Places(p) = {} /\ active_sessions[p] = 0
    BY DEF Init, Places
  <1>4. PlacesInv
    BY <1>3, FS_EmptySet, SessionsAssumption DEF PlacesInv
  <1> QED BY <1>2, <1>4

(* pending_sessions lists the sessions that are connected and not accepted, *)
(* and active_sessions counts the server ends.                              *)
LEMMA PortsStep ==
    ASSUME IInv, [Next]_vars
    PROVE  QueueInv' /\ PlacesInv'
  <1>0. TypeInv /\ QueueInv /\ PlacesInv
    BY DEF IInv
  <1> USE <1>0
  <1>1. ASSUME UNCHANGED <<server, port, portVars>> PROVE QueueInv' /\ PlacesInv'
    BY <1>1 DEF portVars, QueueInv, Queued, PlacesInv, Places
  <1>2. ASSUME NEW s \in Ids, NEW p, NEW end \in {"queued", "open", "handler"},
               NewSession(s, p, end)
        PROVE  /\ s \notin Queued
               /\ Queued' = (IF end = "queued" THEN Queued \cup {s} ELSE Queued)
               /\ \A k \in Ports : /\ s \notin Places(k)
                                   /\ Places(k)' = IF k = p THEN Places(k) \cup {s} ELSE Places(k)
    <2>1. /\ server[s] = "gone"
          /\ server' = [server EXCEPT ![s] = end]
          /\ port' = [port EXCEPT ![s] = p]
      BY <1>2 DEF NewSession, Unused
    <2>2. /\ \A r \in Ids : server'[r] = IF r = s THEN end ELSE server[r]
          /\ \A r \in Ids : port'[r] = IF r = s THEN p ELSE port[r]
      BY <2>1 DEF TypeInv
    <2> QED BY <2>1, <2>2 DEF Queued, Places
  <1>3. ASSUME NEW c \in Clients, NEW s \in Ids, NEW p \in Ports, Connect(c, s, p)
        PROVE  QueueInv' /\ PlacesInv'
    <2> DEFINE end == IF p = "hle" THEN "handler" ELSE "queued"
    <2>1. /\ NewSession(s, p, end) /\ active_sessions[p] < MaxSessions[p]
          /\ active_sessions' = [active_sessions EXCEPT ![p] = active_sessions[p] + 1]
          /\ pending_sessions' = IF p = "hle" THEN pending_sessions ELSE Append(pending_sessions, s)
      BY <1>3 DEF Connect
    <2>2. /\ s \notin Queued
          /\ Queued' = (IF p = "hle" THEN Queued ELSE Queued \cup {s})
          /\ \A k \in Ports : /\ s \notin Places(k)
                              /\ Places(k)' = IF k = p THEN Places(k) \cup {s} ELSE Places(k)
      BY <1>2, <2>1
    <2>3. QueueInv'
      BY <2>1, <2>2, AppendHolds DEF QueueInv
    <2>4. ASSUME NEW k \in Ports
          PROVE  /\ IsFiniteSet(Places(k))'
                 /\ active_sessions'[k] = Cardinality(Places(k))'
                 /\ active_sessions'[k] <= MaxSessions[k]
      <3>1. /\ IsFiniteSet(Places(k)) /\ active_sessions[k] = Cardinality(Places(k))
            /\ active_sessions[k] <= MaxSessions[k] /\ active_sessions[k] \in Int
            /\ MaxSessions[k] \in Int
        BY SessionsAssumption DEF PlacesInv, TypeInv
      <3>2. active_sessions'[k] = IF k = p THEN active_sessions[k] + 1 ELSE active_sessions[k]
        BY <2>1 DEF TypeInv
      <3>3. IsFiniteSet(Places(k) \cup {s})
            /\ Cardinality(Places(k) \cup {s}) = Cardinality(Places(k)) + 1
        BY <2>2, <3>1, FS_AddElement
      <3>4. /\ k = p => active_sessions[k] < MaxSessions[k]
            /\ Places(k)' = IF k = p THEN Places(k) \cup {s} ELSE Places(k)
        BY <2>1, <2>2
      <3>5. CASE k = p
        BY <3>1, <3>2, <3>3, <3>4, <3>5
      <3>6. CASE k # p
        BY <3>1, <3>2, <3>4, <3>6
      <3> QED BY <3>5, <3>6
    <2>5. PlacesInv'
      BY <2>4 DEF PlacesInv
    <2> QED BY <2>3, <2>5
  <1>4. ASSUME NEW t \in Servers, NEW s \in Ids, CreateSession(t, s) PROVE QueueInv' /\ PlacesInv'
    <2>1. NewSession(s, None, "open") /\ UNCHANGED portVars
      BY <1>4 DEF CreateSession
    <2>2. Queued' = Queued /\ \A k \in Ports : Places(k)' = Places(k)
      BY <1>2, <2>1, SessionsAssumption DEF Ports
    <2> QED BY <2>1, <2>2 DEF QueueInv, PlacesInv, portVars
  <1>5. ASSUME NEW t \in Servers, Accept(t) PROVE QueueInv' /\ PlacesInv'
    <2> DEFINE s == Newest(pending_sessions)
    <2>1. /\ pending_sessions # << >>
          /\ server' = [server EXCEPT ![s] = "open"]
          /\ pending_sessions' = Older(pending_sessions)
          /\ UNCHANGED <<active_sessions, port>>
      BY <1>5 DEF Accept
    <2>2. s \in Queued /\ s \in Ids /\ Holds(Older(pending_sessions), Ids, Queued \ {s})
      BY <2>1, NewestOlder DEF QueueInv
    <2> HIDE DEF s
    <2>3. \A r \in Ids : server'[r] = IF r = s THEN "open" ELSE server[r]
      BY <2>1 DEF TypeInv
    <2>4. Queued' = Queued \ {s}
      BY <2>3 DEF Queued
    <2>5. \A k \in Ports : Places(k)' = Places(k)
      BY <2>1, <2>2, <2>3 DEF Queued, Places
    <2> QED BY <2>1, <2>2, <2>4, <2>5 DEF QueueInv, PlacesInv
  <1>6. ASSUME NEW s \in Ids, server[s] \in {"open", "handler"},
               server' = [server EXCEPT ![s] = "gone"], ConnectionClosed(s),
               UNCHANGED <<pending_sessions, port>>
        PROVE  QueueInv' /\ PlacesInv'
    <2>1. \A r \in Ids : server'[r] = IF r = s THEN "gone" ELSE server[r]
      BY <1>6 DEF TypeInv
    <2>2. Queued' = Queued
      BY <1>6, <2>1 DEF Queued
    <2>3. \A k \in Ports : /\ k = port[s] => s \in Places(k) /\ Places(k)' = Places(k) \ {s}
                           /\ k # port[s] => Places(k)' = Places(k)
      BY <1>6, <2>1 DEF Places
    <2>4. ASSUME NEW k \in Ports
          PROVE  /\ IsFiniteSet(Places(k))'
                 /\ active_sessions'[k] = Cardinality(Places(k))'
                 /\ active_sessions'[k] <= MaxSessions[k]
      <3>1. /\ IsFiniteSet(Places(k)) /\ active_sessions[k] = Cardinality(Places(k))
            /\ active_sessions[k] <= MaxSessions[k] /\ active_sessions[k] \in Int
            /\ MaxSessions[k] \in Int
        BY SessionsAssumption DEF PlacesInv, TypeInv
      <3>2. active_sessions'[k] = IF k = port[s] THEN active_sessions[k] - 1 ELSE active_sessions[k]
        BY <1>6 DEF ConnectionClosed
      <3>3. s \in Places(k) => /\ IsFiniteSet(Places(k) \ {s})
                               /\ Cardinality(Places(k) \ {s}) = Cardinality(Places(k)) - 1
        BY <3>1, FS_RemoveElement
      <3>4. CASE k = port[s]
        <4>1. /\ IsFiniteSet(Places(k))'
              /\ active_sessions'[k] = Cardinality(Places(k))'
          BY <2>3, <3>1, <3>2, <3>3, <3>4
        <4>2. active_sessions'[k] = active_sessions[k] - 1
          BY <3>2, <3>4
        <4>3. active_sessions'[k] <= MaxSessions[k]
          BY <3>1, <4>2
        <4> QED BY <4>1, <4>3
      <3>5. CASE k # port[s]
        BY <2>3, <3>1, <3>2, <3>5
      <3> QED BY <3>4, <3>5
    <2> QED BY <1>6, <2>2, <2>4 DEF QueueInv, PlacesInv
  <1>7. ASSUME NEW s \in Ids, CloseClient(s) PROVE QueueInv' /\ PlacesInv'
    <2>1. CASE server[s] = "handler"
      BY <1>6, <1>7, <2>1 DEF CloseClient
    <2>2. CASE server[s] # "handler"
      BY <1>1, <1>7, <2>2 DEF CloseClient, portVars
    <2> QED BY <2>1, <2>2
  <1>8. ASSUME NEW s \in Ids, CloseServer(s) PROVE QueueInv' /\ PlacesInv'
    BY <1>6, <1>8 DEF CloseServer
  <1>9. ASSUME NEW c \in Clients, NEW s \in Ids, SendSyncRequest(c, s) PROVE QueueInv' /\ PlacesInv'
    BY <1>1, <1>9 DEF SendSyncRequest
  <1>10. ASSUME NEW c \in Clients, NEW s \in Ids, SendHleRequest(c, s)
         PROVE  QueueInv' /\ PlacesInv'
    BY <1>1, <1>10 DEF SendHleRequest, sessionVars
  <1>11. ASSUME NEW t \in Servers, NEW target \in Ids \cup {None},
                \/ Reply(t, target) \/ Wait(t, target)
                \/ \E s \in Ids : Receive(t, target, s)
         PROVE  QueueInv' /\ PlacesInv'
    BY <1>1, <1>11 DEF Reply, Wait, Receive
  <1>12. CASE UNCHANGED vars
    BY <1>1, <1>12 DEF vars, sessionVars
  <1>13. ASSUME NEW c \in Clients, HleDelayEnds(c) PROVE QueueInv' /\ PlacesInv'
    BY <1>1, <1>13 DEF HleDelayEnds, sessionVars
  <1>14. ASSUME NEW t \in Mortal, Kill(t) PROVE QueueInv' /\ PlacesInv'
    BY <1>1, <1>14 DEF Kill, sessionVars
  <1> QED BY <1>3, <1>4, <1>5, <1>7, <1>8, <1>9, <1>10, <1>11, <1>12, <1>13, <1>14
          DEF Next

-----------------------------------------------------------------------------
(* Requests *)

LEMMA HoldsRange ==
    ASSUME NEW q, NEW T, NEW S, Holds(q, T, S)
    PROVE  Range(q) = S
  <1>1. DOMAIN q = 1 .. Len(q)
    BY DEF Holds
  <1> QED BY <1>1 DEF Range, Holds, Elements

(* A session whose lists and ends are as before. *)
LEMMA SessionFrame ==
    ASSUME NEW r \in Ids, SessionInv(r),
           pending_requesting_threads'[r] = pending_requesting_threads[r],
           currently_handling'[r] = currently_handling[r] \/ currently_handling'[r] = None,
           None \notin Listed(r),
           Held(r) # {} => client'[r] /\ server'[r] \in {"queued", "open"}
    PROVE  Listed(r)' = Listed(r) /\ SessionInv(r)'
  <1>1. Listed(r)' = Listed(r)
    BY DEF Listed
  <1> QED BY <1>1 DEF SessionInv, Held

LEMMA NoneNotListed ==
    ASSUME NEW r \in Ids, SessionInv(r)
    PROVE  None \notin Listed(r) /\ Listed(r) \subseteq Clients
  BY SessionsAssumption DEF SessionInv, Holds, Elements

(* svcSendSyncRequest adds the caller to the requests of its session. *)
LEMMA SendHolds ==
    ASSUME IInv, NEW c \in Clients, NEW s \in Ids, SendSyncRequest(c, s)
    PROVE  /\ \A r \in Ids : SessionInv(r)'
           /\ \A r \in Ids : Held(r)' = IF r = s THEN Held(r) \cup {c} ELSE Held(r)
           /\ \A r \in Ids : r # s => /\ Listed(r)' = Listed(r)
                                      /\ currently_handling'[r] = currently_handling[r]
           /\ \/ /\ Listed(s)' = Listed(s) \cup {c}
                 /\ currently_handling'[s] = currently_handling[s]
              \/ /\ Listed(s)' = Listed(s)
                 /\ currently_handling[s] = None /\ currently_handling'[s] = c
           /\ \A d \in Clients : status'[d] = IF d = c THEN "WaitIPC" ELSE status[d]
  <1>1. /\ TypeInv
        /\ \A r \in Ids : SessionInv(r)
        /\ ClientInv(c)
    BY DEF IInv
  <1>2. /\ status[c] = "Running" /\ client[s] /\ server[s] \in {"queued", "open"}
        /\ UNCHANGED <<client, server>>
    BY <1>1, SendEffect
  <1>3. \A r \in Ids : c \notin Held(r)
    BY <1>1, <1>2 DEF ClientInv
  <1>4. \A d \in Clients : status'[d] = IF d = c THEN "WaitIPC" ELSE status[d]
    <2>1. PICK w \in Servers \cup {None} : SleepAndResume({c}, {w})
      BY <1>1, SendEffect
    <2> QED BY <2>1, SessionsAssumption DEF SleepAndResume, Threads
  <1>5. CASE /\ pending_requesting_threads' =
                   [pending_requesting_threads EXCEPT ![s] = Append(pending_requesting_threads[s], c)]
             /\ currently_handling' = currently_handling
    <2>1. /\ pending_requesting_threads'[s] = Append(pending_requesting_threads[s], c)
          /\ \A r \in Ids : r # s => pending_requesting_threads'[r] = pending_requesting_threads[r]
      BY <1>1, <1>5 DEF TypeInv
    <2>2. \A r \in Ids : r # s => Listed(r)' = Listed(r) /\ SessionInv(r)'
      <3> SUFFICES ASSUME NEW r \in Ids, r # s PROVE Listed(r)' = Listed(r) /\ SessionInv(r)'
        OBVIOUS
      <3> QED BY <1>1, <1>2, <1>5, <2>1, NoneNotListed, SessionFrame DEF SessionInv
    <2>3. Holds(pending_requesting_threads'[s], Clients, Listed(s) \cup {c})
      BY <1>1, <1>3, <2>1, AppendHolds DEF SessionInv, Held
    <2>4. Listed(s)' = Listed(s) \cup {c}
      BY <2>3, HoldsRange DEF Listed
    <2>5. SessionInv(s)'
      BY <1>1, <1>2, <1>3, <1>5, <2>3, <2>4, SessionsAssumption DEF SessionInv, Held
    <2> QED BY <1>4, <1>5, <2>2, <2>4, <2>5, SessionsAssumption DEF Held
  <1>6. CASE /\ pending_requesting_threads' = pending_requesting_threads
             /\ currently_handling[s] = None
             /\ currently_handling' = [currently_handling EXCEPT ![s] = c]
    <2>1. \A r \in Ids : currently_handling'[r] = IF r = s THEN c ELSE currently_handling[r]
      BY <1>1, <1>6 DEF TypeInv
    <2>2. \A r \in Ids : Listed(r)' = Listed(r)
      BY <1>6 DEF Listed
    <2>3. \A r \in Ids : SessionInv(r)'
      BY <1>1, <1>2, <1>3, <1>6, <2>1, <2>2 DEF SessionInv, Held
    <2> QED BY <1>4, <1>6, <2>1, <2>2, <2>3, SessionsAssumption DEF Held
  <1> QED BY <1>1, <1>5, <1>6, SendEffect

(* A reply takes the answered client off its session; Receive also moves    *)
(* one request from the list to currently_handling.                         *)
LEMMA ReplyHolds ==
    ASSUME IInv, NEW t \in Servers, NEW target \in Ids \cup {None},
           Reply(t, target) \/ Wait(t, target)
    PROVE  /\ \A r \in Ids : SessionInv(r)'
           /\ \A r \in Ids : Listed(r)' = Listed(r)
           /\ \A r \in Ids : currently_handling'[r] =
                                 IF r = target THEN None ELSE currently_handling[r]
           /\ \A d \in Clients :
                  status'[d] = IF d \in Answered(target) /\ status[d] # "Dead" THEN "Running"
                                                                              ELSE status[d]
  <1>1. TypeInv /\ \A r \in Ids : SessionInv(r)
    BY DEF IInv
  <1>2. /\ currently_handling' = Handling(target)
        /\ UNCHANGED <<pending_requesting_threads, client, server>>
    BY DEF Reply, Wait
  <1>3. \A r \in Ids : currently_handling'[r] = IF r = target THEN None ELSE currently_handling[r]
    BY <1>2 DEF Handling
  <1>4. ASSUME NEW r \in Ids PROVE Listed(r)' = Listed(r) /\ SessionInv(r)'
    BY <1>1, <1>2, <1>3, NoneNotListed, SessionFrame DEF SessionInv
  <1>5. ASSUME NEW d \in Clients
        PROVE  status'[d] = IF d \in Answered(target) /\ status[d] # "Dead" THEN "Running"
                                                                           ELSE status[d]
    <2>1. d \in Threads /\ d # t
      BY SessionsAssumption DEF Threads
    <2> QED BY <2>1 DEF Reply, Wait, SleepAndResume
  <1> QED BY <1>3, <1>4, <1>5

LEMMA ReceiveHolds ==
    ASSUME IInv, NEW t \in Servers, NEW target \in Ids \cup {None}, NEW s \in Ids,
           Receive(t, target, s)
    PROVE  /\ \A r \in Ids : SessionInv(r)'
           /\ \A r \in Ids : r # s \/ ~client[s] =>
                 /\ Listed(r)' = Listed(r)
                 /\ currently_handling'[r] = IF r = target THEN None ELSE currently_handling[r]
           /\ client[s] =>
                 /\ s = target \/ currently_handling[s] = None
                 /\ \E x \in Listed(s) : /\ Listed(s)' = Listed(s) \ {x}
                                         /\ currently_handling'[s] = x
           /\ \A d \in Clients :
                  status'[d] = IF d \in Answered(target) /\ status[d] # "Dead" THEN "Running"
                                                                              ELSE status[d]
  <1>1. TypeInv /\ \A r \in Ids : SessionInv(r)
    BY DEF IInv
  <1>2. UNCHANGED <<client, server>> /\ SleepAndResume({}, Answered(target))
    BY DEF Receive
  <1>3. ASSUME NEW d \in Clients
        PROVE  status'[d] = IF d \in Answered(target) /\ status[d] # "Dead" THEN "Running"
                                                                           ELSE status[d]
    BY <1>2 DEF SleepAndResume, Threads
  <1>4. ASSUME NEW r \in Ids, r # s \/ ~client[s]
        PROVE  /\ Listed(r)' = Listed(r) /\ SessionInv(r)'
               /\ currently_handling'[r] = IF r = target THEN None ELSE currently_handling[r]
    <2>1. /\ pending_requesting_threads'[r] = pending_requesting_threads[r]
          /\ currently_handling'[r] = Handling(target)[r]
      <3>1. CASE client[s]
        <4>1. Handling(target) \in [Ids -> Clients \cup {None}]
          BY <1>1 DEF Handling, TypeInv
        <4> QED BY <1>1, <1>4, <3>1, <4>1 DEF Receive, TypeInv
      <3>2. CASE ~client[s]
        BY <3>2 DEF Receive
      <3> QED BY <3>1, <3>2
    <2>2. currently_handling'[r] = IF r = target THEN None ELSE currently_handling[r]
      BY <2>1 DEF Handling
    <2> QED BY <1>1, <1>2, <2>1, <2>2, NoneNotListed, SessionFrame DEF SessionInv
  <1>5. CASE client[s]
    <2> DEFINE q == pending_requesting_threads[s]
               x == Newest(q)
    <2>1. /\ Handling(target)[s] = None
          /\ x \in Listed(s) /\ x \in Clients
          /\ Holds(Older(q), Clients, Listed(s) \ {x})
          /\ pending_requesting_threads' = [pending_requesting_threads EXCEPT ![s] = Older(q)]
          /\ currently_handling' = [Handling(target) EXCEPT ![s] = x]
      <3>1. q # << >> /\ Handling(target)[s] = None
        BY <1>5 DEF Receive, Ready
      <3>2. Holds(q, Clients, Listed(s))
        BY <1>1 DEF SessionInv
      <3>3. /\ pending_requesting_threads' = [pending_requesting_threads EXCEPT ![s] = Older(q)]
            /\ currently_handling' = [Handling(target) EXCEPT ![s] = x]
        BY <1>5 DEF Receive
      <3> HIDE DEF q
      <3> QED BY <3>1, <3>2, <3>3, NewestOlder
    <2> HIDE DEF q, x
    <2>2. pending_requesting_threads'[s] = Older(q) /\ currently_handling'[s] = x
      BY <1>1, <2>1 DEF TypeInv, Handling
    <2>3. Listed(s)' = Listed(s) \ {x}
      BY <2>1, <2>2, HoldsRange DEF Listed
    <2>4. SessionInv(s)'
      <3>1. Held(s) # {}
        BY <2>1 DEF Held
      <3> QED BY <1>1, <1>2, <2>1, <2>2, <2>3, <3>1 DEF SessionInv
    <2>5. s = target \/ currently_handling[s] = None
      BY <2>1 DEF Handling
    <2> QED BY <1>3, <1>4, <2>1, <2>2, <2>3, <2>4, <2>5
  <1>6. CASE ~client[s]
    BY <1>3, <1>4, <1>6
  <1> QED BY <1>5, <1>6

(* An end that goes forgets the requests of its session only. *)
LEMMA DropHolds ==
    ASSUME IInv, NEW s \in Ids, Drop(s),
           \A r \in Ids : r # s => client'[r] = client[r] /\ server'[r] = server[r]
    PROVE  /\ \A r \in Ids : SessionInv(r)'
           /\ Listed(s)' = {} /\ currently_handling'[s] = None
           /\ \A r \in Ids : r # s => /\ Listed(r)' = Listed(r)
                                      /\ currently_handling'[r] = currently_handling[r]
  <1>1. TypeInv /\ \A r \in Ids : SessionInv(r)
    BY DEF IInv
  <1>2. /\ \A r \in Ids : pending_requesting_threads'[r] =
                              IF r = s THEN << >> ELSE pending_requesting_threads[r]
        /\ \A r \in Ids : currently_handling'[r] = IF r = s THEN None ELSE currently_handling[r]
    BY <1>1 DEF Drop, TypeInv
  <1>3. ASSUME NEW r \in Ids, r # s PROVE Listed(r)' = Listed(r) /\ SessionInv(r)'
    BY <1>1, <1>2, <1>3, NoneNotListed, SessionFrame DEF SessionInv
  <1>4. Holds(pending_requesting_threads'[s], Clients, {})
    BY <1>2, EmptyHolds
  <1>5. Listed(s)' = {}
    BY <1>4, HoldsRange DEF Listed
  <1>6. SessionInv(s)'
    BY <1>2, <1>4, <1>5 DEF SessionInv, Held
  <1> QED BY <1>2, <1>3, <1>5, <1>6

LEMMA RequestsInit ==
    Init => /\ \A s \in Ids : SessionInv(s)
            /\ \A c \in Clients : ClientInv(c)
            /\ \A t \in Servers : ServerInv(t)
  <1> SUFFICES ASSUME Init
               PROVE  /\ \A s \in Ids : SessionInv(s)
                      /\ \A c \in Clients : ClientInv(c)
                      /\ \A t \in Servers : ServerInv(t)
    OBVIOUS
  <1>1. /\ \A s \in Ids : pending_requesting_threads[s] = << >> /\ currently_handling[s] = None
        /\ \A t \in Threads : status[t] = "Running"
        /\ timer = {} /\ orphans = {}
    BY DEF Init
  <1>2. \A s \in Ids : Holds(pending_requesting_threads[s], Clients, {})
    BY <1>1, EmptyHolds
  <1>3. \A s \in Ids : Listed(s) = {}
    BY <1>2, HoldsRange DEF Listed
  <1>4. \A s \in Ids : Held(s) = {}
    BY <1>1, <1>3 DEF Held
  <1>5. \A s \in Ids : SessionInv(s)
    BY <1>1, <1>2, <1>3, <1>4 DEF SessionInv
  <1>6. \A c \in Clients : ClientInv(c)
    BY <1>1, <1>4 DEF ClientInv, Threads
  <1>7. \A t \in Servers : ServerInv(t)
    BY <1>1 DEF ServerInv, Threads
  <1> QED BY <1>5, <1>6, <1>7

(* A new session has no requests yet. *)
LEMMA NewSessionFacts ==
    ASSUME IInv, NEW s \in Ids, NEW p, NEW end \in {"queued", "open", "handler"},
           NewSession(s, p, end)
    PROVE  /\ \A r \in Ids : SessionInv(r)'
           /\ \A r \in Ids : r # s => client'[r] = client[r] /\ server'[r] = server[r]
           /\ UNCHANGED <<pending_requesting_threads, currently_handling, timer, orphans, missed>>
           /\ server[s] = "gone" /\ ~client[s]
  <1>1. TypeInv /\ \A r \in Ids : SessionInv(r)
    BY DEF IInv
  <1>2. /\ UNCHANGED <<pending_requesting_threads, currently_handling, timer, orphans, missed>>
        /\ server[s] = "gone" /\ ~client[s]
        /\ \A r \in Ids : r # s => client'[r] = client[r] /\ server'[r] = server[r]
    BY <1>1 DEF NewSession, Unused, TypeInv
  <1>3. ASSUME NEW r \in Ids PROVE SessionInv(r)'
    <2>1. Held(r) # {} => r # s /\ client[r] /\ server[r] \in {"queued", "open"}
      BY <1>1, <1>2 DEF SessionInv
    <2>2. SessionInv(r)
      BY <1>1
    <2> QED BY <1>2, <2>1, <2>2, NoneNotListed, SessionFrame
  <1> QED BY <1>2, <1>3

(* The session that is accepted is one that waits in pending_sessions. *)
LEMMA AcceptFacts ==
    ASSUME IInv, NEW t \in Servers, Accept(t)
    PROVE  /\ \A r \in Ids : SessionInv(r)'
           /\ UNCHANGED <<pending_requesting_threads, currently_handling, timer, orphans, missed,
                          status>>
           /\ pending_sessions # << >>
  <1>1. TypeInv /\ QueueInv /\ \A r \in Ids : SessionInv(r)
    BY DEF IInv
  <1>2. /\ UNCHANGED <<pending_requesting_threads, currently_handling, timer, orphans, missed,
                       status, client>>
        /\ pending_sessions # << >>
        /\ server' = [server EXCEPT ![Newest(pending_sessions)] = "open"]
    BY DEF Accept, threadVars
  <1>3. ASSUME NEW r \in Ids PROVE SessionInv(r)'
    <2>1. server'[r] = server[r] \/ server'[r] = "open"
      BY <1>1, <1>2 DEF TypeInv
    <2>2. SessionInv(r)
      BY <1>1
    <2>3. Held(r) # {} => client'[r] /\ server'[r] \in {"queued", "open"}
      BY <1>2, <2>1, <2>2 DEF SessionInv
    <2> QED BY <1>2, <2>2, <2>3, NoneNotListed, SessionFrame
  <1> QED BY <1>2, <1>3

(* Both destructors drop the requests of their session only, and neither    *)
(* wakes a client.                                                          *)
LEMMA CloseFacts ==
    ASSUME IInv, NEW s \in Ids, CloseClient(s) \/ CloseServer(s)
    PROVE  /\ \A r \in Ids : SessionInv(r)'
           /\ Listed(s)' = {} /\ currently_handling'[s] = None
           /\ \A r \in Ids : r # s => /\ Listed(r)' = Listed(r)
                                      /\ currently_handling'[r] = currently_handling[r]
           /\ \A c \in Clients : status'[c] = status[c]
           /\ timer' = timer
           /\ orphans' = orphans \cup {c \in Held(s) : status[c] = "WaitIPC"}
           /\ missed' = missed \ {s}
           /\ pending_sessions' = pending_sessions
           /\ \A r \in Ids : r # s => client'[r] = client[r] /\ server'[r] = server[r]
           /\ \A r \in Ids : r # s => pending_requesting_threads'[r] = pending_requesting_threads[r]
           /\ \A t \in Servers : status'[t] = "WaitSynchAny"
                  => /\ status[t] = "WaitSynchAny" /\ wait_objects'[t] = wait_objects[t]
                     /\ t \notin Waiting(s)
  <1>1. TypeInv
    BY DEF IInv
  <1>2. /\ Drop(s) /\ pending_sessions' = pending_sessions
        /\ \A r \in Ids : r # s => client'[r] = client[r] /\ server'[r] = server[r]
    BY <1>1 DEF CloseClient, CloseServer, TypeInv
  <1>3. \/ SleepAndResume({}, Waiting(s))
        \/ UNCHANGED <<status, wait_objects>> /\ Waiting(s) = {}
    BY DEF CloseClient, CloseServer
  <1>4. \A c \in Clients : status'[c] = status[c]
    BY <1>3, SessionsAssumption DEF SleepAndResume, Threads, Waiting
  <1>5. \A t \in Servers : status'[t] = "WaitSynchAny"
            => /\ status[t] = "WaitSynchAny" /\ wait_objects'[t] = wait_objects[t]
               /\ t \notin Waiting(s)
    <2>1. CASE SleepAndResume({}, Waiting(s))
      BY <2>1 DEF SleepAndResume, Threads, Waiting
    <2>2. CASE UNCHANGED <<status, wait_objects>> /\ Waiting(s) = {}
      BY <2>2
    <2> QED BY <1>3, <2>1, <2>2
  <1>6. /\ timer' = timer /\ missed' = missed \ {s}
        /\ orphans' = orphans \cup {c \in Held(s) : status[c] = "WaitIPC"}
        /\ \A r \in Ids : r # s => pending_requesting_threads'[r] = pending_requesting_threads[r]
    BY <1>1, <1>2 DEF Drop, TypeInv
  <1> QED BY <1>2, <1>4, <1>5, <1>6, DropHolds

LEMMA SessionStep ==
    ASSUME IInv, [Next]_vars
    PROVE  \A r \in Ids : SessionInv(r)'
  <1>1. ASSUME UNCHANGED sessionVars PROVE \A r \in Ids : SessionInv(r)'
    <2> SUFFICES ASSUME NEW r \in Ids PROVE SessionInv(r)'
      OBVIOUS
    <2>1. SessionInv(r)
      BY DEF IInv
    <2> QED BY <1>1, <2>1, NoneNotListed, SessionFrame DEF sessionVars, SessionInv
  <1>2. ASSUME NEW c \in Clients, NEW s \in Ids, NEW p \in Ports, Connect(c, s, p)
        PROVE  \A r \in Ids : SessionInv(r)'
    <2>1. NewSession(s, p, IF p = "hle" THEN "handler" ELSE "queued")
      BY <1>2 DEF Connect
    <2> QED BY <2>1, NewSessionFacts
  <1>3. ASSUME NEW t \in Servers, NEW s \in Ids, CreateSession(t, s)
        PROVE  \A r \in Ids : SessionInv(r)'
    BY <1>3, NewSessionFacts DEF CreateSession
  <1>4. ASSUME NEW c \in Clients, HleDelayEnds(c) \/ \E s \in Ids : SendHleRequest(c, s)
        PROVE  \A r \in Ids : SessionInv(r)'
    BY <1>1, <1>4 DEF HleDelayEnds, SendHleRequest
  <1>6. ASSUME NEW t \in Mortal, Kill(t) PROVE \A r \in Ids : SessionInv(r)'
    BY <1>1, <1>6 DEF Kill
  <1>5. CASE UNCHANGED vars
    BY <1>1, <1>5 DEF vars
  <1> QED BY <1>2, <1>3, <1>4, <1>5, <1>6, SendHolds, ReplyHolds, ReceiveHolds, AcceptFacts,
             CloseFacts DEF Next

(* A client that is held by the same sessions and sleeps for the same reason. *)
LEMMA ClientFrame ==
    ASSUME NEW d \in Clients, ClientInv(d),
           \A r \in Ids : d \in Held(r)' <=> d \in Held(r),
           d \in timer' <=> d \in timer, d \in orphans' <=> d \in orphans, status'[d] = status[d]
    PROVE  ClientInv(d)'
  BY DEF ClientInv

(* A reply: the client that was answered is held by no session any more and *)
(* runs, unless it was killed.                                              *)
LEMMA ClientAnswered ==
    ASSUME IInv, NEW target \in Ids \cup {None}, target # None => currently_handling[target] # None,
           \A r \in Ids, d \in Clients : d \in Held(r)' <=> d \in Held(r) /\ d \notin Answered(target),
           UNCHANGED <<timer, orphans>>,
           \A d \in Clients :
               status'[d] = IF d \in Answered(target) /\ status[d] # "Dead" THEN "Running"
                                                                           ELSE status[d]
    PROVE  \A d \in Clients : ClientInv(d)'
  <1> SUFFICES ASSUME NEW d \in Clients PROVE ClientInv(d)'
    OBVIOUS
  <1>1. ClientInv(d)
    BY DEF IInv
  <1>2. CASE d \notin Answered(target)
    <2>1. status'[d] = status[d] /\ \A r \in Ids : d \in Held(r)' <=> d \in Held(r)
      BY <1>2
    <2> QED BY <1>1, <2>1, ClientFrame
  <1>3. CASE d \in Answered(target)
    <2>1. target \in Ids /\ d \in Held(target)
      BY <1>3, SessionsAssumption DEF Answered, Held
    <2>2. d \notin timer /\ d \notin orphans
      BY <1>1, <2>1 DEF ClientInv
    <2>3. /\ \A r \in Ids : d \notin Held(r)'
          /\ status'[d] \in {"Running", "Dead"}
          /\ d \notin timer' /\ d \notin orphans'
      BY <1>3, <2>2
    <2> QED BY <2>3 DEF ClientInv
  <1> QED BY <1>2, <1>3

(* Held after a reply, and after a reply and the start of another request. *)
LEMMA HeldAfterReply ==
    ASSUME IInv, NEW t \in Servers, NEW target \in Ids \cup {None},
           Reply(t, target) \/ Wait(t, target) \/ \E s \in Ids : Receive(t, target, s)
    PROVE  /\ \A r \in Ids, d \in Clients :
                  d \in Held(r)' <=> d \in Held(r) /\ d \notin Answered(target)
           /\ target # None => currently_handling[target] # None
           /\ UNCHANGED <<timer, orphans>>
           /\ \A d \in Clients :
                  status'[d] = IF d \in Answered(target) /\ status[d] # "Dead" THEN "Running"
                                                                              ELSE status[d]
  <1>1. /\ target # None => currently_handling[target] # None
        /\ UNCHANGED <<timer, orphans>>
    BY DEF Reply, Wait, Receive, CanReply
  <1>2. ASSUME NEW r \in Ids, NEW d \in Clients, d \in Held(r), d \in Answered(target)
        PROVE  r = target
    <2>1. target \in Ids /\ d \in Held(target)
      BY <1>1, <1>2, SessionsAssumption DEF Answered, Held
    <2>2. ClientInv(d)
      BY DEF IInv
    <2> QED BY <1>2, <2>1, <2>2 DEF ClientInv
  <1>3. \A r \in Ids : currently_handling[r] \notin Listed(r) /\ Listed(r) \subseteq Clients
    BY NoneNotListed DEF IInv, SessionInv
  <1>4. ASSUME NEW r \in Ids, Listed(r)' = Listed(r), NEW d \in Clients,
               currently_handling'[r] = IF r = target THEN None ELSE currently_handling[r]
        PROVE  d \in Held(r)' <=> d \in Held(r) /\ d \notin Answered(target)
    <2>1. CASE r = target
      <3>1. target # None
        BY <2>1, SessionsAssumption
      <3> QED BY <1>3, <1>4, <2>1, <3>1 DEF Held, Answered
    <2>2. CASE r # target
      BY <1>2, <1>4, <2>2 DEF Held
    <2> QED BY <2>1, <2>2
  <1>5. CASE Reply(t, target) \/ Wait(t, target)
    BY <1>1, <1>4, <1>5, ReplyHolds
  <1>6. ASSUME NEW s \in Ids, Receive(t, target, s)
        PROVE  \A r \in Ids, d \in Clients :
                   d \in Held(r)' <=> d \in Held(r) /\ d \notin Answered(target)
    <2> SUFFICES ASSUME NEW r \in Ids, NEW d \in Clients
                 PROVE  d \in Held(r)' <=> d \in Held(r) /\ d \notin Answered(target)
      OBVIOUS
    <2>1. CASE r # s \/ ~client[s]
      BY <1>4, <1>6, <2>1, ReceiveHolds
    <2>2. CASE r = s /\ client[s]
      <3>1. s = target \/ currently_handling[s] = None
        BY <1>6, <2>2, ReceiveHolds
      <3>2. PICK x \in Listed(s) : Listed(s)' = Listed(s) \ {x} /\ currently_handling'[s] = x
        BY <1>6, <2>2, ReceiveHolds
      <3>3. d \in Held(s)' <=> d \in Listed(s)
        BY <1>3, <3>2, SessionsAssumption DEF Held
      <3>4. d \in Listed(s) <=> d \in Held(s) /\ d \notin Answered(target)
        <4>1. CASE s = target
          <5>1. target # None
            BY <4>1, SessionsAssumption
          <5> QED BY <1>3, <4>1, <5>1, SessionsAssumption DEF Held, Answered
        <4>2. CASE s # target
          BY <1>2, <3>1, <4>2 DEF Held
        <4> QED BY <4>1, <4>2
      <3> QED BY <2>2, <3>3, <3>4
    <2> QED BY <2>1, <2>2
  <1>7. CASE \E s \in Ids : Receive(t, target, s)
    <2>1. \A d \in Clients :
              status'[d] = IF d \in Answered(target) /\ status[d] # "Dead" THEN "Running"
                                                                          ELSE status[d]
      BY <1>7, ReceiveHolds
    <2> QED BY <1>1, <1>6, <1>7, <2>1
  <1> QED BY <1>5, <1>7

(* Steps that leave the lists of all sessions alone. *)
LEMMA HeldFrame ==
    ASSUME UNCHANGED <<pending_requesting_threads, currently_handling>>
    PROVE  \A r \in Ids : /\ Listed(r)' = Listed(r)
                          /\ currently_handling'[r] = currently_handling[r]
                          /\ Held(r)' = Held(r)
  BY DEF Held, Listed

LEMMA ClientStep ==
    ASSUME IInv, [Next]_vars
    PROVE  \A d \in Clients : ClientInv(d)'
  <1>0. TypeInv /\ \A d \in Clients : ClientInv(d)
    BY DEF IInv
  <1>1. ASSUME UNCHANGED <<pending_requesting_threads, currently_handling, timer, orphans>>,
               \A d \in Clients : status'[d] = status[d]
        PROVE  \A d \in Clients : ClientInv(d)'
    BY <1>0, <1>1, HeldFrame, ClientFrame
  <1>2. ASSUME NEW c \in Clients, NEW s \in Ids, NEW p \in Ports, Connect(c, s, p)
        PROVE  \A d \in Clients : ClientInv(d)'
    <2>1. NewSession(s, p, IF p = "hle" THEN "handler" ELSE "queued")
      BY <1>2 DEF Connect
    <2>2. \A d \in Clients : status'[d] = status[d]
      BY <1>2, SessionsAssumption DEF Connect, SleepAndResume, Waiting, Threads
    <2> QED BY <1>1, <2>1, <2>2, NewSessionFacts
  <1>3. ASSUME NEW c \in Clients, NEW s \in Ids, SendSyncRequest(c, s)
        PROVE  \A d \in Clients : ClientInv(d)'
    <2> SUFFICES ASSUME NEW d \in Clients PROVE ClientInv(d)'
      OBVIOUS
    <2>1. /\ \A r \in Ids : Held(r)' = IF r = s THEN Held(r) \cup {c} ELSE Held(r)
          /\ status'[d] = IF d = c THEN "WaitIPC" ELSE status[d]
      BY <1>3, SendHolds
    <2>2. UNCHANGED <<timer, orphans>> /\ status[c] = "Running"
      BY <1>0, <1>3, SendEffect
    <2>3. CASE d = c
      <3>1. /\ \A r \in Ids : d \notin Held(r)
            /\ d \notin timer /\ d \notin orphans
        BY <1>0, <2>2, <2>3 DEF ClientInv
      <3> QED BY <2>1, <2>2, <2>3, <3>1 DEF ClientInv
    <2>4. CASE d # c
      BY <1>0, <2>1, <2>2, <2>4, ClientFrame
    <2> QED BY <2>3, <2>4
  <1>4. ASSUME NEW c \in Clients, NEW s \in Ids, SendHleRequest(c, s)
        PROVE  \A d \in Clients : ClientInv(d)'
    <2> SUFFICES ASSUME NEW d \in Clients PROVE ClientInv(d)'
      OBVIOUS
    <2>1. /\ status[c] = "Running" /\ timer' = timer \cup {c} /\ orphans' = orphans
          /\ UNCHANGED <<pending_requesting_threads, currently_handling>>
          /\ status'[d] = IF d = c THEN "WaitIPC" ELSE status[d]
      BY <1>4 DEF SendHleRequest, SleepAndResume, sessionVars, Threads
    <2>2. \A r \in Ids : Held(r)' = Held(r)
      BY <2>1, HeldFrame
    <2>3. ClientInv(d)
      BY <1>0
    <2> QED BY <2>1, <2>2, <2>3 DEF ClientInv
  <1>5. ASSUME NEW c \in Clients, HleDelayEnds(c)
        PROVE  \A d \in Clients : ClientInv(d)'
    <2> SUFFICES ASSUME NEW d \in Clients PROVE ClientInv(d)'
      OBVIOUS
    <2>1. /\ c \in timer /\ timer' = timer \ {c} /\ orphans' = orphans
          /\ UNCHANGED <<pending_requesting_threads, currently_handling>>
          /\ status'[d] = IF d = c /\ status[d] # "Dead" THEN "Running" ELSE status[d]
      BY <1>5 DEF HleDelayEnds, SleepAndResume, sessionVars, Threads
    <2>2. \A r \in Ids : Held(r)' = Held(r)
      BY <2>1, HeldFrame
    <2>3. ClientInv(d)
      BY <1>0
    <2> QED BY <2>1, <2>2, <2>3 DEF ClientInv
  <1>6. ASSUME NEW t \in Mortal, Kill(t) PROVE \A d \in Clients : ClientInv(d)'
    <2> SUFFICES ASSUME NEW d \in Clients PROVE ClientInv(d)'
      OBVIOUS
    <2>1. /\ timer' = timer \ {t} /\ orphans' = orphans
          /\ UNCHANGED <<pending_requesting_threads, currently_handling>>
          /\ status'[d] = IF d = t THEN "Dead" ELSE status[d]
      BY <1>0, <1>6 DEF Kill, sessionVars, TypeInv, Threads
    <2>2. \A r \in Ids : Held(r)' = Held(r)
      BY <2>1, HeldFrame
    <2>3. ClientInv(d)
      BY <1>0
    <2> QED BY <2>1, <2>2, <2>3 DEF ClientInv
  <1>7. ASSUME NEW t \in Servers, NEW s \in Ids, CreateSession(t, s)
        PROVE  \A d \in Clients : ClientInv(d)'
    BY <1>1, <1>7, NewSessionFacts DEF CreateSession
  <1>8. ASSUME NEW t \in Servers, Accept(t) PROVE \A d \in Clients : ClientInv(d)'
    BY <1>1, <1>8, AcceptFacts
  <1>9. ASSUME NEW t \in Servers, NEW target \in Ids \cup {None},
               Reply(t, target) \/ Wait(t, target) \/ \E s \in Ids : Receive(t, target, s)
        PROVE  \A d \in Clients : ClientInv(d)'
    BY <1>9, HeldAfterReply, ClientAnswered
  <1>10. ASSUME NEW s \in Ids, CloseClient(s) \/ CloseServer(s)
         PROVE  \A d \in Clients : ClientInv(d)'
    <2> SUFFICES ASSUME NEW d \in Clients PROVE ClientInv(d)'
      OBVIOUS
    <2>1. /\ \A r \in Ids : Held(r)' = IF r = s THEN {} ELSE Held(r)
          /\ status'[d] = status[d] /\ timer' = timer
          /\ d \in orphans' <=> d \in orphans \/ (d \in Held(s) /\ status[d] = "WaitIPC")
      <3>1. \A r \in Ids : Held(r)' = IF r = s THEN {} ELSE Held(r)
        BY <1>10, CloseFacts DEF Held
      <3> QED BY <1>10, <3>1, CloseFacts
    <2>2. ClientInv(d)
      BY <1>0
    <2>3. CASE d \in Held(s)
      BY <2>1, <2>2, <2>3 DEF ClientInv
    <2>4. CASE d \notin Held(s)
      BY <2>1, <2>2, <2>4, ClientFrame
    <2> QED BY <2>3, <2>4
  <1>11. CASE UNCHANGED vars
    BY <1>1, <1>11 DEF vars, threadVars, sessionVars
  <1> QED BY <1>2, <1>3, <1>4, <1>5, <1>6, <1>7, <1>8, <1>9, <1>10, <1>11 DEF Next

-----------------------------------------------------------------------------
(* Server threads *)

(* A thread that goes on sleeping on sessions that are as ready as before. *)
LEMMA ServerFrame ==
    ASSUME NEW u \in Servers, ServerInv(u), pending_sessions' = pending_sessions,
           status'[u] = "WaitSynchAny" =>
               /\ status[u] = "WaitSynchAny" /\ wait_objects'[u] = wait_objects[u]
               /\ \A s \in wait_objects[u] \cap Ids :
                     /\ client'[s] = client[s] /\ server'[s] = server[s]
                     /\ pending_requesting_threads'[s] # << >> /\ currently_handling'[s] = None
                            => s \in missed'
    PROVE  ServerInv(u)'
  BY DEF ServerInv

(* SleepAndResume puts no server thread to sleep. *)
LEMMA ServerSleep ==
    ASSUME NEW C \in SUBSET Clients, NEW R, SleepAndResume(C, R), NEW u \in Servers,
           status'[u] = "WaitSynchAny"
    PROVE  /\ status[u] = "WaitSynchAny" /\ u \notin R
           /\ wait_objects'[u] = wait_objects[u]
  <1>1. u \in Threads /\ u \notin C
    BY SessionsAssumption DEF Threads
  <1> QED BY <1>1 DEF SleepAndResume

LEMMA ServerStep ==
    ASSUME IInv, [Next]_vars
    PROVE  \A u \in Servers : ServerInv(u)'
  <1> SUFFICES ASSUME NEW u \in Servers PROVE ServerInv(u)'
    OBVIOUS
  <1>0. TypeInv /\ ServerInv(u)
    BY DEF IInv
  <1>1. ASSUME status'[u] # "WaitSynchAny" PROVE ServerInv(u)'
    BY <1>1 DEF ServerInv
  <1>2. ASSUME UNCHANGED <<pending_sessions, pending_requesting_threads, currently_handling, missed>>,
               \A s \in Ids : server[s] # "gone" => client'[s] = client[s] /\ server'[s] = server[s],
               status'[u] = "WaitSynchAny" => /\ status[u] = "WaitSynchAny"
                                              /\ wait_objects'[u] = wait_objects[u]
        PROVE  ServerInv(u)'
    BY <1>0, <1>2 DEF ServerInv
  <1>3. ASSUME NEW c \in Clients, NEW s \in Ids, NEW p \in Ports, Connect(c, s, p)
        PROVE  ServerInv(u)'
    <2>1. NewSession(s, p, IF p = "hle" THEN "handler" ELSE "queued")
      BY <1>3 DEF Connect
    <2>2. CASE p = "hle"
      BY <1>2, <1>3, <2>1, <2>2, NewSessionFacts DEF Connect
    <2>3. CASE p # "hle"
      <3>1. SleepAndResume({}, Waiting("port"))
        BY <1>3, <2>3 DEF Connect
      <3>2. status[u] = "WaitSynchAny" => u \in Waiting("port")
        BY <1>0 DEF ServerInv, Waiting
      <3>3. status'[u] # "WaitSynchAny"
        BY <3>1, <3>2, ServerSleep
      <3> QED BY <1>1, <3>3
    <2> QED BY <2>2, <2>3
  <1>4. ASSUME NEW t \in Servers, NEW s \in Ids, CreateSession(t, s) PROVE ServerInv(u)'
    <2>1. NewSession(s, None, "open") /\ UNCHANGED <<pending_sessions, status, wait_objects>>
      BY <1>4 DEF CreateSession, portVars
    <2> QED BY <1>2, <2>1, NewSessionFacts
  <1>5. ASSUME NEW t \in Servers, Accept(t) PROVE ServerInv(u)'
    <2>1. status[u] # "WaitSynchAny"
      BY <1>0, <1>5, AcceptFacts DEF ServerInv
    <2> QED BY <1>1, <1>5, <2>1, AcceptFacts
  <1>6. ASSUME NEW c \in Clients, NEW s \in Ids, SendSyncRequest(c, s) PROVE ServerInv(u)'
    <2>1. UNCHANGED <<pending_sessions, client, server>>
      BY <1>0, <1>6, SendEffect DEF portVars
    <2>2. PICK w : SleepAndResume({c}, {w})
      BY <1>0, <1>6, SendEffect
    <2>3. status'[u] = "WaitSynchAny" => /\ status[u] = "WaitSynchAny"
                                         /\ wait_objects'[u] = wait_objects[u]
      BY <2>2, ServerSleep
    <2>4. ASSUME NEW r \in wait_objects[u] \cap Ids, status[u] = "WaitSynchAny",
                 pending_requesting_threads'[r] # << >>, currently_handling'[r] = None
          PROVE  r \in missed'
      <3>1. CASE /\ pending_requesting_threads' =
                       [pending_requesting_threads EXCEPT ![s] = Append(pending_requesting_threads[s], c)]
                 /\ currently_handling' = currently_handling /\ missed' = missed
                 /\ currently_handling[s] # None \/ Waiting(s) = {}
        <4>1. r # s
          BY <2>4, <3>1 DEF Waiting
        <4>2. pending_requesting_threads'[r] = pending_requesting_threads[r]
          BY <1>0, <3>1, <4>1 DEF TypeInv
        <4> QED BY <1>0, <2>4, <3>1, <4>2 DEF ServerInv
      <3>2. CASE /\ pending_requesting_threads' = pending_requesting_threads
                 /\ currently_handling' = [currently_handling EXCEPT ![s] = c]
                 /\ missed' = missed \ {s}
        <4>1. r # s
          BY <1>0, <2>4, <3>2, SessionsAssumption DEF TypeInv
        <4>2. currently_handling'[r] = currently_handling[r]
          BY <1>0, <3>2, <4>1 DEF TypeInv
        <4> QED BY <1>0, <2>4, <3>2, <4>1, <4>2 DEF ServerInv
      <3> QED BY <1>0, <1>6, <3>1, <3>2, SendEffect
    <2> QED BY <1>0, <2>1, <2>3, <2>4, ServerFrame
  <1>7. ASSUME NEW c \in Clients, SleepAndResume({c}, {}) \/ SleepAndResume({}, {c}),
               UNCHANGED <<portVars, sessionVars, orphans, missed>>
        PROVE  ServerInv(u)'
    <2>1. status'[u] = "WaitSynchAny" => /\ status[u] = "WaitSynchAny"
                                         /\ wait_objects'[u] = wait_objects[u]
      BY <1>7, ServerSleep
    <2> QED BY <1>2, <1>7, <2>1 DEF portVars, sessionVars
  <1>8. ASSUME NEW c \in Clients, HleDelayEnds(c) \/ \E s \in Ids : SendHleRequest(c, s)
        PROVE  ServerInv(u)'
    BY <1>7, <1>8 DEF HleDelayEnds, SendHleRequest
  <1>9. ASSUME NEW t \in Mortal, Kill(t) PROVE ServerInv(u)'
    <2>1. status'[u] = "WaitSynchAny" => /\ status[u] = "WaitSynchAny"
                                         /\ wait_objects'[u] = wait_objects[u]
      BY <1>0, <1>9 DEF Kill, TypeInv, Threads
    <2> QED BY <1>2, <1>9, <2>1 DEF Kill, portVars, sessionVars
  <1>10. ASSUME NEW t \in Servers, NEW target \in Ids \cup {None}, Reply(t, target)
         PROVE  ServerInv(u)'
    <2>1. /\ SleepAndResume({}, Answered(target))
          /\ missed' = missed \cup Missed(target)
          /\ UNCHANGED <<pending_sessions, client, server, pending_requesting_threads>>
          /\ currently_handling' = Handling(target)
      BY <1>10 DEF Reply, portVars
    <2>2. status'[u] = "WaitSynchAny" => /\ status[u] = "WaitSynchAny"
                                         /\ wait_objects'[u] = wait_objects[u]
      BY <2>1, ServerSleep
    <2>3. ASSUME NEW r \in wait_objects[u] \cap Ids, status[u] = "WaitSynchAny",
                 pending_requesting_threads[r] # << >>, currently_handling'[r] = None
          PROVE  r \in missed'
      <3>1. CASE r = target
        BY <2>1, <2>3, <3>1 DEF Missed, Waiting
      <3>2. CASE r # target
        BY <1>0, <2>1, <2>3, <3>2 DEF Handling, ServerInv
      <3> QED BY <3>1, <3>2
    <2> QED BY <1>0, <2>1, <2>2, <2>3, ServerFrame
  <1>11. ASSUME NEW t \in Servers, NEW target \in Ids \cup {None}, NEW s \in Ids,
                Receive(t, target, s)
         PROVE  ServerInv(u)'
    <2>1. /\ SleepAndResume({}, Answered(target))
          /\ missed' = (missed \cup Missed(target)) \ {s}
          /\ UNCHANGED <<pending_sessions, client, server>>
      BY <1>11 DEF Receive, portVars
    <2>2. status'[u] = "WaitSynchAny" => /\ status[u] = "WaitSynchAny"
                                         /\ wait_objects'[u] = wait_objects[u]
      BY <2>1, ServerSleep
    <2>3. ASSUME NEW r \in wait_objects[u] \cap Ids, status[u] = "WaitSynchAny",
                 pending_requesting_threads'[r] # << >>, currently_handling'[r] = None
          PROVE  r \in missed'
      <3>1. client[r]
        BY <1>0, <2>3 DEF ServerInv
      <3>2. r # s
        <4>1. client[s] => currently_handling'[s] # None
          BY <1>11, ReceiveHolds, NoneNotListed DEF IInv
        <4> QED BY <2>3, <3>1, <4>1
      <3>3. pending_requesting_threads'[r] = pending_requesting_threads[r]
        BY <1>0, <1>11, <3>2 DEF Receive, TypeInv
      <3>4. currently_handling'[r] = IF r = target THEN None ELSE currently_handling[r]
        BY <1>11, <3>2, ReceiveHolds
      <3>5. CASE r = target
        BY <2>1, <2>3, <3>2, <3>3, <3>5 DEF Missed, Waiting
      <3>6. CASE r # target
        BY <1>0, <2>1, <2>3, <3>2, <3>3, <3>4, <3>6 DEF ServerInv
      <3> QED BY <3>5, <3>6
    <2> QED BY <1>0, <2>1, <2>2, <2>3, ServerFrame
  <1>12. ASSUME NEW t \in Servers, NEW target \in Ids \cup {None}, Wait(t, target)
         PROVE  ServerInv(u)'
    <2>1. /\ pending_sessions = << >> /\ \A s \in Open : ~Ready(s, target)
          /\ CanReply(t, target)
          /\ UNCHANGED <<pending_sessions, client, server, pending_requesting_threads, missed>>
          /\ currently_handling' = Handling(target)
      BY <1>12 DEF Wait, portVars
    <2>2. CASE u = t
      <3>1. wait_objects'[u] = Open \cup {"port"}
        BY <1>0, <1>12, <2>2 DEF Wait, TypeInv
      <3>2. ASSUME NEW r \in Open
            PROVE  /\ client'[r] /\ server'[r] = "open"
                   /\ ~(pending_requesting_threads'[r] # << >> /\ currently_handling'[r] = None)
        BY <2>1 DEF Ready, Open
      <3>3. (Open \cup {"port"}) \cap Ids = Open
        BY SessionsAssumption DEF Open
      <3> QED BY <2>1, <3>1, <3>2, <3>3 DEF ServerInv
    <2>3. CASE u # t
      <3>1. u \notin Clients /\ u \in Threads
        BY SessionsAssumption DEF Threads
      <3>2. status'[u] = "WaitSynchAny" => status[u] = "WaitSynchAny"
        BY <1>12, <2>3, <3>1 DEF Wait
      <3>3. wait_objects'[u] = wait_objects[u]
        BY <1>0, <1>12, <2>3 DEF Wait, TypeInv
      <3>4. ASSUME NEW r \in wait_objects[u] \cap Ids, status[u] = "WaitSynchAny",
                   pending_requesting_threads[r] # << >>, currently_handling'[r] = None
            PROVE  r \in missed
        <4>1. r \in Open
          BY <1>0, <3>4 DEF ServerInv, Open
        <4>2. r # target
          BY <2>1, <3>4, <4>1 DEF Ready
        <4> QED BY <1>0, <2>1, <3>4, <4>2 DEF Handling, ServerInv
      <3> QED BY <1>0, <2>1, <3>2, <3>3, <3>4, ServerFrame
    <2> QED BY <2>2, <2>3
  <1>13. ASSUME NEW s \in Ids, CloseClient(s) \/ CloseServer(s) PROVE ServerInv(u)'
    <2>1. status'[u] = "WaitSynchAny" => /\ status[u] = "WaitSynchAny"
                                         /\ wait_objects'[u] = wait_objects[u]
                                         /\ s \notin wait_objects[u]
      BY <1>13, CloseFacts DEF Waiting
    <2>2. /\ pending_sessions' = pending_sessions /\ missed' = missed \ {s}
          /\ \A r \in Ids : r # s =>
                /\ client'[r] = client[r] /\ server'[r] = server[r]
                /\ pending_requesting_threads'[r] = pending_requesting_threads[r]
                /\ currently_handling'[r] = currently_handling[r]
      BY <1>13, CloseFacts
    <2> QED BY <1>0, <2>1, <2>2, ServerFrame DEF ServerInv
  <1>14. CASE UNCHANGED vars
    BY <1>2, <1>14 DEF vars, threadVars, portVars, sessionVars
  <1> QED BY <1>3, <1>4, <1>5, <1>6, <1>8, <1>9, <1>10, <1>11, <1>12, <1>13, <1>14 DEF Next

-----------------------------------------------------------------------------
(* The inductive invariant: ports, sessions, clients and server threads     *)
(* agree after every system call, reply, closed end and killed thread.      *)
THEOREM Invariant == Spec => []IInv
  <1>1. Init => IInv
    BY TypeInit, PortsInit, RequestsInit DEF IInv
  <1>2. IInv /\ [Next]_vars => IInv'
    BY TypeStep, StatusStep, PortsStep, SessionStep, ClientStep, ServerStep DEF IInv
  <1> QED BY <1>1, <1>2, PTL DEF Spec

(* Every variable keeps its type; no port has more than max_sessions.       *)
THEOREM TypeCorrect == Spec => []TypeOK
  <1>1. IInv => TypeOK
    <2> SUFFICES ASSUME IInv PROVE TypeOK
      OBVIOUS
    <2>1. TypeInv /\ StatusInv /\ QueueInv /\ PlacesInv /\ \A s \in Ids : SessionInv(s)
      BY DEF IInv
    <2>2. \A c \in Clients : status[c] \in {"Running", "WaitIPC", "Dead"}
      BY <2>1 DEF TypeInv, StatusInv, Threads
    <2>3. Range(pending_sessions) = {s \in Ids : server[s] = "queued"}
      BY <2>1, HoldsRange DEF QueueInv, Queued
    <2>4. /\ active_sessions \in [Ports -> Nat]
          /\ \A p \in Ports : active_sessions[p] <= MaxSessions[p]
      <3>1. \A p \in Ports : active_sessions[p] \in Nat /\ active_sessions[p] <= MaxSessions[p]
        BY <2>1, FS_CardinalityType DEF PlacesInv
      <3> QED BY <2>1, <3>1 DEF TypeInv
    <2>5. \A s \in Ids : Listed(s) \subseteq Clients
      BY <2>1, NoneNotListed
    <2>6. \A t \in Servers : status[t] \in {"Running", "WaitSynchAny", "Dead"}
      BY <2>1 DEF TypeInv, StatusInv, Threads
    <2> QED BY <2>1, <2>2, <2>3, <2>4, <2>5, <2>6 DEF TypeInv, TypeOK
  <1> QED BY <1>1, Invariant, PTL

(* ClientPort::active_sessions counts the server ends made at the port,     *)
(* whichever end is closed first.                                           *)
THEOREM PlacesCorrect == Spec => []SessionsCounted
  <1>1. IInv => SessionsCounted
    BY DEF IInv, PlacesInv, Places, SessionsCounted
  <1> QED BY <1>1, Invariant, PTL

(* No thread sleeps in svcReplyAndReceive on a session or port that is      *)
(* ready, other than after a reply of another thread on that session.       *)
THEOREM NoLostWakeupCorrect == Spec => []NoLostWakeup
  <1>1. IInv => NoLostWakeup
    <2> SUFFICES ASSUME IInv, NEW t \in Servers, status[t] = "WaitSynchAny"
                 PROVE  /\ pending_sessions = << >>
                        /\ \A s \in wait_objects[t] \cap Ids : Ready(s, None) => s \in missed
      BY DEF NoLostWakeup
    <2>1. ServerInv(t)
      BY DEF IInv
    <2>2. \A s \in Ids : Handling(None)[s] = currently_handling[s]
      BY SessionsAssumption DEF Handling
    <2> QED BY <2>1, <2>2 DEF ServerInv, Ready
  <1> QED BY <1>1, Invariant, PTL

(* A client that sleeps has exactly one reason to, one that runs has none,  *)
(* and one that was stopped is held in one place at most.                   *)
THEOREM RequestsTracked == Spec => []RequestTracked
  <1>1. IInv => RequestTracked
    <2> SUFFICES ASSUME IInv, NEW c \in Clients
                 PROVE  LET at == {s \in Ids : c \in Held(s)}
                            reasons == {<<"session", s>> : s \in at}
                                       \cup {<<"timer", c>> : x \in {c} \cap timer}
                                       \cup {<<"orphan", c>> : x \in {c} \cap orphans}
                        IN  /\ status[c] = "WaitIPC" => Cardinality(reasons) = 1
                            /\ status[c] = "Running" => reasons = {}
                            /\ status[c] = "Dead" => Cardinality(reasons) <= 1
                            /\ \A s \in at :
                                  /\ client[s] /\ server[s] \in {"queued", "open"}
                                  /\ currently_handling[s] = c => c \notin Listed(s)
                                  /\ Cardinality({i \in DOMAIN pending_requesting_threads[s] :
                                         pending_requesting_threads[s][i] = c}) <= 1
      BY DEF RequestTracked
    <2> DEFINE at == {s \in Ids : c \in Held(s)}
               bySession == {<<"session", s>> : s \in at}
               byTimer == {<<"timer", c>> : x \in {c} \cap timer}
               byOrphan == {<<"orphan", c>> : x \in {c} \cap orphans}
               reasons == bySession \cup byTimer \cup byOrphan
    <2>1. ClientInv(c) /\ \A s \in Ids : SessionInv(s)
      BY DEF IInv
    <2>2. /\ byTimer = IF c \in timer THEN {<<"timer", c>>} ELSE {}
          /\ byOrphan = IF c \in orphans THEN {<<"orphan", c>>} ELSE {}
      OBVIOUS
    <2>3. at = {} => bySession = {}
      OBVIOUS
    <2>4. ASSUME NEW s \in at PROVE at = {s} /\ bySession = {<<"session", s>>}
      BY <2>1 DEF ClientInv
    <2>5. at # {} => c \notin timer /\ c \notin orphans /\ status[c] # "Running"
      BY <2>1 DEF ClientInv
    <2>6. status[c] = "WaitIPC" => c \in timer \/ c \in orphans \/ at # {}
      BY <2>1 DEF ClientInv
    <2>7. /\ c \in timer => c \notin orphans /\ status[c] # "Running"
          /\ c \in orphans => status[c] # "Running"
      BY <2>1 DEF ClientInv
    <2> HIDE DEF at, bySession, byTimer, byOrphan
    <2>8. status[c] = "WaitIPC" => \E x : reasons = {x}
      BY <2>2, <2>3, <2>4, <2>5, <2>6, <2>7
    <2>9. status[c] = "WaitIPC" => Cardinality(reasons) = 1
      BY <2>8, FS_Singleton
    <2>10. status[c] = "Running" => reasons = {}
      BY <2>2, <2>3, <2>5, <2>7
    <2>11. ASSUME NEW s \in at
           PROVE  /\ client[s] /\ server[s] \in {"queued", "open"}
                  /\ currently_handling[s] = c => c \notin Listed(s)
                  /\ Cardinality({i \in DOMAIN pending_requesting_threads[s] :
                         pending_requesting_threads[s][i] = c}) <= 1
      <3>1. s \in Ids /\ c \in Held(s)
        BY DEF at
      <3>2. /\ client[s] /\ server[s] \in {"queued", "open"}
            /\ currently_handling[s] \notin Listed(s)
        BY <2>1, <3>1 DEF SessionInv
      <3> DEFINE q == pending_requesting_threads[s]
                 I == {i \in DOMAIN q : q[i] = c}
      <3>3. \A i, j \in I : i = j
        BY <2>1, <3>1 DEF SessionInv, Holds
      <3>4. I = {} \/ \E i : I = {i}
        BY <3>3
      <3> HIDE DEF I
      <3>5. Cardinality(I) <= 1
        BY <3>4, FS_EmptySet, FS_Singleton
      <3> QED BY <3>2, <3>5 DEF I
    <2>12. reasons = {} \/ \E x : reasons = {x}
      <3>1. CASE at # {}
        <4>1. byTimer = {} /\ byOrphan = {}
          BY <2>2, <2>5, <3>1
        <4>2. \E x : bySession = {x}
          BY <2>4, <3>1
        <4> QED BY <4>1, <4>2
      <3>2. CASE at = {}
        <4>1. bySession = {} /\ (byTimer = {} \/ byOrphan = {})
          BY <2>2, <2>3, <2>7, <3>2
        <4>2. /\ byTimer = {} \/ \E x : byTimer = {x}
              /\ byOrphan = {} \/ \E x : byOrphan = {x}
          BY <2>2
        <4> QED BY <4>1, <4>2
      <3> QED BY <3>1, <3>2
    <2>13. Cardinality(reasons) = 0 \/ Cardinality(reasons) = 1
      <3>1. CASE reasons = {}
        BY <3>1, FS_EmptySet
      <3>2. CASE \E x : reasons = {x}
        BY <3>2, FS_Singleton
      <3> QED BY <2>12, <3>1, <3>2
    <2>14. Cardinality(reasons) <= 1
      BY <2>13
    <2> QED BY <2>9, <2>10, <2>11, <2>14 DEF at, bySession, byTimer, byOrphan
  <1> QED BY <1>1, Invariant, PTL

-----------------------------------------------------------------------------
(* Sessions implement RequestReply *)

IsListed(c) == \E s \in Ids : c \in Listed(s)
IsHandled(c) == \E s \in Ids : currently_handling[s] = c

(* The state of a request, from what is known of the caller. *)
StateFor(dead, orphan, delayed, listed, handled) ==
    IF dead THEN "gone"
    ELSE IF orphan THEN "dropped"
    ELSE IF delayed THEN "hle"
    ELSE IF listed THEN "asked"
    ELSE IF handled THEN "taken"
    ELSE "none"

StateInv ==
    \A c \in Clients : RequestState[c] = StateFor(status[c] = "Dead", c \in orphans, c \in timer,
                                                  IsListed(c), IsHandled(c))

(* No caller is lost: one that runs has no request, one that sleeps has. *)
LEMMA StateIs == IInv => StateInv
  <1> SUFFICES ASSUME IInv, NEW c \in Clients
               PROVE  RequestState[c] = StateFor(status[c] = "Dead", c \in orphans, c \in timer,
                                                 IsListed(c), IsHandled(c))
    BY DEF StateInv
  <1>1. ClientInv(c) /\ status[c] \in {"Running", "WaitIPC", "Dead"}
    BY DEF IInv, TypeInv, StatusInv, Threads
  <1>2. (IsListed(c) \/ IsHandled(c)) <=> \E s \in Ids : c \in Held(s)
    BY SessionsAssumption DEF IsListed, IsHandled, Held
  <1>3. CASE status[c] = "Running"
    <2>1. ~IsListed(c) /\ ~IsHandled(c) /\ c \notin timer /\ c \notin orphans
      BY <1>1, <1>2, <1>3 DEF ClientInv
    <2> QED BY <1>3, <2>1 DEF RequestState, StateFor
  <1>4. CASE status[c] = "WaitIPC"
    <2>1. IsListed(c) \/ IsHandled(c) \/ c \in timer \/ c \in orphans
      BY <1>1, <1>2, <1>4 DEF ClientInv
    <2>2. RequestState[c] = IF c \in orphans THEN "dropped"
                            ELSE IF c \in timer THEN "hle"
                            ELSE IF IsListed(c) THEN "asked"
                            ELSE IF IsHandled(c) THEN "taken"
                            ELSE "lost"
      BY <1>4 DEF RequestState, IsListed, IsHandled
    <2> QED BY <1>4, <2>1, <2>2 DEF StateFor
  <1>5. CASE status[c] = "Dead"
    BY <1>5 DEF RequestState, StateFor
  <1> QED BY <1>1, <1>3, <1>4, <1>5

LEMMA StateIsNext == IInv' => StateInv'
  BY StateIs, PTL

LEMMA StateOf ==
    ASSUME IInv
    PROVE  \A c \in Clients :
               RequestState[c] = StateFor(status[c] = "Dead", c \in orphans, c \in timer,
                                          IsListed(c), IsHandled(c))
  BY StateIs DEF StateInv

LEMMA StateOfNext ==
    ASSUME IInv'
    PROVE  \A c \in Clients :
               RequestState'[c] = StateFor(status'[c] = "Dead", c \in orphans', c \in timer',
                                           IsListed(c)', IsHandled(c)')
  <1>1. StateInv'
    BY StateIsNext
  <1> QED BY <1>1 DEF StateInv, StateFor

(* The session of a request is the one that holds it. *)
AtInv ==
    \A c \in Clients : /\ \A s \in Ids : c \in Held(s) => RequestAt[c] = s
                       /\ (\A s \in Ids : c \notin Held(s)) => RequestAt[c] = None

LEMMA AtIs == IInv => AtInv
  <1> SUFFICES ASSUME IInv, NEW c \in Clients
               PROVE  /\ \A s \in Ids : c \in Held(s) => RequestAt[c] = s
                      /\ (\A s \in Ids : c \notin Held(s)) => RequestAt[c] = None
    BY DEF AtInv
  <1>1. ClientInv(c)
    BY DEF IInv
  <1>2. ASSUME NEW s \in Ids, c \in Held(s) PROVE RequestAt[c] = s
    <2>1. RequestAt[c] = CHOOSE r \in Ids : c \in Held(r)
      BY <1>2 DEF RequestAt
    <2>2. \A r \in Ids : c \in Held(r) => r = s
      BY <1>1, <1>2 DEF ClientInv
    <2> HIDE DEF RequestAt
    <2>3. (CHOOSE r \in Ids : c \in Held(r)) \in Ids /\ c \in Held(CHOOSE r \in Ids : c \in Held(r))
      BY <1>2
    <2> QED BY <2>1, <2>2, <2>3
  <1>3. (\A s \in Ids : c \notin Held(s)) => RequestAt[c] = None
    BY DEF RequestAt
  <1> QED BY <1>2, <1>3

LEMMA AtIsNext == IInv' => AtInv'
  BY AtIs, PTL

(* Allowed(a, b): a request may go from state a to state b. *)
Allowed(a, b) ==
    \/ a = "none" /\ b \in {"asked", "taken", "hle"}
    \/ a = "asked" /\ b = "taken"
    \/ a = "taken" /\ b = "none"
    \/ a = "hle" /\ b = "none"
    \/ b = "gone"

HeldAlike(c) == \A s \in Ids : c \in Held(s)' <=> c \in Held(s)

(* What one client may see of a step. *)
ClientMove(c) ==
    \/ RequestState'[c] = RequestState[c] /\ HeldAlike(c)
    \/ RequestState'[c] = "gone"
    \/ /\ RequestState[c] \in {"asked", "taken"} /\ RequestState'[c] = "dropped"
       /\ \E s \in Ids : c \in Held(s) /\ s \in Ended'
    \/ /\ Allowed(RequestState[c], RequestState'[c])
       /\ RequestState[c] = "asked" => HeldAlike(c)

(* x is the only client that may be answered and y the only one that may be *)
(* taken by a step.                                                         *)
AnswersOnly(x) ==
    \A c \in Clients : RequestState[c] = "taken" /\ RequestState'[c] = "none" => c = x
TakesOnly(y) ==
    \A c \in Clients : RequestState[c] \in {"asked", "none"} /\ RequestState'[c] = "taken" => c = y

LEMMA RefinedStep ==
    ASSUME IInv, IInv', NEW x, NEW y, \A c \in Clients : ClientMove(c), AnswersOnly(x), TakesOnly(y)
    PROVE  Requests!Next
  <1>1. AtInv /\ AtInv'
    BY AtIs, AtIsNext
  <1>2. \A c \in Clients : RequestState[c] \in {"none", "asked", "taken", "hle", "dropped", "gone"}
    BY StateOf DEF StateFor
  <1>3. ASSUME NEW c \in Clients, HeldAlike(c) PROVE RequestAt'[c] = RequestAt[c]
    <2>1. CASE \E s \in Ids : c \in Held(s)
      BY <1>1, <1>3, <2>1 DEF HeldAlike, AtInv
    <2>2. CASE \A s \in Ids : c \notin Held(s)
      BY <1>1, <1>3, <2>2 DEF HeldAlike, AtInv
    <2> QED BY <2>1, <2>2
  <1>4. ASSUME NEW c \in Clients, RequestState[c] # RequestState'[c]
        PROVE  \/ <<RequestState[c], RequestState'[c]>> \in Requests!Moves
               \/ /\ RequestAt[c] \in Ended'
                  /\ <<RequestState[c], RequestState'[c]>> \in Requests!EndMoves
    <2>1. CASE Allowed(RequestState[c], RequestState'[c])
      BY <1>2, <2>1 DEF Allowed, Requests!Moves, Requests!States, Requests!Waiting,
                        Requests!AtSession
    <2>2. CASE /\ RequestState[c] \in {"asked", "taken"} /\ RequestState'[c] = "dropped"
               /\ \E s \in Ids : c \in Held(s) /\ s \in Ended'
      <3>1. RequestAt[c] \in Ended'
        BY <1>1, <2>2 DEF AtInv
      <3> QED BY <2>2, <3>1 DEF Requests!EndMoves, Requests!AtSession
    <2> QED BY <1>4, <2>1, <2>2 DEF ClientMove, Allowed
  <1>5. ASSUME NEW c \in Clients, RequestState[c] \in Requests!Waiting,
               RequestState'[c] \in Requests!Waiting
        PROVE  RequestAt'[c] = RequestAt[c]
    <2>1. HeldAlike(c)
      BY <1>5 DEF ClientMove, Allowed, Requests!Waiting, Requests!AtSession
    <2> QED BY <1>3, <2>1
  <1>6. ASSUME NEW c \in Clients, NEW d \in Clients, c # d, RequestState'[c] = "taken",
               RequestState'[d] = "taken"
        PROVE  RequestAt'[c] # RequestAt'[d]
    <2>1. ASSUME NEW e \in Clients, RequestState'[e] = "taken"
          PROVE  \E s \in Ids : currently_handling'[s] = e /\ RequestAt'[e] = s
      <3>1. IsHandled(e)'
        BY <2>1, StateOfNext DEF StateFor
      <3>2. PICK s \in Ids : currently_handling'[s] = e
        BY <3>1 DEF IsHandled
      <3>3. e \in Held(s)'
        BY <3>2, SessionsAssumption DEF Held
      <3> QED BY <1>1, <3>2, <3>3 DEF AtInv
    <2> QED BY <1>6, <2>1
  <1>7. Requests!AtMostOne({c \in Requests!Did("taken", "none") : RequestAt[c] \notin Ended'})
    BY DEF AnswersOnly, Requests!Did, Requests!AtMostOne
  <1>8. Requests!AtMostOne(Requests!Did("asked", "taken") \cup Requests!Did("none", "taken"))
    BY DEF TakesOnly, Requests!Did, Requests!AtMostOne
  <1>9. ASSUME NEW c \in Clients, RequestState'[c] \in Requests!AtSession
        PROVE  RequestAt'[c] \notin Ended'
    <2>1. IsListed(c)' \/ IsHandled(c)'
      BY <1>9, StateOfNext DEF StateFor, Requests!AtSession
    <2>2. PICK s \in Ids : c \in Held(s)'
      BY <2>1, SessionsAssumption DEF IsListed, IsHandled, Held
    <2>3. client'[s] /\ server'[s] \in {"queued", "open"}
      BY <2>2 DEF IInv, SessionInv
    <2>4. RequestAt'[c] = s
      BY <1>1, <2>2 DEF AtInv
    <2> QED BY <2>3, <2>4 DEF Ended
  <1> QED BY <1>4, <1>5, <1>6, <1>7, <1>8, <1>9 DEF Requests!Next

(* A client whose part of the state is as before. *)
LEMMA MoveFrame ==
    ASSUME NEW c \in Clients, status'[c] = status[c], c \in timer' <=> c \in timer,
           c \in orphans' <=> c \in orphans,
           \A r \in Ids : /\ c \in Listed(r)' <=> c \in Listed(r)
                          /\ currently_handling'[r] = c <=> currently_handling[r] = c
    PROVE  RequestState'[c] = RequestState[c] /\ HeldAlike(c)
  <1>1. (IsListed(c)' <=> IsListed(c)) /\ (IsHandled(c)' <=> IsHandled(c))
    BY DEF IsListed, IsHandled
  <1>2. RequestState'[c] = RequestState[c]
    BY <1>1 DEF RequestState, IsListed, IsHandled
  <1>3. HeldAlike(c)
    BY DEF HeldAlike, Held
  <1> QED BY <1>2, <1>3

(* Steps that no caller notices. *)
LEMMA RefinedFrame ==
    ASSUME IInv, IInv', UNCHANGED <<pending_requesting_threads, currently_handling, timer, orphans>>,
           \A c \in Clients : status'[c] = status[c]
    PROVE  Requests!Next
  <1>1. \A r \in Ids : /\ Listed(r)' = Listed(r)
                       /\ currently_handling'[r] = currently_handling[r]
    BY HeldFrame
  <1>2. \A c \in Clients : RequestState'[c] = RequestState[c] /\ HeldAlike(c)
    BY <1>1, MoveFrame
  <1> QED BY <1>2, RefinedStep DEF ClientMove, AnswersOnly, TakesOnly

(* A running client has no request, and a client that a session holds is    *)
(* neither delayed nor orphaned.                                            *)
LEMMA StateKnown ==
    ASSUME IInv, NEW c \in Clients
    PROVE  /\ status[c] = "Running" => /\ RequestState[c] = "none"
                                       /\ \A r \in Ids : c \notin Held(r)
                                       /\ c \notin timer /\ c \notin orphans
           /\ \A s \in Ids : c \in Listed(s) => /\ c \notin timer /\ c \notin orphans
                                                /\ ~IsHandled(c) /\ IsListed(c)
           /\ \A s \in Ids : currently_handling[s] = c => /\ c \notin timer /\ c \notin orphans
                                                          /\ ~IsListed(c) /\ IsHandled(c)
           /\ \A s \in Ids : c \in Held(s) => status[c] \in {"WaitIPC", "Dead"}
  <1>1. ClientInv(c) /\ \A s \in Ids : SessionInv(s)
    BY DEF IInv
  <1>2. \A s \in Ids : (c \in Listed(s) \/ currently_handling[s] = c) => c \in Held(s)
    BY SessionsAssumption DEF Held
  <1>3. ASSUME status[c] = "Running"
        PROVE  RequestState[c] = "none" /\ (\A r \in Ids : c \notin Held(r))
               /\ c \notin timer /\ c \notin orphans
    <2>1. /\ \A s \in Ids : c \notin Held(s)
          /\ c \notin timer /\ c \notin orphans
      BY <1>1, <1>3 DEF ClientInv
    <2>2. ~IsListed(c) /\ ~IsHandled(c)
      BY <1>2, <2>1 DEF IsListed, IsHandled
    <2> QED BY <1>3, <2>1, <2>2, StateOf DEF StateFor
  <1>4. ASSUME NEW s \in Ids, c \in Listed(s)
        PROVE  c \notin timer /\ c \notin orphans /\ ~IsHandled(c) /\ IsListed(c)
    <2>1. \A r \in Ids : currently_handling[r] # c
      BY <1>1, <1>2, <1>4 DEF ClientInv, SessionInv
    <2> QED BY <1>1, <1>2, <1>4, <2>1 DEF ClientInv, IsListed, IsHandled
  <1>5. ASSUME NEW s \in Ids, currently_handling[s] = c
        PROVE  c \notin timer /\ c \notin orphans /\ ~IsListed(c) /\ IsHandled(c)
    <2>1. \A r \in Ids : c \notin Listed(r)
      BY <1>1, <1>2, <1>5 DEF ClientInv, SessionInv
    <2> QED BY <1>1, <1>2, <1>5, <2>1 DEF ClientInv, IsListed, IsHandled
  <1>6. ASSUME NEW s \in Ids, c \in Held(s) PROVE status[c] \in {"WaitIPC", "Dead"}
    BY <1>1, <1>6 DEF ClientInv, IInv, TypeInv, StatusInv, Threads
  <1> QED BY <1>3, <1>4, <1>5, <1>6

(* Every step of Sessions is a step of RequestReply. *)
LEMMA RefinementStep ==
    ASSUME IInv, IInv', [Next]_vars
    PROVE  Requests!Next
  <1> DEFINE Goal == Requests!Next
  <1>0. TypeInv /\ TypeInv'
    BY DEF IInv
  <1>1. ASSUME NEW c \in Clients, NEW s \in Ids, NEW p \in Ports, Connect(c, s, p) PROVE Goal
    <2>1. NewSession(s, p, IF p = "hle" THEN "handler" ELSE "queued")
      BY <1>1 DEF Connect
    <2>2. \A d \in Clients : status'[d] = status[d]
      BY <1>1, SessionsAssumption DEF Connect, SleepAndResume, Waiting, Threads
    <2> QED BY <2>1, <2>2, NewSessionFacts, RefinedFrame
  <1>2. ASSUME NEW t \in Servers, NEW s \in Ids, CreateSession(t, s) PROVE Goal
    BY <1>2, NewSessionFacts, RefinedFrame DEF CreateSession
  <1>3. ASSUME NEW t \in Servers, Accept(t) PROVE Goal
    BY <1>3, AcceptFacts, RefinedFrame
  <1>4. CASE UNCHANGED vars
    BY <1>4, RefinedFrame DEF vars, threadVars, sessionVars
  <1>5. ASSUME NEW c \in Clients, NEW s \in Ids, SendSyncRequest(c, s) PROVE Goal
    <2>1. /\ status[c] = "Running" /\ status'[c] = "WaitIPC"
          /\ \A d \in Clients : d # c => status'[d] = status[d]
          /\ UNCHANGED <<timer, orphans>>
      <3>1. status[c] = "Running" /\ UNCHANGED <<timer, orphans>>
        BY <1>0, <1>5, SendEffect
      <3>2. \A d \in Clients : status'[d] = IF d = c THEN "WaitIPC" ELSE status[d]
        BY <1>5, SendHolds
      <3> QED BY <3>1, <3>2
    <2>2. /\ \A r \in Ids : r # s => /\ Listed(r)' = Listed(r)
                                     /\ currently_handling'[r] = currently_handling[r]
          /\ \/ /\ Listed(s)' = Listed(s) \cup {c}
                /\ currently_handling'[s] = currently_handling[s]
             \/ /\ Listed(s)' = Listed(s)
                /\ currently_handling[s] = None /\ currently_handling'[s] = c
      BY <1>5, SendHolds
    <2>3. /\ RequestState[c] = "none" /\ c \notin timer /\ c \notin orphans
      BY <2>1, StateKnown
    <2>4. RequestState'[c] \in {"asked", "taken"}
      <3>1. IsListed(c)' \/ IsHandled(c)'
        BY <2>2 DEF IsListed, IsHandled
      <3> QED BY <2>1, <2>3, <3>1, StateOfNext DEF StateFor
    <2>5. ASSUME NEW d \in Clients, d # c PROVE RequestState'[d] = RequestState[d] /\ HeldAlike(d)
      <3>1. \A r \in Ids : /\ d \in Listed(r)' <=> d \in Listed(r)
                           /\ currently_handling'[r] = d <=> currently_handling[r] = d
        BY <2>2, <2>5, SessionsAssumption
      <3> QED BY <2>1, <2>5, <3>1, MoveFrame
    <2>6. \A d \in Clients : ClientMove(d)
      BY <2>3, <2>4, <2>5 DEF ClientMove, Allowed
    <2>7. AnswersOnly(c) /\ TakesOnly(c)
      BY <2>5 DEF AnswersOnly, TakesOnly
    <2> QED BY <2>6, <2>7, RefinedStep
  <1>6. ASSUME NEW c \in Clients, UNCHANGED <<pending_requesting_threads, currently_handling>>,
               \A d \in Clients : d # c => /\ status'[d] = status[d]
                                           /\ d \in timer' <=> d \in timer
                                           /\ d \in orphans' <=> d \in orphans,
               \/ RequestState[c] = "none" /\ RequestState'[c] = "hle"
               \/ RequestState[c] = "hle" /\ RequestState'[c] = "none"
               \/ RequestState'[c] = "gone"
        PROVE  Goal
    <2>1. \A r \in Ids : /\ Listed(r)' = Listed(r)
                         /\ currently_handling'[r] = currently_handling[r]
      BY <1>6, HeldFrame
    <2>2. ASSUME NEW d \in Clients, d # c PROVE RequestState'[d] = RequestState[d] /\ HeldAlike(d)
      BY <1>6, <2>1, <2>2, MoveFrame
    <2>3. \A d \in Clients : ClientMove(d)
      BY <1>6, <2>2 DEF ClientMove, Allowed
    <2>4. AnswersOnly(c) /\ TakesOnly(c)
      BY <2>2 DEF AnswersOnly, TakesOnly
    <2> QED BY <2>3, <2>4, RefinedStep
  <1>7. ASSUME NEW c \in Clients, NEW s \in Ids, SendHleRequest(c, s) PROVE Goal
    <2>1. /\ status[c] = "Running" /\ timer' = timer \cup {c} /\ orphans' = orphans
          /\ UNCHANGED <<pending_requesting_threads, currently_handling>>
          /\ \A d \in Clients : status'[d] = IF d = c THEN "WaitIPC" ELSE status[d]
      BY <1>7 DEF SendHleRequest, SleepAndResume, sessionVars, Threads
    <2>2. RequestState[c] = "none" /\ c \notin orphans
      BY <2>1, StateKnown
    <2>3. RequestState'[c] = "hle"
      BY <2>1, <2>2, StateOfNext DEF StateFor
    <2> QED BY <1>6, <2>1, <2>2, <2>3
  <1>8. ASSUME NEW c \in Clients, HleDelayEnds(c) PROVE Goal
    <2>1. /\ c \in timer /\ timer' = timer \ {c} /\ orphans' = orphans
          /\ UNCHANGED <<pending_requesting_threads, currently_handling>>
          /\ \A d \in Clients :
                status'[d] = IF d = c /\ status[d] # "Dead" THEN "Running" ELSE status[d]
      BY <1>8 DEF HleDelayEnds, SleepAndResume, sessionVars, Threads
    <2>2. ClientInv(c)
      BY DEF IInv
    <2>3. status[c] = "WaitIPC" /\ c \notin orphans /\ \A r \in Ids : c \notin Held(r)
      BY <2>1, <2>2 DEF ClientInv
    <2>4. RequestState[c] = "hle"
      BY <2>1, <2>3, StateOf DEF StateFor
    <2>5. ~IsListed(c)' /\ ~IsHandled(c)'
      <3>1. \A r \in Ids : c \notin Listed(r) /\ currently_handling[r] # c
        BY <2>3, SessionsAssumption DEF Held
      <3> QED BY <2>1, <3>1, HeldFrame DEF IsListed, IsHandled
    <2>6. RequestState'[c] = "none"
      BY <2>1, <2>3, <2>5, StateOfNext DEF StateFor
    <2> QED BY <1>6, <2>1, <2>4, <2>6
  <1>15. ASSUME NEW t \in Mortal, t \notin Clients, Kill(t) PROVE Goal
    <2>1. /\ timer' = timer /\ orphans' = orphans
          /\ UNCHANGED <<pending_requesting_threads, currently_handling>>
          /\ \A d \in Clients : status'[d] = status[d]
      BY <1>0, <1>15 DEF Kill, sessionVars, TypeInv, Threads
    <2> QED BY <2>1, RefinedFrame
  <1>9. ASSUME NEW c \in Clients, Kill(c) PROVE Goal
    <2>1. /\ timer' = timer \ {c} /\ orphans' = orphans
          /\ UNCHANGED <<pending_requesting_threads, currently_handling>>
          /\ \A d \in Clients : status'[d] = IF d = c THEN "Dead" ELSE status[d]
      BY <1>0, <1>9 DEF Kill, sessionVars, TypeInv, Threads
    <2>2. RequestState'[c] = "gone"
      BY <2>1, StateOfNext DEF StateFor
    <2> QED BY <1>6, <2>1, <2>2
  <1>10. ASSUME NEW target \in Ids \cup {None}, NEW t \in Servers,
                Reply(t, target) \/ Wait(t, target) \/ \E s \in Ids : Receive(t, target, s),
                NEW y,
                \A r \in Ids, d \in Clients :
                    d # y => /\ d \in Listed(r)' <=> d \in Listed(r)
                             /\ d \notin Answered(target) =>
                                    (currently_handling'[r] = d <=> currently_handling[r] = d),
                y \in Clients =>
                    /\ y \notin Answered(target)
                    /\ IsListed(y) /\ IsHandled(y)' /\ ~IsListed(y)'
         PROVE  Goal
    <2>1. /\ target # None => currently_handling[target] # None
          /\ UNCHANGED <<timer, orphans>>
          /\ \A d \in Clients :
                status'[d] = IF d \in Answered(target) /\ status[d] # "Dead" THEN "Running"
                                                                            ELSE status[d]
          /\ \A r \in Ids, d \in Clients :
                d \in Held(r)' <=> d \in Held(r) /\ d \notin Answered(target)
      BY <1>10, HeldAfterReply
    <2>2. ASSUME NEW d \in Clients, d # y, d \notin Answered(target)
          PROVE  RequestState'[d] = RequestState[d] /\ HeldAlike(d)
      BY <1>10, <2>1, <2>2, MoveFrame
    <2>3. ASSUME NEW d \in Clients, d \in Answered(target)
          PROVE  /\ RequestState[d] \in {"taken", "gone"}
                 /\ RequestState'[d] = IF RequestState[d] = "gone" THEN "gone" ELSE "none"
      <3>1. target \in Ids /\ currently_handling[target] = d
        BY <2>1, <2>3, SessionsAssumption DEF Answered
      <3>2. d \notin timer /\ d \notin orphans /\ ~IsListed(d) /\ IsHandled(d)
        BY <3>1, StateKnown
      <3>3. ~IsListed(d)' /\ ~IsHandled(d)'
        <4>1. \A r \in Ids : d \notin Held(r)'
          BY <2>1, <2>3
        <4> QED BY <4>1, SessionsAssumption DEF IsListed, IsHandled, Held
      <3>4. CASE status[d] = "Dead"
        BY <2>1, <3>4, StateOf, StateOfNext DEF StateFor
      <3>5. CASE status[d] # "Dead"
        BY <2>1, <2>3, <3>2, <3>3, <3>5, StateOf, StateOfNext DEF StateFor
      <3> QED BY <3>4, <3>5
    <2>4. ASSUME y \in Clients
          PROVE  /\ RequestState[y] \in {"asked", "gone"}
                 /\ RequestState'[y] = IF RequestState[y] = "gone" THEN "gone" ELSE "taken"
                 /\ HeldAlike(y)
      <3>1. y \notin timer /\ y \notin orphans
        BY <1>10, <2>4, StateKnown DEF IsListed
      <3>2. status'[y] = status[y]
        BY <1>10, <2>1, <2>4
      <3>3. HeldAlike(y)
        BY <1>10, <2>1, <2>4 DEF HeldAlike
      <3> QED BY <1>10, <2>1, <2>4, <3>1, <3>2, <3>3, StateOf, StateOfNext DEF StateFor
    <2>5. \A d \in Clients : ClientMove(d)
      BY <2>2, <2>3, <2>4 DEF ClientMove, Allowed
    <2>6. TakesOnly(y)
      <3> SUFFICES ASSUME NEW d \in Clients, RequestState[d] \in {"asked", "none"},
                          RequestState'[d] = "taken", d # y
                   PROVE  FALSE
        BY DEF TakesOnly
      <3> QED BY <2>2, <2>3
    <2>7. \E x : AnswersOnly(x)
      <3>1. \E x : Answered(target) \subseteq {x}
        BY DEF Answered
      <3>2. ASSUME NEW d \in Clients, RequestState[d] = "taken", RequestState'[d] = "none"
            PROVE  d \in Answered(target)
        BY <2>2, <2>4, <3>2
      <3> QED BY <3>1, <3>2 DEF AnswersOnly
    <2> QED BY <2>5, <2>6, <2>7, RefinedStep
  <1>11. ASSUME NEW t \in Servers, NEW target \in Ids \cup {None}, Reply(t, target) \/ Wait(t, target)
         PROVE  Goal
    <2>1. /\ \A r \in Ids : Listed(r)' = Listed(r)
          /\ \A r \in Ids : currently_handling'[r] =
                                IF r = target THEN None ELSE currently_handling[r]
      BY <1>11, ReplyHolds
    <2>2. \A r \in Ids, d \in Clients :
              /\ d \in Listed(r)' <=> d \in Listed(r)
              /\ d \notin Answered(target) =>
                     (currently_handling'[r] = d <=> currently_handling[r] = d)
      BY <2>1, SessionsAssumption DEF Answered
    <2>3. None \notin Clients
      BY SessionsAssumption
    <2> QED BY <1>10, <1>11, <2>2, <2>3
  <1>12. ASSUME NEW t \in Servers, NEW target \in Ids \cup {None}, NEW s \in Ids,
                Receive(t, target, s), ~client[s]
         PROVE  Goal
    <2>1. /\ \A r \in Ids : Listed(r)' = Listed(r)
          /\ \A r \in Ids : currently_handling'[r] =
                                IF r = target THEN None ELSE currently_handling[r]
      BY <1>12, ReceiveHolds
    <2>2. \A r \in Ids, d \in Clients :
              /\ d \in Listed(r)' <=> d \in Listed(r)
              /\ d \notin Answered(target) =>
                     (currently_handling'[r] = d <=> currently_handling[r] = d)
      BY <2>1, SessionsAssumption DEF Answered
    <2>3. None \notin Clients
      BY SessionsAssumption
    <2> QED BY <1>10, <1>12, <2>2, <2>3
  <1>13. ASSUME NEW t \in Servers, NEW target \in Ids \cup {None}, NEW s \in Ids,
                Receive(t, target, s), client[s]
         PROVE  Goal
    <2>1. /\ s = target \/ currently_handling[s] = None
          /\ \A r \in Ids : r # s =>
                /\ Listed(r)' = Listed(r)
                /\ currently_handling'[r] = IF r = target THEN None ELSE currently_handling[r]
      BY <1>13, ReceiveHolds
    <2>2. PICK y \in Listed(s) : Listed(s)' = Listed(s) \ {y} /\ currently_handling'[s] = y
      BY <1>13, ReceiveHolds
    <2>3. y \in Clients /\ currently_handling[s] # y
      BY <2>2, NoneNotListed DEF IInv, SessionInv
    <2>4. IsListed(y) /\ ~IsHandled(y) /\ IsHandled(y)' /\ ~IsListed(y)'
      <3>1. IsListed(y) /\ ~IsHandled(y)
        BY <2>2, <2>3, StateKnown
      <3>2. \A r \in Ids : y \in Listed(r) => r = s
        BY <2>2, <2>3 DEF IInv, ClientInv, Held
      <3> QED BY <2>1, <2>2, <3>1, <3>2 DEF IsListed, IsHandled
    <2>5. y \notin Answered(target)
      BY <2>4 DEF Answered, IsHandled
    <2>6. \A r \in Ids, d \in Clients :
              d # y => /\ d \in Listed(r)' <=> d \in Listed(r)
                       /\ d \notin Answered(target) =>
                              (currently_handling'[r] = d <=> currently_handling[r] = d)
      <3> SUFFICES ASSUME NEW r \in Ids, NEW d \in Clients, d # y
                   PROVE  /\ d \in Listed(r)' <=> d \in Listed(r)
                          /\ d \notin Answered(target) =>
                                 (currently_handling'[r] = d <=> currently_handling[r] = d)
        OBVIOUS
      <3>1. CASE r = s
        BY <2>1, <2>2, <3>1, SessionsAssumption DEF Answered
      <3>2. CASE r # s
        BY <2>1, <3>2, SessionsAssumption DEF Answered
      <3> QED BY <3>1, <3>2
    <2> QED BY <1>10, <1>13, <2>4, <2>5, <2>6
  <1>14. ASSUME NEW s \in Ids, CloseClient(s) \/ CloseServer(s) PROVE Goal
    <2>1. /\ Listed(s)' = {} /\ currently_handling'[s] = None
          /\ \A r \in Ids : r # s => /\ Listed(r)' = Listed(r)
                                     /\ currently_handling'[r] = currently_handling[r]
          /\ \A c \in Clients : status'[c] = status[c]
          /\ timer' = timer
          /\ orphans' = orphans \cup {c \in Held(s) : status[c] = "WaitIPC"}
      BY <1>14, CloseFacts
    <2>2. ASSUME NEW d \in Clients, d \in Held(s)
          PROVE  \/ RequestState'[d] = "gone"
                 \/ RequestState[d] \in {"asked", "taken"} /\ RequestState'[d] = "dropped"
      <3>1. status[d] \in {"WaitIPC", "Dead"} /\ status'[d] = status[d]
        BY <2>1, <2>2, StateKnown
      <3>2. CASE status[d] = "Dead"
        BY <3>1, <3>2, StateOfNext DEF StateFor
      <3>3. CASE status[d] = "WaitIPC"
        <4>1. d \in Listed(s) \/ currently_handling[s] = d
          BY <2>2 DEF Held
        <4>2. d \notin timer /\ d \notin orphans /\ (IsListed(d) \/ IsHandled(d))
          BY <4>1, StateKnown
        <4>3. RequestState[d] \in {"asked", "taken"}
          BY <3>3, <4>2, StateOf DEF StateFor
        <4>4. d \in orphans'
          BY <2>1, <2>2, <3>3
        <4> QED BY <3>1, <3>3, <4>3, <4>4, StateOfNext DEF StateFor
      <3> QED BY <3>1, <3>2, <3>3
    <2>6. s \in Ended'
      BY <1>0, <1>14 DEF CloseClient, CloseServer, Ended, TypeInv
    <2>3. ASSUME NEW d \in Clients, d \notin Held(s)
          PROVE  RequestState'[d] = RequestState[d] /\ HeldAlike(d)
      <3>1. d \notin Listed(s) /\ currently_handling[s] # d
        BY <2>3, SessionsAssumption DEF Held
      <3>2. \A r \in Ids : /\ d \in Listed(r)' <=> d \in Listed(r)
                           /\ currently_handling'[r] = d <=> currently_handling[r] = d
        BY <2>1, <3>1, SessionsAssumption
      <3> QED BY <2>1, <2>3, <3>2, MoveFrame
    <2>4. \A d \in Clients : ClientMove(d)
      BY <2>2, <2>3, <2>6 DEF ClientMove
    <2>5. AnswersOnly(None) /\ TakesOnly(None)
      BY <2>2, <2>3 DEF AnswersOnly, TakesOnly
    <2> QED BY <2>4, <2>5, RefinedStep
  <1> QED BY <1>1, <1>2, <1>3, <1>4, <1>5, <1>7, <1>8, <1>9, <1>11, <1>12, <1>13, <1>14, <1>15
          DEF Next

(* svcSendSyncRequest keeps its promise: a request is taken by one server   *)
(* thread at a time and answered only after that, on its session; it waits  *)
(* at no session that lost an end; no caller sleeps unknown to all; and one *)
(* that was stopped is not brought back.                                    *)
THEOREM RequestsRefined == Spec => ImplementsRequests
  <1>1. Init => Requests!Init
    <2> SUFFICES ASSUME Init PROVE Requests!Init
      OBVIOUS
    <2>1. \A s \in Ids : pending_requesting_threads[s] = << >> /\ currently_handling[s] = None
      BY DEF Init
    <2>2. \A s \in Ids : Listed(s) = {} /\ Held(s) = {}
      <3>1. \A s \in Ids : Holds(pending_requesting_threads[s], Clients, {})
        BY <2>1, EmptyHolds
      <3> QED BY <2>1, <3>1, HoldsRange DEF Listed, Held
    <2>3. \A c \in Clients : status[c] = "Running" /\ c \notin timer /\ c \notin orphans
      BY DEF Init, Threads
    <2>4. RequestState = [c \in Clients |-> "none"]
      BY <2>1, <2>2, <2>3, SessionsAssumption DEF RequestState
    <2>5. RequestAt = [c \in Clients |-> None]
      BY <2>2 DEF RequestAt
    <2> QED BY <2>4, <2>5 DEF Requests!Init
  <1>2. IInv /\ IInv' /\ [Next]_vars => [Requests!Next]_(Requests!requestVars)
    BY RefinementStep DEF Requests!requestVars
  <1> QED BY <1>1, <1>2, Invariant, PTL DEF Spec, ImplementsRequests, Requests!Spec
=============================================================================
