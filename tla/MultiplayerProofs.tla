------------------------- MODULE MultiplayerProofs -------------------------
(***************************************************************************)
(* Proofs about Multiplayer, for any number of players, of connections and *)
(* of slots.  The properties of the runs speak of the state in which a     *)
(* packet is handled; the inductive invariant says of every packet that is *)
(* on its way what its handling will find (Promises, Latest), and of every *)
(* connection that an end which goes leaves word for the other (LinkInv).  *)
(***************************************************************************)
EXTENDS Multiplayer, QueueLemmas, FiniteSetTheorems

-----------------------------------------------------------------------------
(* The inductive invariant *)

Success == {"JoinSuccess", "JoinSuccessAsMod"}

(* The answers that let a player in are preceded by a list it is on.  k is  *)
(* the list the player n has, d what is on its way to it.                   *)
Promises(d, n, k) ==
    \A i \in 1 .. Len(d) :
        d[i].type \in Success =>
            IF i = 1 THEN n \in k
            ELSE d[i - 1].type = "RoomInformation" /\ n \in d[i - 1].nicks

Welcomes(d) == \E i \in 1 .. Len(d) : d[i].type \in Success

(* x is the last list of d, or k if there is none. *)
Latest(d, k, x) ==
    \/ /\ \A i \in 1 .. Len(d) : d[i].type # "RoomInformation"
       /\ x = k
    \/ \E i \in 1 .. Len(d) :
          /\ d[i].type = "RoomInformation" /\ x = d[i].nicks
          /\ \A j \in 1 .. Len(d) : d[j].type = "RoomInformation" => j <= i

(* An end of a connection that is gone, or that lost it, has told the other. *)
LinkInv(L) ==
    /\ L.client = "up" /\ L.room # "up" => L.downBye
    /\ L.room = "up" /\ L.client = "none" => L.upBye
    /\ L.room = "up" /\ L.downBye => L.upBye

(* The list of the room. *)
RoomInv ==
    /\ Len(members) <= Slots
    /\ \A i, j \in 1 .. Len(members) : Nick(members[i]) = Nick(members[j]) => i = j
    /\ \A p \in Members : Connected(p) /\ Nick(p) \notin banned

(* A player has one connection, while its loop thread runs. *)
PlayerInv(n) ==
    /\ loop[n] \in {"none", "ended"} => Open(n) = {}
    /\ \A p, q \in Open(n) : p = q
    /\ state[n] \in InRoom => Open(n) # {}

(* What is on its way to a player over its connection p, which is L, when   *)
(* its list is k, its state is st and the list of the room is ms.           *)
Informed(L, p, k, st, ms) ==
    L.client = "up" =>
        /\ Promises(L.down, Nick(p), k)
        /\ ~L.downBye =>
              /\ st \in InRoom \/ Welcomes(L.down) => p \in Elements(ms)
              /\ p \in Elements(ms) => Latest(L.down, k, NicksOf(ms))

PeerInv(p) == Informed(link[p], p, known[Nick(p)], state[Nick(p)], members)

IInv ==
    /\ TypeOK
    /\ \A p \in Peers : LinkInv(link[p])
    /\ RoomInv
    /\ \A n \in Nicks : PlayerInv(n)
    /\ \A p \in Peers : PeerInv(p)

-----------------------------------------------------------------------------
(* What is on its way to a player *)

(* The positions of a queue with one packet more. *)
LEMMA AppendIndexed ==
    ASSUME NEW d \in Seq(DownMessages), NEW m \in DownMessages
    PROVE  /\ Append(d, m) \in Seq(DownMessages)
           /\ Len(d) \in Nat /\ Len(Append(d, m)) = Len(d) + 1
           /\ \A i \in 1 .. Len(d) : Append(d, m)[i] = d[i]
           /\ Append(d, m)[Len(d) + 1] = m
  OBVIOUS

(* A packet that is no answer to a join, behind what is on its way. *)
LEMMA AppendNoSuccess ==
    ASSUME NEW d \in Seq(DownMessages), NEW m \in DownMessages, m.type \notin Success,
           NEW n, NEW k
    PROVE  /\ Promises(d, n, k) => Promises(Append(d, m), n, k)
           /\ Welcomes(Append(d, m)) => Welcomes(d)
  <1> DEFINE e == Append(d, m)
  <1>1. /\ Len(d) \in Nat /\ Len(e) = Len(d) + 1
        /\ \A i \in 1 .. Len(d) : e[i] = d[i]
        /\ e[Len(d) + 1] = m
    BY AppendIndexed
  <1> HIDE DEF e
  <1>2. ASSUME NEW i \in 1 .. Len(e), e[i].type \in Success
        PROVE  i \in 1 .. Len(d) /\ e[i] = d[i] /\ (i # 1 => i - 1 \in 1 .. Len(d) /\ e[i - 1] = d[i - 1])
    <2>1. i # Len(d) + 1
      BY <1>1, <1>2
    <2>2. i \in 1 .. Len(d) /\ (i # 1 => i - 1 \in 1 .. Len(d))
      BY <1>1, <2>1
    <2> QED BY <1>1, <2>2
  <1>3. ASSUME Promises(d, n, k), NEW i \in 1 .. Len(e), e[i].type \in Success
        PROVE  IF i = 1 THEN n \in k ELSE e[i - 1].type = "RoomInformation" /\ n \in e[i - 1].nicks
    BY <1>2, <1>3 DEF Promises
  <1>4. Promises(d, n, k) => Promises(e, n, k)
    BY <1>3 DEF Promises
  <1>5. Welcomes(e) => Welcomes(d)
    BY <1>2 DEF Welcomes
  <1> QED BY <1>4, <1>5 DEF e

(* A packet that is no list leaves the latest list what it was. *)
LEMMA AppendNoList ==
    ASSUME NEW d \in Seq(DownMessages), NEW m \in DownMessages, m.type # "RoomInformation",
           NEW k, NEW x, Latest(d, k, x)
    PROVE  Latest(Append(d, m), k, x)
  <1> DEFINE e == Append(d, m)
  <1>1. /\ Len(d) \in Nat /\ Len(e) = Len(d) + 1
        /\ \A i \in 1 .. Len(d) : e[i] = d[i]
        /\ e[Len(d) + 1] = m
    BY AppendIndexed
  <1> HIDE DEF e
  <1>2. ASSUME NEW i \in 1 .. Len(e), e[i].type = "RoomInformation"
        PROVE  i \in 1 .. Len(d) /\ e[i] = d[i]
    BY <1>1, <1>2
  <1>3. CASE (\A i \in 1 .. Len(d) : d[i].type # "RoomInformation") /\ x = k
    BY <1>2, <1>3 DEF Latest, e
  <1>4. ASSUME NEW i \in 1 .. Len(d), d[i].type = "RoomInformation", x = d[i].nicks,
               \A j \in 1 .. Len(d) : d[j].type = "RoomInformation" => j <= i
        PROVE  Latest(e, k, x)
    <2>1. i \in 1 .. Len(e) /\ e[i] = d[i]
      BY <1>1
    <2>2. \A j \in 1 .. Len(e) : e[j].type = "RoomInformation" => j <= i
      BY <1>2, <1>4
    <2> QED BY <1>4, <2>1, <2>2 DEF Latest
  <1> QED BY <1>3, <1>4 DEF Latest, e

(* The list that is sent last is the latest. *)
LEMMA AppendList ==
    ASSUME NEW d \in Seq(DownMessages), NEW m \in DownMessages, m.type = "RoomInformation", NEW k
    PROVE  Latest(Append(d, m), k, m.nicks)
  <1> DEFINE e == Append(d, m)
  <1>1. Len(d) \in Nat /\ Len(e) = Len(d) + 1 /\ e[Len(d) + 1] = m
    BY AppendIndexed
  <1> HIDE DEF e
  <1>2. Len(d) + 1 \in 1 .. Len(e) /\ \A j \in 1 .. Len(e) : j <= Len(d) + 1
    BY <1>1
  <1> QED BY <1>1, <1>2 DEF Latest, e

(* The answer that lets a player in, right behind a list it is on. *)
LEMMA AppendSuccess ==
    ASSUME NEW d \in Seq(DownMessages), NEW m \in DownMessages, NEW a \in DownMessages,
           m.type = "RoomInformation", NEW n \in m.nicks, NEW k, Promises(d, n, k)
    PROVE  Promises(Append(Append(d, m), a), n, k)
  <1> DEFINE e == Append(d, m)
             f == Append(e, a)
  <1>1. /\ Len(d) \in Nat /\ Len(e) = Len(d) + 1 /\ e[Len(d) + 1] = m
        /\ e \in Seq(DownMessages)
    BY AppendIndexed
  <1>2. Promises(e, n, k)
    BY AppendNoSuccess DEF Success
  <1>3. /\ Len(f) = Len(e) + 1
        /\ \A i \in 1 .. Len(e) : f[i] = e[i]
    BY <1>1, AppendIndexed
  <1> HIDE DEF e, f
  <1>4. ASSUME NEW i \in 1 .. Len(f), f[i].type \in Success
        PROVE  IF i = 1 THEN n \in k ELSE f[i - 1].type = "RoomInformation" /\ n \in f[i - 1].nicks
    <2>1. CASE i = Len(e) + 1
      <3>1. i # 1 /\ i - 1 = Len(d) + 1 /\ i - 1 \in 1 .. Len(e)
        BY <1>1, <2>1
      <3>2. f[i - 1] = m
        BY <1>1, <1>3, <3>1
      <3> QED BY <3>1, <3>2
    <2>2. CASE i # Len(e) + 1
      <3>1. i \in 1 .. Len(e) /\ (i # 1 => i - 1 \in 1 .. Len(e))
        BY <1>1, <1>3, <2>2
      <3>2. f[i] = e[i] /\ (i # 1 => f[i - 1] = e[i - 1])
        BY <1>3, <3>1
      <3>3. IF i = 1 THEN n \in k ELSE e[i - 1].type = "RoomInformation" /\ n \in e[i - 1].nicks
        BY <1>2, <1>4, <3>1, <3>2 DEF Promises
      <3> QED BY <3>2, <3>3
    <2> QED BY <2>1, <2>2
  <1> QED BY <1>4 DEF Promises, e, f

(* The positions of a queue with its first packet taken. *)
LEMMA TailIndexed ==
    ASSUME NEW d \in Seq(DownMessages), d # << >>
    PROVE  /\ Tail(d) \in Seq(DownMessages)
           /\ Len(d) \in Nat /\ Len(d) >= 1 /\ Len(Tail(d)) = Len(d) - 1
           /\ \A i \in 1 .. Len(Tail(d)) : Tail(d)[i] = d[i + 1]
           /\ Head(d) = d[1] /\ d[1] \in DownMessages
  OBVIOUS

(* The player takes the first packet: k is its list before, c after. *)
LEMMA TakePacket ==
    ASSUME NEW d \in Seq(DownMessages), d # << >>, NEW n, NEW k, Promises(d, n, k), NEW c,
           c = IF Head(d).type = "RoomInformation" THEN Head(d).nicks ELSE k
    PROVE  /\ Promises(Tail(d), n, c)
           /\ Welcomes(Tail(d)) => Welcomes(d)
           /\ Head(d).type \in Success => Welcomes(d) /\ n \in k
           /\ \A x : Latest(d, k, x) => Latest(Tail(d), c, x)
  <1> DEFINE e == Tail(d)
  <1>1. /\ Len(d) \in Nat /\ Len(d) >= 1 /\ Len(e) = Len(d) - 1
        /\ \A i \in 1 .. Len(e) : e[i] = d[i + 1]
        /\ Head(d) = d[1]
    BY TailIndexed
  <1> HIDE DEF e
  <1>2. \A i \in 1 .. Len(e) : i + 1 \in 1 .. Len(d) /\ i + 1 # 1 /\ (i + 1) - 1 = i
    BY <1>1
  <1>3. ASSUME NEW i \in 1 .. Len(e), e[i].type \in Success
        PROVE  IF i = 1 THEN n \in c ELSE e[i - 1].type = "RoomInformation" /\ n \in e[i - 1].nicks
    <2>1. d[i].type = "RoomInformation" /\ n \in d[i].nicks
      <3>1. i + 1 \in 1 .. Len(d) /\ i + 1 # 1 /\ (i + 1) - 1 = i /\ d[i + 1].type \in Success
        BY <1>1, <1>2, <1>3
      <3> QED BY <3>1 DEF Promises
    <2>2. CASE i = 1
      BY <1>1, <2>1, <2>2
    <2>3. CASE i # 1
      <3>1. i - 1 \in 1 .. Len(e) /\ (i - 1) + 1 = i
        BY <1>1, <2>3
      <3>2. e[i - 1] = d[i]
        BY <1>1, <3>1
      <3> QED BY <2>1, <2>3, <3>2
    <2> QED BY <2>2, <2>3
  <1>4. Promises(e, n, c)
    BY <1>3 DEF Promises
  <1>5. Welcomes(e) => Welcomes(d)
    BY <1>1, <1>2 DEF Welcomes
  <1>6. Head(d).type \in Success => Welcomes(d) /\ n \in k
    <2>1. 1 \in 1 .. Len(d)
      BY <1>1
    <2> QED BY <1>1, <2>1 DEF Welcomes, Promises
  <1>7. ASSUME NEW x, Latest(d, k, x) PROVE Latest(e, c, x)
    <2>1. CASE (\A i \in 1 .. Len(d) : d[i].type # "RoomInformation") /\ x = k
      <3>1. 1 \in 1 .. Len(d)
        BY <1>1
      <3>2. c = k
        BY <1>1, <2>1, <3>1
      <3>3. \A i \in 1 .. Len(e) : e[i].type # "RoomInformation"
        BY <1>1, <1>2, <2>1
      <3> QED BY <2>1, <3>2, <3>3 DEF Latest
    <2>2. ASSUME NEW i \in 1 .. Len(d), d[i].type = "RoomInformation", x = d[i].nicks,
                 \A j \in 1 .. Len(d) : d[j].type = "RoomInformation" => j <= i
          PROVE  Latest(e, c, x)
      <3>1. CASE i = 1
        <4>1. c = x
          BY <1>1, <2>2, <3>1
        <4>2. ASSUME NEW j \in 1 .. Len(e) PROVE e[j].type # "RoomInformation"
          <5>1. j + 1 \in 1 .. Len(d) /\ ~(j + 1 <= i)
            BY <1>1, <1>2, <3>1
          <5> QED BY <1>1, <2>2, <5>1
        <4> QED BY <4>1, <4>2 DEF Latest
      <3>2. CASE i # 1
        <4>1. i - 1 \in 1 .. Len(e) /\ e[i - 1] = d[i]
          <5>1. i - 1 \in 1 .. Len(e) /\ (i - 1) + 1 = i
            BY <1>1, <3>2
          <5> QED BY <1>1, <5>1
        <4>2. ASSUME NEW j \in 1 .. Len(e), e[j].type = "RoomInformation" PROVE j <= i - 1
          <5>1. j + 1 \in 1 .. Len(d) /\ d[j + 1].type = "RoomInformation"
            BY <1>1, <1>2, <4>2
          <5>2. j + 1 <= i
            BY <2>2, <5>1
          <5> QED BY <5>2
        <4> QED BY <2>2, <4>1, <4>2 DEF Latest
      <3> QED BY <3>1, <3>2
    <2> QED BY <1>7, <2>1, <2>2 DEF Latest
  <1> QED BY <1>4, <1>5, <1>6, <1>7 DEF e

(* Nothing is on its way over a new connection, or one that broke. *)
LEMMA EmptyPromises ==
    ASSUME NEW n, NEW k
    PROVE  /\ << >> \in Seq(DownMessages)
           /\ Promises(<< >>, n, k)
           /\ ~Welcomes(<< >>)
           /\ Latest(<< >>, k, k)
  BY DEF Promises, Welcomes, Latest

-----------------------------------------------------------------------------
(* The operations on connections *)

SameEnds(L, M) ==
    /\ M.room = L.room /\ M.client = L.client
    /\ M.upBye = L.upBye /\ M.downBye = L.downBye

(* The connection takes what the room sends. *)
Takes(L) == L.room = "up" /\ L.client = "up" /\ ~L.downBye

(* The fields of a connection. *)
LEMMA LinkFields ==
    ASSUME NEW l \in [Peers -> Links], NEW p \in Peers
    PROVE  /\ l[p].room \in {"none", "up", "closing"} /\ l[p].client \in {"none", "up"}
           /\ l[p].up \in Seq(UpMessages) /\ l[p].down \in Seq(DownMessages)
           /\ l[p].upBye \in BOOLEAN /\ l[p].downBye \in BOOLEAN
  <1>1. l[p] \in Links
    OBVIOUS
  <1> QED BY <1>1 DEF Links

LEMMA SentDownFacts ==
    ASSUME NEW l \in [Peers -> Links], NEW to, NEW m \in DownMessages
    PROVE  /\ SentDown(l, to, m) \in [Peers -> Links]
           /\ \A p \in Peers :
                /\ SameEnds(l[p], SentDown(l, to, m)[p])
                /\ SentDown(l, to, m)[p].up = l[p].up
                /\ SentDown(l, to, m)[p].down = IF p \in to /\ Takes(l[p])
                                                THEN Append(l[p].down, m) ELSE l[p].down
  <1> DEFINE N(p) == IF p \in to /\ Takes(l[p])
                     THEN [l[p] EXCEPT !.down = Append(@, m)] ELSE l[p]
  <1>1. SentDown(l, to, m) = [p \in Peers |-> N(p)]
    BY DEF SentDown, Takes
  <1>2. ASSUME NEW p \in Peers
        PROVE  /\ N(p) \in Links /\ SameEnds(l[p], N(p)) /\ N(p).up = l[p].up
               /\ N(p).down = IF p \in to /\ Takes(l[p]) THEN Append(l[p].down, m) ELSE l[p].down
    <2>1. l[p] \in Links
      OBVIOUS
    <2>2. Append(l[p].down, m) \in Seq(DownMessages)
      BY <2>1 DEF Links
    <2> HIDE DEF Takes
    <2> QED BY <2>1, <2>2 DEF Links, SameEnds
  <1> HIDE DEF N
  <1> QED BY <1>1, <1>2

LEMMA SentUpFacts ==
    ASSUME NEW l \in [Peers -> Links], NEW to, NEW ms \in Seq(UpMessages)
    PROVE  /\ SentUp(l, to, ms) \in [Peers -> Links]
           /\ \A p \in Peers : /\ SameEnds(l[p], SentUp(l, to, ms)[p])
                               /\ SentUp(l, to, ms)[p].down = l[p].down
  <1> DEFINE N(p) == IF p \in to /\ l[p].room = "up" /\ l[p].client = "up" /\ ~l[p].upBye
                     THEN [l[p] EXCEPT !.up = @ \o ms] ELSE l[p]
  <1>1. SentUp(l, to, ms) = [p \in Peers |-> N(p)]
    BY DEF SentUp
  <1>2. ASSUME NEW p \in Peers
        PROVE  N(p) \in Links /\ SameEnds(l[p], N(p)) /\ N(p).down = l[p].down
    <2>1. l[p] \in Links
      OBVIOUS
    <2>2. l[p].up \o ms \in Seq(UpMessages)
      BY <2>1 DEF Links
    <2> QED BY <2>1, <2>2 DEF Links, SameEnds
  <1> HIDE DEF N
  <1> QED BY <1>1, <1>2

LEMMA TakenFacts ==
    ASSUME link \in [Peers -> Links], NEW p \in Peers, link[p].up # << >>
    PROVE  /\ Taken(p) \in [Peers -> Links]
           /\ \A q \in Peers : SameEnds(link[q], Taken(p)[q]) /\ Taken(p)[q].down = link[q].down
  <1> DEFINE N == [link[p] EXCEPT !.up = Tail(@)]
  <1>1. Taken(p) = [link EXCEPT ![p] = N]
    BY DEF Taken
  <1>2. N \in Links /\ SameEnds(link[p], N) /\ N.down = link[p].down
    <2>1. link[p] \in Links
      OBVIOUS
    <2>2. Tail(link[p].up) \in Seq(UpMessages)
      BY <2>1 DEF Links
    <2> QED BY <2>1, <2>2 DEF Links, SameEnds
  <1> HIDE DEF N
  <1> QED BY <1>1, <1>2 DEF SameEnds

LEMMA RoomDisconnectsFacts ==
    ASSUME NEW l \in [Peers -> Links], NEW p \in Peers
    PROVE  LET M == RoomDisconnects(l, p)
           IN  /\ M \in [Peers -> Links]
               /\ \A q \in Peers : q # p => M[q] = l[q]
               /\ M[p].room = "closing" /\ M[p].client = l[p].client /\ M[p].down = l[p].down
               /\ M[p].upBye /\ M[p].downBye
  <1> DEFINE N == [l[p] EXCEPT !.room = "closing", !.up = << >>, !.upBye = TRUE, !.downBye = TRUE]
  <1>1. RoomDisconnects(l, p) = [l EXCEPT ![p] = N]
    BY DEF RoomDisconnects
  <1>2. /\ N \in Links /\ N.room = "closing" /\ N.client = l[p].client /\ N.down = l[p].down
        /\ N.upBye /\ N.downBye
    <2>1. l[p] \in Links /\ << >> \in Seq(UpMessages)
      OBVIOUS
    <2>2. N \in Links
      BY <2>1 DEF Links
    <2>3. N.upBye = TRUE /\ N.downBye = TRUE
      BY <2>1 DEF Links
    <2>4. N.room = "closing" /\ N.client = l[p].client /\ N.down = l[p].down
      BY <2>1 DEF Links
    <2> QED BY <2>2, <2>3, <2>4
  <1> HIDE DEF N
  <1> QED BY <1>1, <1>2

LEMMA FreeFacts ==
    /\ Free \in Links
    /\ Free.room = "none" /\ Free.client = "none" /\ Free.down = << >>
    /\ ~Free.upBye /\ ~Free.downBye
  BY DEF Free, Links

LEMMA RoomEndsFacts ==
    ASSUME NEW l \in [Peers -> Links], NEW P
    PROVE  LET M == RoomEnds(l, P)
           IN  /\ M \in [Peers -> Links]
               /\ \A q \in Peers : q \notin P => M[q] = l[q]
               /\ \A q \in Peers : q \in P =>
                     /\ M[q].room = "none" /\ M[q].client = l[q].client
                     /\ l[q].client = "up" => M[q].down = l[q].down /\ M[q].downBye
  <1> DEFINE N(q) == IF q \notin P THEN l[q]
                     ELSE IF l[q].client = "none" THEN Free
                     ELSE [l[q] EXCEPT !.room = "none", !.up = << >>, !.upBye = FALSE,
                                       !.downBye = TRUE]
  <1>1. RoomEnds(l, P) = [q \in Peers |-> N(q)]
    BY DEF RoomEnds
  <1>2. ASSUME NEW q \in Peers
        PROVE  /\ N(q) \in Links
               /\ q \notin P => N(q) = l[q]
               /\ q \in P => /\ N(q).room = "none" /\ N(q).client = l[q].client
                             /\ l[q].client = "up" => N(q).down = l[q].down /\ N(q).downBye
    <2> DEFINE K == [l[q] EXCEPT !.room = "none", !.up = << >>, !.upBye = FALSE,
                                 !.downBye = TRUE]
    <2>1. l[q] \in Links /\ << >> \in Seq(UpMessages)
      OBVIOUS
    <2>2. K \in Links
      BY <2>1 DEF Links
    <2>3. K.downBye = TRUE
      BY <2>1 DEF Links
    <2>4. K.room = "none" /\ K.client = l[q].client /\ K.down = l[q].down
      BY <2>1 DEF Links
    <2>5. N(q) = IF q \notin P THEN l[q] ELSE IF l[q].client = "none" THEN Free ELSE K
      OBVIOUS
    <2> HIDE DEF K, N
    <2>6. l[q].client \in {"none", "up"}
      BY <2>1 DEF Links
    <2> QED BY <2>1, <2>2, <2>3, <2>4, <2>5, <2>6, FreeFacts
  <1> HIDE DEF N
  <1> QED BY <1>1, <1>2

LEMMA ClientEndsFacts ==
    ASSUME NEW l \in [Peers -> Links], NEW P, NEW tell \in BOOLEAN
    PROVE  LET M == ClientEnds(l, P, tell)
           IN  /\ M \in [Peers -> Links]
               /\ \A q \in Peers : q \notin P => M[q] = l[q]
               /\ \A q \in Peers : q \in P =>
                     /\ M[q].client = "none" /\ M[q].room = l[q].room
                     /\ l[q].room = "up" /\ (tell \/ l[q].upBye) => M[q].upBye
  <1> DEFINE N(q) == IF q \notin P THEN l[q]
                     ELSE IF l[q].room = "none" THEN Free
                     ELSE [l[q] EXCEPT !.client = "none", !.down = << >>, !.downBye = FALSE,
                                       !.upBye = @ \/ tell]
  <1>1. ClientEnds(l, P, tell) = [q \in Peers |-> N(q)]
    BY DEF ClientEnds
  <1>2. ASSUME NEW q \in Peers
        PROVE  /\ N(q) \in Links
               /\ q \notin P => N(q) = l[q]
               /\ q \in P => /\ N(q).client = "none" /\ N(q).room = l[q].room
                             /\ l[q].room = "up" /\ (tell \/ l[q].upBye) => N(q).upBye
    <2>1. l[q] \in Links
      OBVIOUS
    <2>2. (l[q].upBye \/ tell) \in BOOLEAN
      OBVIOUS
    <2> QED BY <2>1, <2>2, FreeFacts DEF Links
  <1> HIDE DEF N
  <1> QED BY <1>1, <1>2

LEMMA ConnectedLinkFacts ==
    ASSUME NEW l \in [Peers -> Links], NEW p \in Peers
    PROVE  LET M == ConnectedLink(l, p)
           IN  /\ M \in [Peers -> Links]
               /\ \A q \in Peers : q # p => M[q] = l[q]
               /\ M[p].room = "up" /\ M[p].client = "up" /\ M[p].down = << >>
               /\ ~M[p].upBye /\ ~M[p].downBye
  <1> DEFINE N == [Free EXCEPT !.room = "up", !.client = "up"]
  <1>1. ConnectedLink(l, p) = [l EXCEPT ![p] = N]
    BY DEF ConnectedLink
  <1>2. N \in Links /\ N.room = "up" /\ N.client = "up" /\ N.down = << >> /\ ~N.upBye /\ ~N.downBye
    <2>1. << >> \in Seq(UpMessages) /\ << >> \in Seq(DownMessages)
      OBVIOUS
    <2>2. N \in Links
      BY <2>1 DEF Free, Links
    <2>3. N.upBye = FALSE /\ N.downBye = FALSE
      BY DEF Free
    <2>4. N.room = "up" /\ N.client = "up" /\ N.down = << >>
      BY DEF Free
    <2> QED BY <2>2, <2>3, <2>4
  <1> HIDE DEF N
  <1> QED BY <1>1, <1>2

LEMMA BreaksFacts ==
    ASSUME link \in [Peers -> Links], NEW p \in Peers, Breaks(p)
    PROVE  /\ link' \in [Peers -> Links]
           /\ \A q \in Peers : q # p => link'[q] = link[q]
           /\ link[p].room = "up" /\ link[p].client = "up" /\ ~link[p].downBye
           /\ link'[p].room = "up" /\ link'[p].client = "up" /\ link'[p].down = << >>
           /\ link'[p].upBye /\ link'[p].downBye
  <1> DEFINE N == [link[p] EXCEPT !.upBye = TRUE, !.downBye = TRUE, !.up = << >>, !.down = << >>]
  <1>1. link' = [link EXCEPT ![p] = N]
    BY DEF Breaks
  <1>2. link[p].room = "up" /\ link[p].client = "up" /\ ~link[p].downBye
    BY DEF Breaks, Connected
  <1>3. N \in Links /\ N.room = "up" /\ N.client = "up" /\ N.down = << >> /\ N.upBye /\ N.downBye
    <2>1. link[p] \in Links /\ << >> \in Seq(UpMessages) /\ << >> \in Seq(DownMessages)
      OBVIOUS
    <2>2. N \in Links
      BY <2>1 DEF Links
    <2>3. N.upBye = TRUE /\ N.downBye = TRUE
      BY <2>1 DEF Links
    <2>4. N.room = "up" /\ N.client = "up" /\ N.down = << >>
      BY <1>2, <2>1 DEF Links
    <2> QED BY <2>2, <2>3, <2>4
  <1> HIDE DEF N
  <1> QED BY <1>1, <1>2, <1>3

-----------------------------------------------------------------------------
(* The list of the room *)

LEMMA PeerNick ==
    ASSUME NEW p \in Peers
    PROVE  Nick(p) \in Nicks
  BY DEF Peers, Nick

LEMMA MembersAre ==
    /\ Members = Elements(members)
    /\ \A p : p \in Members => Nick(p) \in NicksOf(members)
  BY DEF Members, Elements, NicksOf

(* A queue without repetitions is as long as it has elements. *)
LEMMA HoldsLength ==
    ASSUME NEW q, NEW T, NEW S, Holds(q, T, S)
    PROVE  IsFiniteSet(S) /\ Cardinality(S) = Len(q)
  <1> DEFINE f == [i \in 1 .. Len(q) |-> q[i]]
  <1>1. Len(q) \in Nat /\ \A i \in 1 .. Len(q) : q[i] \in S
    BY DEF Holds, Elements
  <1>2. f \in [1 .. Len(q) -> S] /\ \A i, j \in 1 .. Len(q) : f[i] = f[j] => i = j
    BY <1>1 DEF Holds
  <1>3. \A x \in S : \E i \in 1 .. Len(q) : f[i] = x
    BY DEF Holds, Elements
  <1> HIDE DEF f
  <1>4. f \in Bijection(1 .. Len(q), S)
    BY <1>2, <1>3 DEF Bijection, Injection, Surjection, IsInjective
  <1>5. ExistsBijection(1 .. Len(q), S)
    BY <1>4 DEF ExistsBijection
  <1>6. IsFiniteSet(1 .. Len(q)) /\ Cardinality(1 .. Len(q)) = Len(q)
    BY <1>1, FS_Interval
  <1> QED BY <1>5, <1>6, FS_Bijection

(* A list of players in which nobody is twice. *)
Roll(ms) ==
    /\ ms \in Seq(Peers)
    /\ \A i, j \in 1 .. Len(ms) : Nick(ms[i]) = Nick(ms[j]) => i = j

LEMMA RollHolds ==
    ASSUME NEW ms, Roll(ms)
    PROVE  Holds(ms, Peers, Elements(ms))
  BY DEF Roll, Holds, Elements

(* Members who have the same nickname are the same. *)
LEMMA RollNicks ==
    ASSUME NEW ms, Roll(ms), NEW p \in Elements(ms), NEW q \in Elements(ms), Nick(p) = Nick(q)
    PROVE  p = q
  BY DEF Roll, Elements

(* erase of a member. *)
LEMMA WithoutFacts ==
    ASSUME NEW ms, Roll(ms), NEW p
    PROVE  /\ Roll(Without(ms, p))
           /\ Elements(Without(ms, p)) = Elements(ms) \ {p}
           /\ Len(Without(ms, p)) <= Len(ms)
           /\ Without(ms, p) \in Seq(Peers) /\ Len(ms) \in Nat /\ Len(Without(ms, p)) \in Nat
  <1> DEFINE w == Without(ms, p)
             S == Elements(ms)
  <1>1. Holds(ms, Peers, S) /\ S \subseteq Peers
    BY RollHolds DEF Roll, Elements
  <1>2. Holds(w, Peers, S \cap (Peers \ {p}))
    BY <1>1, KeptHolds DEF Without
  <1> HIDE DEF w, S
  <1>3. S \cap (Peers \ {p}) = S \ {p}
    BY <1>1
  <1>4. Holds(w, Peers, S \ {p})
    BY <1>2, <1>3
  <1>5. Elements(w) = S \ {p} /\ w \in Seq(Peers)
    BY <1>4 DEF Holds
  <1>6. ASSUME NEW i \in 1 .. Len(w), NEW j \in 1 .. Len(w), Nick(w[i]) = Nick(w[j])
        PROVE  i = j
    <2>1. w[i] \in S /\ w[j] \in S
      BY <1>5 DEF Elements
    <2>2. w[i] = w[j]
      BY <1>6, <2>1, RollNicks DEF S
    <2> QED BY <1>4, <2>2 DEF Holds
  <1>7. Len(w) <= Len(ms)
    <2>1. IsFiniteSet(S) /\ Cardinality(S) = Len(ms) /\ Cardinality(S \ {p}) = Len(w)
      BY <1>1, <1>4, HoldsLength
    <2>2. Cardinality(S \ {p}) <= Cardinality(S)
      BY <2>1, FS_Subset
    <2> QED BY <2>1, <2>2
  <1>8. Len(ms) \in Nat /\ Len(w) \in Nat
    BY <1>5 DEF Roll
  <1> QED BY <1>5, <1>6, <1>7, <1>8 DEF Roll, w, S

(* push_back of a player whose nickname is not in use. *)
LEMMA JoinedFacts ==
    ASSUME NEW ms, Roll(ms), NEW p \in Peers, Nick(p) \notin NicksOf(ms)
    PROVE  /\ Roll(Append(ms, p))
           /\ Elements(Append(ms, p)) = Elements(ms) \cup {p}
           /\ Len(Append(ms, p)) = Len(ms) + 1 /\ Len(ms) \in Nat
           /\ Nick(p) \in NicksOf(Append(ms, p))
  <1> DEFINE w == Append(ms, p)
  <1>1. /\ w \in Seq(Peers) /\ Len(ms) \in Nat /\ Len(w) = Len(ms) + 1
        /\ \A i \in 1 .. Len(w) : w[i] = IF i = Len(ms) + 1 THEN p ELSE ms[i]
    BY DEF Roll
  <1> HIDE DEF w
  <1>2. \A i \in 1 .. Len(ms) : Nick(ms[i]) # Nick(p)
    BY DEF NicksOf
  <1>3. ASSUME NEW i \in 1 .. Len(w), NEW j \in 1 .. Len(w), Nick(w[i]) = Nick(w[j])
        PROVE  i = j
    <2>1. CASE i = Len(ms) + 1 \/ j = Len(ms) + 1
      BY <1>1, <1>2, <1>3, <2>1
    <2>2. CASE i # Len(ms) + 1 /\ j # Len(ms) + 1
      <3>1. i \in 1 .. Len(ms) /\ j \in 1 .. Len(ms) /\ w[i] = ms[i] /\ w[j] = ms[j]
        BY <1>1, <2>2
      <3> QED BY <1>3, <3>1 DEF Roll
    <2> QED BY <2>1, <2>2
  <1>4. Elements(w) = Elements(ms) \cup {p}
    <2>1. Len(ms) + 1 \in 1 .. Len(w) /\ w[Len(ms) + 1] = p
      BY <1>1
    <2>2. \A i \in 1 .. Len(ms) : i \in 1 .. Len(w) /\ w[i] = ms[i]
      BY <1>1
    <2>3. \A i \in 1 .. Len(w) : i \in 1 .. Len(ms) \/ w[i] = p
      BY <1>1
    <2> QED BY <2>1, <2>2, <2>3 DEF Elements
  <1>5. Nick(p) \in NicksOf(w)
    <2>1. Len(ms) + 1 \in 1 .. Len(w) /\ w[Len(ms) + 1] = p
      BY <1>1
    <2> QED BY <2>1 DEF NicksOf
  <1> QED BY <1>1, <1>3, <1>4, <1>5 DEF Roll, w

(* The packets of the room are packets. *)
LEMMA PacketTypes ==
    /\ \A ms \in Seq(Peers) : /\ RoomInformation(ms) \in DownMessages
                              /\ RoomInformation(ms).type = "RoomInformation"
                              /\ RoomInformation(ms).nicks = NicksOf(ms)
    /\ \A t \in Thrown \cup Success : Answer(t) \in DownMessages /\ Answer(t).type = t
  <1>1. ASSUME NEW ms \in Seq(Peers) PROVE NicksOf(ms) \in SUBSET Nicks
    <2>1. \A i \in 1 .. Len(ms) : ms[i] \in Peers
      OBVIOUS
    <2> QED BY <2>1, PeerNick DEF NicksOf
  <1> QED BY <1>1 DEF RoomInformation, Answer, DownMessages, Thrown, Success

-----------------------------------------------------------------------------
(* What each kind of change means for what is on its way to a player *)

LEMMA InformedSame ==
    ASSUME NEW L, NEW M, NEW p, NEW k, NEW st, NEW ms, NEW st2,
           Informed(L, p, k, st, ms), SameEnds(L, M), M.down = L.down,
           st2 \in InRoom => st \in InRoom
    PROVE  Informed(M, p, k, st2, ms)
  BY DEF Informed, SameEnds

(* A packet that ends the stay of the player, or refuses it. *)
LEMMA InformedThrown ==
    ASSUME NEW L, L.down \in Seq(DownMessages), NEW M, NEW p, NEW k, NEW st, NEW ms,
           Informed(L, p, k, st, ms), SameEnds(L, M),
           NEW t \in Thrown, M.down = Append(L.down, Answer(t))
    PROVE  Informed(M, p, k, st, ms)
  <1>1. /\ Answer(t) \in DownMessages
        /\ Answer(t).type \notin Success /\ Answer(t).type # "RoomInformation"
    BY PacketTypes DEF Thrown, Success
  <1>2. /\ Promises(L.down, Nick(p), k) => Promises(M.down, Nick(p), k)
        /\ Welcomes(M.down) => Welcomes(L.down)
    BY <1>1, AppendNoSuccess
  <1>3. Latest(L.down, k, NicksOf(ms)) => Latest(M.down, k, NicksOf(ms))
    BY <1>1, AppendNoList
  <1> QED BY <1>2, <1>3 DEF Informed, SameEnds

(* A connection that ends: the player will hear of it. *)
LEMMA InformedEnds ==
    ASSUME NEW L, L.down \in Seq(DownMessages), NEW M, NEW p, NEW k, NEW st, NEW ms, NEW ms2,
           Informed(L, p, k, st, ms), M.client = L.client, M.client = "up" => M.downBye,
           M.client = "up" =>
              \/ M.down = L.down \/ M.down = << >>
              \/ \E t \in Thrown : M.down = Append(L.down, Answer(t))
    PROVE  Informed(M, p, k, st, ms2)
  <1> SUFFICES ASSUME M.client = "up" PROVE Promises(M.down, Nick(p), k)
    BY DEF Informed
  <1>1. Promises(L.down, Nick(p), k)
    BY DEF Informed
  <1>2. ASSUME NEW t \in Thrown PROVE Promises(Append(L.down, Answer(t)), Nick(p), k)
    <2>1. Answer(t) \in DownMessages /\ Answer(t).type \notin Success
      BY PacketTypes DEF Thrown, Success
    <2> QED BY <1>1, <2>1, AppendNoSuccess
  <1> QED BY <1>1, <1>2, EmptyPromises

(* The list is broadcast. *)
LEMMA InformedBroadcast ==
    ASSUME NEW L, L.down \in Seq(DownMessages), LinkInv(L), NEW M, NEW p, NEW k, NEW st, NEW ms,
           NEW ms2 \in Seq(Peers), Informed(L, p, k, st, ms), SameEnds(L, M),
           M.down = IF Takes(L) THEN Append(L.down, RoomInformation(ms2)) ELSE L.down,
           p \in Elements(ms) => p \in Elements(ms2)
    PROVE  Informed(M, p, k, st, ms2)
  <1> SUFFICES ASSUME L.client = "up" PROVE Informed(M, p, k, st, ms2)
    BY DEF Informed, SameEnds
  <1> DEFINE m == RoomInformation(ms2)
  <1>1. m \in DownMessages /\ m.type = "RoomInformation" /\ m.nicks = NicksOf(ms2)
    BY PacketTypes
  <1> HIDE DEF m
  <1>2. Promises(L.down, Nick(p), k)
    BY DEF Informed
  <1>3. CASE ~Takes(L)
    BY <1>2, <1>3 DEF Takes, LinkInv, Informed, SameEnds
  <1>4. CASE Takes(L)
    <2>1. M.down = Append(L.down, m) /\ ~L.downBye
      BY <1>4 DEF Takes, m
    <2>2. Promises(M.down, Nick(p), k) /\ (Welcomes(M.down) => Welcomes(L.down))
      BY <1>1, <1>2, <2>1, AppendNoSuccess DEF Success
    <2>3. Latest(M.down, k, NicksOf(ms2))
      BY <1>1, <2>1, AppendList
    <2> QED BY <2>1, <2>2, <2>3 DEF Informed, SameEnds
  <1> QED BY <1>3, <1>4

(* The list is broadcast, and the player hears that it has joined. *)
LEMMA InformedWelcome ==
    ASSUME NEW L, L.down \in Seq(DownMessages), LinkInv(L), NEW M, NEW p, NEW k, NEW st, NEW ms,
           NEW ms2 \in Seq(Peers), Informed(L, p, k, st, ms), SameEnds(L, M), NEW t \in Success,
           M.down = IF Takes(L) THEN Append(Append(L.down, RoomInformation(ms2)), Answer(t))
                                ELSE L.down,
           p \in Elements(ms2), Nick(p) \in NicksOf(ms2)
    PROVE  Informed(M, p, k, st, ms2)
  <1> SUFFICES ASSUME L.client = "up" PROVE Informed(M, p, k, st, ms2)
    BY DEF Informed, SameEnds
  <1> DEFINE m == RoomInformation(ms2)
             a == Answer(t)
  <1>1. /\ m \in DownMessages /\ m.type = "RoomInformation" /\ m.nicks = NicksOf(ms2)
        /\ a \in DownMessages /\ a.type # "RoomInformation"
    BY PacketTypes DEF Success
  <1> HIDE DEF m, a
  <1>2. Promises(L.down, Nick(p), k)
    BY DEF Informed
  <1>3. CASE ~Takes(L)
    BY <1>2, <1>3 DEF Takes, LinkInv, Informed, SameEnds
  <1>4. CASE Takes(L)
    <2>1. M.down = Append(Append(L.down, m), a)
      BY <1>4 DEF m, a
    <2>2. Promises(M.down, Nick(p), k)
      BY <1>1, <1>2, <2>1, AppendSuccess
    <2>3. Append(L.down, m) \in Seq(DownMessages) /\ Latest(Append(L.down, m), k, NicksOf(ms2))
      BY <1>1, AppendList, AppendIndexed
    <2>4. Latest(M.down, k, NicksOf(ms2))
      BY <1>1, <2>1, <2>3, AppendNoList
    <2> QED BY <2>2, <2>4 DEF Informed
  <1> QED BY <1>3, <1>4

LEMMA LinkInvSame ==
    ASSUME NEW L, NEW M, LinkInv(L), SameEnds(L, M)
    PROVE  LinkInv(M)
  BY DEF LinkInv, SameEnds

-----------------------------------------------------------------------------
(* The steps of the room *)

LEMMA OpenSame ==
    ASSUME \A p \in Peers : link'[p].client = link[p].client, NEW n \in Nicks
    PROVE  Open(n)' = Open(n)
  BY DEF Open

(* What a step of the room has to keep. *)
LEMMA RoomKeeps ==
    ASSUME IInv, UNCHANGED memberVars, link' \in [Peers -> Links], isOpen' \in BOOLEAN,
           banned' \subseteq Nicks, Roll(members'), Len(members') <= Slots,
           \A p \in Peers : LinkInv(link'[p]) /\ link'[p].client = link[p].client,
           \A p \in Elements(members') : link'[p].room = "up" /\ Nick(p) \notin banned',
           \A p \in Peers : Informed(link'[p], p, known[Nick(p)], state[Nick(p)], members')
    PROVE  IInv'
  <1>1. TypeOK'
    BY DEF IInv, TypeOK, memberVars, Roll
  <1>2. RoomInv'
    <2>1. Members' = Elements(members')
      BY DEF Members, Elements
    <2> QED BY <2>1 DEF RoomInv, Roll, Connected
  <1>3. ASSUME NEW n \in Nicks PROVE PlayerInv(n)'
    <2>1. PlayerInv(n) /\ Open(n)' = Open(n) /\ state' = state /\ loop' = loop
      BY OpenSame DEF IInv, memberVars
    <2> QED BY <2>1 DEF PlayerInv
  <1>4. ASSUME NEW p \in Peers PROVE PeerInv(p)'
    BY DEF PeerInv, memberVars
  <1> QED BY <1>1, <1>2, <1>3, <1>4 DEF IInv

(* The facts about the state that these steps start from. *)
LEMMA RoomStart ==
    ASSUME IInv
    PROVE  /\ link \in [Peers -> Links] /\ isOpen \in BOOLEAN /\ banned \subseteq Nicks
           /\ Roll(members) /\ Len(members) <= Slots /\ Members = Elements(members)
           /\ \A p \in Peers : LinkInv(link[p]) /\ link[p].down \in Seq(DownMessages)
           /\ \A p \in Elements(members) : link[p].room = "up" /\ Nick(p) \notin banned
           /\ \A p \in Peers : Informed(link[p], p, known[Nick(p)], state[Nick(p)], members)
  <1>1. link \in [Peers -> Links] /\ Roll(members) /\ Members = Elements(members)
    BY MembersAre DEF IInv, TypeOK, RoomInv, Roll
  <1>2. \A p \in Peers : link[p].down \in Seq(DownMessages)
    BY <1>1, LinkFields
  <1> QED BY <1>1, <1>2 DEF IInv, TypeOK, RoomInv, Connected, PeerInv

(* A packet that changes no list. *)
LEMMA TakenStep ==
    ASSUME IInv, UNCHANGED memberVars, NEW p \in Peers, link[p].up # << >>,
           link' = Taken(p), UNCHANGED <<isOpen, members>>, banned' \subseteq banned
    PROVE  IInv'
  <1>1. /\ link' \in [Peers -> Links]
        /\ \A q \in Peers : SameEnds(link[q], link'[q]) /\ link'[q].down = link[q].down
    BY RoomStart, TakenFacts
  <1>2. \A q \in Peers : LinkInv(link'[q]) /\ link'[q].client = link[q].client
    BY <1>1, RoomStart, LinkInvSame DEF SameEnds
  <1>3. \A q \in Peers : Informed(link'[q], q, known[Nick(q)], state[Nick(q)], members')
    BY <1>1, RoomStart, InformedSame
  <1>4. \A q \in Elements(members') : link'[q].room = "up" /\ Nick(q) \notin banned'
    <2>1. Elements(members) \subseteq Peers
      BY RoomStart DEF Roll, Elements
    <2> QED BY <1>1, <2>1, RoomStart DEF SameEnds
  <1> QED BY <1>1, <1>2, <1>3, <1>4, RoomStart, RoomKeeps

(* HandleJoinRequest when the player is refused. *)
LEMMA JoinRefusedStep ==
    ASSUME IInv, UNCHANGED memberVars, NEW p \in Peers, link[p].up # << >>, JoinRefused(p)
    PROVE  IInv'
  <1> DEFINE l == Taken(p)
             m == Answer("Refused")
  <1>1. /\ l \in [Peers -> Links]
        /\ \A q \in Peers : SameEnds(link[q], l[q]) /\ l[q].down = link[q].down
    BY RoomStart, TakenFacts
  <1>2. m \in DownMessages
    BY PacketTypes DEF Thrown
  <1>3. link' = SentDown(l, {p}, m) /\ UNCHANGED <<isOpen, members, banned>>
    BY DEF JoinRefused, roomVars
  <1> HIDE DEF l, m
  <1>4. /\ link' \in [Peers -> Links]
        /\ \A q \in Peers : /\ SameEnds(l[q], link'[q])
                            /\ link'[q].down = l[q].down \/ link'[q].down = Append(l[q].down, m)
    <2>1. /\ link' \in [Peers -> Links]
          /\ \A q \in Peers : /\ SameEnds(l[q], link'[q])
                              /\ link'[q].down = IF q \in {p} /\ Takes(l[q])
                                                 THEN Append(l[q].down, m) ELSE l[q].down
      BY <1>1, <1>2, <1>3, SentDownFacts
    <2> QED BY <2>1
  <1>5. \A q \in Peers : /\ SameEnds(link[q], link'[q])
                         /\ link'[q].down = link[q].down \/ link'[q].down = Append(link[q].down, m)
    BY <1>1, <1>4 DEF SameEnds
  <1>6. \A q \in Peers : LinkInv(link'[q]) /\ link'[q].client = link[q].client
    BY <1>5, RoomStart, LinkInvSame DEF SameEnds
  <1>7. ASSUME NEW q \in Peers
        PROVE  Informed(link'[q], q, known[Nick(q)], state[Nick(q)], members')
    <2>1. /\ Informed(link[q], q, known[Nick(q)], state[Nick(q)], members)
          /\ link[q].down \in Seq(DownMessages) /\ members' = members
      BY <1>3, RoomStart
    <2>2. CASE link'[q].down = link[q].down
      BY <1>5, <2>1, <2>2, InformedSame
    <2>3. CASE link'[q].down = Append(link[q].down, m)
      <3>1. "Refused" \in Thrown
        BY DEF Thrown
      <3> QED BY <1>5, <2>1, <2>3, <3>1, InformedThrown DEF m
    <2> QED BY <1>5, <2>2, <2>3
  <1>8. \A q \in Elements(members') : link'[q].room = "up" /\ Nick(q) \notin banned'
    <2>1. Elements(members) \subseteq Peers
      BY RoomStart DEF Roll, Elements
    <2> QED BY <1>3, <1>5, <2>1, RoomStart DEF SameEnds
  <1> QED BY <1>3, <1>4, <1>6, <1>7, <1>8, RoomStart, RoomKeeps

(* HandleJoinRequest when the player is let in. *)
LEMMA JoinAcceptedStep ==
    ASSUME IInv, UNCHANGED memberVars, NEW p \in Peers, Connected(p), link[p].up # << >>,
           JoinAccepted(p)
    PROVE  IInv'
  <1> DEFINE t == IF HasModPermission(members', p) THEN "JoinSuccessAsMod" ELSE "JoinSuccess"
             l == Taken(p)
             m == RoomInformation(members')
             b == SentDown(l, Peers, m)
  <1>1. /\ l \in [Peers -> Links]
        /\ \A q \in Peers : SameEnds(link[q], l[q]) /\ l[q].down = link[q].down
    BY RoomStart, TakenFacts
  <1>2. /\ members' = Append(members, p) /\ isOpen' = isOpen /\ banned' = banned
        /\ Len(members) < Slots /\ Nick(p) \notin NicksOf(members) /\ Nick(p) \notin banned
        /\ link' = SentDown(b, {p}, Answer(t))
    BY DEF JoinAccepted, Announced, BroadcastRoomInformation, IsValidNickname, IsBanned
  <1>3. t \in Success
    BY DEF Success
  <1> HIDE DEF t, l
  <1>4. /\ Roll(members') /\ Elements(members') = Elements(members) \cup {p}
        /\ Len(members') = Len(members) + 1 /\ Len(members) \in Nat
        /\ Nick(p) \in NicksOf(members') /\ members' \in Seq(Peers)
    BY <1>2, RoomStart, JoinedFacts DEF Roll
  <1>5. m \in DownMessages /\ Answer(t) \in DownMessages
    BY <1>3, <1>4, PacketTypes
  <1> HIDE DEF m
  <1>6. /\ b \in [Peers -> Links]
        /\ \A q \in Peers : /\ SameEnds(l[q], b[q])
                            /\ b[q].down = IF Takes(l[q]) THEN Append(l[q].down, m) ELSE l[q].down
    BY <1>1, <1>5, SentDownFacts
  <1> HIDE DEF b
  <1>7. /\ link' \in [Peers -> Links]
        /\ \A q \in Peers : /\ SameEnds(b[q], link'[q])
                            /\ link'[q].down = IF q \in {p} /\ Takes(b[q])
                                               THEN Append(b[q].down, Answer(t)) ELSE b[q].down
    BY <1>2, <1>5, <1>6, SentDownFacts
  <1>8. ASSUME NEW q \in Peers
        PROVE  /\ SameEnds(link[q], link'[q])
               /\ link'[q].down = IF Takes(link[q])
                                  THEN IF q = p THEN Append(Append(link[q].down, m), Answer(t))
                                                ELSE Append(link[q].down, m)
                                  ELSE link[q].down
    <2>1. SameEnds(link[q], l[q]) /\ SameEnds(l[q], b[q]) /\ SameEnds(b[q], link'[q])
      BY <1>1, <1>6, <1>7
    <2>2. SameEnds(link[q], link'[q])
      BY <2>1 DEF SameEnds
    <2>3. (Takes(l[q]) <=> Takes(link[q])) /\ (Takes(b[q]) <=> Takes(link[q]))
      BY <2>1 DEF SameEnds, Takes
    <2> QED BY <1>1, <1>6, <1>7, <2>2, <2>3
  <1>9. \A q \in Peers : LinkInv(link'[q]) /\ link'[q].client = link[q].client
    BY <1>8, RoomStart, LinkInvSame DEF SameEnds
  <1>10. ASSUME NEW q \in Peers
         PROVE  Informed(link'[q], q, known[Nick(q)], state[Nick(q)], members')
    <2>1. /\ Informed(link[q], q, known[Nick(q)], state[Nick(q)], members)
          /\ link[q].down \in Seq(DownMessages) /\ LinkInv(link[q])
      BY RoomStart
    <2>2. CASE q = p
      <3>1. q \in Elements(members') /\ Nick(q) \in NicksOf(members')
        BY <1>4, <2>2
      <3> QED BY <1>3, <1>4, <1>8, <2>1, <2>2, <3>1, InformedWelcome DEF m
    <2>3. CASE q # p
      BY <1>4, <1>8, <2>1, <2>3, InformedBroadcast DEF m
    <2> QED BY <2>2, <2>3
  <1>11. \A q \in Elements(members') : link'[q].room = "up" /\ Nick(q) \notin banned'
    <2>1. Elements(members) \subseteq Peers
      BY RoomStart DEF Roll, Elements
    <2> QED BY <1>2, <1>4, <1>8, <2>1, RoomStart DEF SameEnds, Connected
  <1>12. Len(members') <= Slots
    BY <1>2, <1>4, RoomAssumption
  <1> QED BY <1>2, <1>4, <1>7, <1>9, <1>10, <1>11, <1>12, RoomStart, RoomKeeps

(* The players behind the removal of a member that ends its connection:     *)
(* for the others it is a broadcast, the member itself will hear of it.     *)
LEMMA LeaverStep ==
    ASSUME IInv, UNCHANGED memberVars, NEW q \in Peers, NEW l \in [Peers -> Links],
           \A r \in Peers : r # q => SameEnds(link[r], l[r]) /\ l[r].down = link[r].down,
           l[q].room # "up", l[q].client = link[q].client,
           l[q].client = "up" =>
              /\ l[q].downBye
              /\ \/ l[q].down = link[q].down
                 \/ \E t \in Thrown : l[q].down = Append(link[q].down, Answer(t)),
           isOpen' = isOpen, members' = Without(members, q),
           banned' \subseteq Nicks, banned' \subseteq banned \cup {Nick(q)},
           q \in Elements(members) \/ banned' = banned,
           link' = BroadcastRoomInformation(l, members')
    PROVE  IInv'
  <1> DEFINE m == RoomInformation(members')
  <1>1. /\ Roll(members') /\ Elements(members') = Elements(members) \ {q}
        /\ Len(members') <= Slots /\ members' \in Seq(Peers)
    BY RoomStart, WithoutFacts, RoomAssumption
  <1>2. m \in DownMessages
    BY <1>1, PacketTypes
  <1> HIDE DEF m
  <1>3. /\ link' \in [Peers -> Links]
        /\ \A r \in Peers : /\ SameEnds(l[r], link'[r])
                            /\ link'[r].down = IF Takes(l[r]) THEN Append(l[r].down, m)
                                                              ELSE l[r].down
    BY <1>2, SentDownFacts DEF BroadcastRoomInformation, m
  <1>4. ASSUME NEW r \in Peers, r # q
        PROVE  /\ SameEnds(link[r], link'[r])
               /\ link'[r].down = IF Takes(link[r]) THEN Append(link[r].down, m)
                                                    ELSE link[r].down
    <2>1. SameEnds(link[r], l[r]) /\ l[r].down = link[r].down /\ SameEnds(l[r], link'[r])
      BY <1>3, <1>4
    <2>2. Takes(l[r]) <=> Takes(link[r])
      BY <2>1 DEF SameEnds, Takes
    <2> QED BY <1>3, <2>1, <2>2 DEF SameEnds
  <1>5. SameEnds(l[q], link'[q]) /\ link'[q].down = l[q].down
    <2>1. ~Takes(l[q])
      BY DEF Takes
    <2> QED BY <1>3, <2>1
  <1>6. ASSUME NEW r \in Peers PROVE LinkInv(link'[r]) /\ link'[r].client = link[r].client
    <2>1. CASE r = q
      BY <1>5, <2>1 DEF SameEnds, LinkInv
    <2>2. CASE r # q
      BY <1>4, <2>2, RoomStart, LinkInvSame DEF SameEnds
    <2> QED BY <2>1, <2>2
  <1>7. ASSUME NEW r \in Peers
        PROVE  Informed(link'[r], r, known[Nick(r)], state[Nick(r)], members')
    <2>1. /\ Informed(link[r], r, known[Nick(r)], state[Nick(r)], members)
          /\ link[r].down \in Seq(DownMessages) /\ LinkInv(link[r])
      BY RoomStart
    <2>2. CASE r = q
      <3>1. /\ link'[r].client = link[r].client
            /\ link'[r].client = "up" => link'[r].downBye
            /\ link'[r].client = "up" =>
                  \/ link'[r].down = link[r].down \/ link'[r].down = << >>
                  \/ \E t \in Thrown : link'[r].down = Append(link[r].down, Answer(t))
        BY <1>5, <2>2 DEF SameEnds
      <3> QED BY <2>1, <3>1, InformedEnds
    <2>3. CASE r # q
      BY <1>1, <1>4, <2>1, <2>3, InformedBroadcast DEF m
    <2> QED BY <2>2, <2>3
  <1>8. ASSUME NEW r \in Elements(members') PROVE link'[r].room = "up" /\ Nick(r) \notin banned'
    <2>1. r \in Elements(members) /\ r # q /\ r \in Peers
      <3>1. Elements(members) \subseteq Peers
        BY RoomStart DEF Roll, Elements
      <3> QED BY <1>1, <3>1
    <2>2. link'[r].room = "up" /\ Nick(r) \notin banned
      BY <1>4, <2>1, RoomStart DEF SameEnds
    <2>3. q \in Elements(members) => Nick(r) # Nick(q)
      BY <2>1, RoomStart, RollNicks
    <2> QED BY <2>2, <2>3
  <1> QED BY <1>1, <1>3, <1>6, <1>7, <1>8, RoomStart, RoomKeeps

(* HandleModKickPacket and HandleModBanPacket. *)
LEMMA RemovalStep ==
    ASSUME IInv, UNCHANGED memberVars, NEW p \in Peers, link[p].up # << >>,
           NEW n \in Nicks, NEW ban \in BOOLEAN, HandleRemoval(p, n, ban)
    PROVE  IInv'
  <1> DEFINE target == {q \in Members : Nick(q) = n}
             t == IF ban THEN "HostBanned" ELSE "HostKicked"
             l == Taken(p)
  <1>1. /\ l \in [Peers -> Links]
        /\ \A r \in Peers : SameEnds(link[r], l[r]) /\ l[r].down = link[r].down
    BY RoomStart, TakenFacts
  <1>2. CASE ~(HasModPermission(members, p) /\ target # {})
    <2>1. link' = Taken(p) /\ UNCHANGED <<isOpen, members, banned>>
      BY <1>2 DEF HandleRemoval, roomVars
    <2> QED BY <2>1, TakenStep
  <1>3. CASE HasModPermission(members, p) /\ target # {}
    <2>1. PICK q \in target :
             /\ members' = Without(members, q)
             /\ banned' = IF ban THEN banned \cup {n} ELSE banned
             /\ link' = BroadcastRoomInformation(Removed(l, q, t), members')
             /\ UNCHANGED isOpen
      BY <1>3 DEF HandleRemoval
    <2>2. q \in Elements(members) /\ q \in Peers /\ Nick(q) = n
      <3>1. q \in Elements(members) /\ Nick(q) = n
        BY RoomStart
      <3>2. Elements(members) \subseteq Peers
        BY RoomStart DEF Roll, Elements
      <3> QED BY <3>1, <3>2
    <2>3. t \in Thrown /\ Answer(t) \in DownMessages
      BY PacketTypes DEF Thrown
    <2> DEFINE a == SentDown(l, {q}, Answer(t))
               b == RoomDisconnects(a, q)
    <2> HIDE DEF l, t, target
    <2>4. /\ a \in [Peers -> Links]
          /\ \A r \in Peers : /\ SameEnds(l[r], a[r])
                              /\ a[r].down = IF r \in {q} /\ Takes(l[r])
                                             THEN Append(l[r].down, Answer(t)) ELSE l[r].down
      BY <1>1, <2>3, SentDownFacts
    <2> HIDE DEF a
    <2>5. /\ b \in [Peers -> Links]
          /\ \A r \in Peers : r # q => b[r] = a[r]
          /\ b[q].room = "closing" /\ b[q].client = a[q].client /\ b[q].down = a[q].down
          /\ b[q].upBye /\ b[q].downBye
      BY <2>2, <2>4, RoomDisconnectsFacts
    <2>6. Removed(l, q, t) = b
      BY DEF Removed, a
    <2> HIDE DEF b
    <2>7. ASSUME NEW r \in Peers, r # q
          PROVE  SameEnds(link[r], b[r]) /\ b[r].down = link[r].down
      BY <1>1, <2>4, <2>5, <2>7 DEF SameEnds
    <2>8. /\ b[q].client = link[q].client
          /\ b[q].down = link[q].down \/ b[q].down = Append(link[q].down, Answer(t))
      BY <1>1, <2>2, <2>4, <2>5 DEF SameEnds
    <2>9. /\ banned' \subseteq Nicks /\ banned' \subseteq banned \cup {Nick(q)}
      BY <2>1, <2>2, RoomStart
    <2> QED BY <2>1, <2>2, <2>3, <2>5, <2>6, <2>7, <2>8, <2>9, LeaverStep
  <1> QED BY <1>2, <1>3

(* HandleClientDisconnection. *)
LEMMA DisconnectionStep ==
    ASSUME IInv, UNCHANGED memberVars, NEW p \in Peers, HandleClientDisconnection(p)
    PROVE  IInv'
  <1> DEFINE l == RoomEnds(link, {p})
  <1>1. /\ members' = Without(members, p) /\ UNCHANGED <<isOpen, banned>>
        /\ link' = BroadcastRoomInformation(l, members')
    BY DEF HandleClientDisconnection
  <1>2. /\ l \in [Peers -> Links]
        /\ \A r \in Peers : r # p => l[r] = link[r]
        /\ l[p].room = "none" /\ l[p].client = link[p].client
        /\ link[p].client = "up" => l[p].down = link[p].down /\ l[p].downBye
    BY RoomStart, RoomEndsFacts
  <1> HIDE DEF l
  <1>3. \A r \in Peers : r # p => SameEnds(link[r], l[r]) /\ l[r].down = link[r].down
    BY <1>2 DEF SameEnds
  <1>4. banned' \subseteq Nicks /\ banned' \subseteq banned \cup {Nick(p)}
    BY <1>1, RoomStart
  <1> QED BY <1>1, <1>2, <1>3, <1>4, LeaverStep

(* Room::Destroy. *)
LEMMA DestroyStep ==
    ASSUME IInv, UNCHANGED memberVars, Destroy
    PROVE  IInv'
  <1> DEFINE m == Answer("CloseRoom")
             l == SentDown(link, Members, m)
             P == {p \in Peers : link[p].room # "none"}
  <1>1. /\ isOpen' = FALSE /\ members' = << >> /\ banned' = banned
        /\ link' = RoomEnds(l, P)
    BY DEF Destroy
  <1>2. m \in DownMessages /\ "CloseRoom" \in Thrown
    BY PacketTypes DEF Thrown
  <1> HIDE DEF m
  <1>3. /\ l \in [Peers -> Links]
        /\ \A p \in Peers : /\ SameEnds(link[p], l[p])
                            /\ l[p].down = IF p \in Members /\ Takes(link[p])
                                           THEN Append(link[p].down, m) ELSE link[p].down
    BY <1>2, RoomStart, SentDownFacts
  <1> HIDE DEF l
  <1>4. /\ link' \in [Peers -> Links]
        /\ \A p \in Peers : p \notin P => link'[p] = l[p]
        /\ \A p \in Peers : p \in P =>
              /\ link'[p].room = "none" /\ link'[p].client = l[p].client
              /\ l[p].client = "up" => link'[p].down = l[p].down /\ link'[p].downBye
    BY <1>1, <1>3, RoomEndsFacts
  <1>5. ASSUME NEW p \in Peers
        PROVE  /\ LinkInv(link'[p]) /\ link'[p].client = link[p].client
               /\ link'[p].client = "up" => link'[p].downBye
               /\ link'[p].client = "up" => \/ link'[p].down = link[p].down
                                            \/ link'[p].down = Append(link[p].down, m)
    <2>1. SameEnds(link[p], l[p]) /\ LinkInv(link[p])
      BY <1>3, RoomStart
    <2>2. CASE p \in P
      <3>1. link'[p].room = "none" /\ link'[p].client = link[p].client
        BY <1>4, <2>1, <2>2 DEF SameEnds
      <3>2. link'[p].client = "up" => link'[p].downBye /\ link'[p].down = l[p].down
        BY <1>4, <2>2
      <3>3. LinkInv(link'[p])
        BY <3>1, <3>2 DEF LinkInv
      <3> QED BY <1>3, <3>1, <3>2, <3>3
    <2>3. CASE p \notin P
      <3>1. link'[p] = l[p] /\ link[p].room = "none"
        BY <1>4, <2>3
      <3>2. LinkInv(link'[p])
        BY <2>1, <3>1, LinkInvSame
      <3>3. link'[p].client = link[p].client /\ (link'[p].client = "up" => link'[p].downBye)
        BY <2>1, <3>1 DEF SameEnds, LinkInv
      <3> QED BY <1>3, <3>1, <3>2, <3>3
    <2> QED BY <2>2, <2>3
  <1>6. ASSUME NEW p \in Peers
        PROVE  Informed(link'[p], p, known[Nick(p)], state[Nick(p)], members')
    <2>1. /\ Informed(link[p], p, known[Nick(p)], state[Nick(p)], members)
          /\ link[p].down \in Seq(DownMessages)
      BY RoomStart
    <2> QED BY <1>2, <1>5, <2>1, InformedEnds DEF m
  <1>7. Roll(members') /\ Len(members') <= Slots /\ Elements(members') = {}
    BY <1>1, RoomAssumption DEF Roll, Elements
  <1> QED BY <1>1, <1>4, <1>5, <1>6, <1>7, RoomStart, RoomKeeps

(* Every step of the room keeps the invariant. *)
LEMMA RoomStepHolds ==
    ASSUME IInv, NEW p \in Peers, RoomStep(p)
    PROVE  IInv'
  <1>1. CASE HandleClientDisconnection(p)
    BY <1>1, DisconnectionStep DEF RoomStep
  <1>2. CASE RoomReceives(p)
    <2> DEFINE msg == Head(link[p].up)
    <2>1. /\ UNCHANGED memberVars /\ Connected(p) /\ link[p].up # << >>
      BY <1>2 DEF RoomReceives, RoomStep
    <2>2. msg \in UpMessages
      <3>1. link[p].up \in Seq(UpMessages)
        BY RoomStart, LinkFields
      <3> QED BY <2>1, <3>1
    <2>3. msg.type \in {"JoinRequest", "ModKick", "ModBan", "ModUnban"} /\ msg.nick \in Nicks
      BY <2>2 DEF UpMessages
    <2>4. /\ msg.type = "JoinRequest" => HandleJoinRequest(p)
          /\ msg.type = "ModKick" => HandleRemoval(p, msg.nick, FALSE)
          /\ msg.type = "ModBan" => HandleRemoval(p, msg.nick, TRUE)
          /\ msg.type = "ModUnban" => HandleModUnban(p, msg.nick)
      BY <1>2, <2>3 DEF RoomReceives
    <2> HIDE DEF msg
    <2>5. CASE HandleJoinRequest(p)
      BY <2>1, <2>5, JoinRefusedStep, JoinAcceptedStep DEF HandleJoinRequest
    <2>6. CASE HandleModUnban(p, msg.nick)
      <3>1. link' = Taken(p) /\ UNCHANGED <<isOpen, members>> /\ banned' \subseteq banned
        BY <2>6 DEF HandleModUnban
      <3> QED BY <2>1, <3>1, TakenStep
    <2>7. CASE HandleRemoval(p, msg.nick, FALSE)
      BY <2>1, <2>3, <2>7, RemovalStep
    <2>8. CASE HandleRemoval(p, msg.nick, TRUE)
      BY <2>1, <2>3, <2>8, RemovalStep
    <2> QED BY <2>3, <2>4, <2>5, <2>6, <2>7, <2>8
  <1> QED BY <1>1, <1>2 DEF RoomStep

(* A connection that breaks. *)
LEMMA BreaksStep ==
    ASSUME IInv, NEW p \in Peers, LinkBreaks(p)
    PROVE  IInv'
  <1>1. Breaks(p) /\ UNCHANGED memberVars /\ UNCHANGED <<isOpen, members, banned>>
    BY DEF LinkBreaks, roomVars
  <1>2. /\ link' \in [Peers -> Links]
        /\ \A q \in Peers : q # p => link'[q] = link[q]
        /\ link[p].room = "up" /\ link[p].client = "up"
        /\ link'[p].room = "up" /\ link'[p].client = "up" /\ link'[p].down = << >>
        /\ link'[p].upBye /\ link'[p].downBye
    BY <1>1, RoomStart, BreaksFacts
  <1>3. ASSUME NEW q \in Peers
        PROVE  LinkInv(link'[q]) /\ link'[q].client = link[q].client /\ link'[q].room = link[q].room
    BY <1>2, RoomStart DEF LinkInv
  <1>4. ASSUME NEW q \in Peers
        PROVE  Informed(link'[q], q, known[Nick(q)], state[Nick(q)], members')
    <2>1. /\ Informed(link[q], q, known[Nick(q)], state[Nick(q)], members)
          /\ link[q].down \in Seq(DownMessages)
      BY RoomStart
    <2>2. CASE q = p
      BY <1>2, <2>1, <2>2, InformedEnds
    <2>3. CASE q # p
      BY <1>1, <1>2, <2>1, <2>3
    <2> QED BY <2>2, <2>3
  <1>5. \A q \in Elements(members') : link'[q].room = "up" /\ Nick(q) \notin banned'
    <2>1. Elements(members) \subseteq Peers
      BY RoomStart DEF Roll, Elements
    <2> QED BY <1>1, <1>3, <2>1, RoomStart
  <1> QED BY <1>1, <1>2, <1>3, <1>4, <1>5, RoomStart, RoomKeeps

-----------------------------------------------------------------------------
(* The steps of a player *)

(* A step that leaves the connections and the list alone. *)
LEMMA LinkSame ==
    ASSUME IInv, UNCHANGED roomVars, UNCHANGED <<link, known>>, TypeOK',
           \A n \in Nicks : /\ state'[n] \in InRoom => state[n] \in InRoom
                            /\ loop'[n] \in {"none", "ended"} => loop[n] \in {"none", "ended"}
    PROVE  IInv'
  <1>1. \A p \in Peers : LinkInv(link'[p])
    BY DEF IInv
  <1>2. RoomInv'
    BY DEF IInv, RoomInv, roomVars, Members, Connected
  <1>3. ASSUME NEW n \in Nicks PROVE PlayerInv(n)'
    <2>1. PlayerInv(n) /\ Open(n)' = Open(n)
      BY OpenSame DEF IInv
    <2> QED BY <2>1 DEF PlayerInv
  <1>4. ASSUME NEW p \in Peers PROVE PeerInv(p)'
    <2>1. Nick(p) \in Nicks /\ PeerInv(p)
      BY PeerNick DEF IInv
    <2> QED BY <2>1 DEF PeerInv, Informed, roomVars
  <1> QED BY <1>1, <1>2, <1>3, <1>4 DEF IInv

(* A step on the connections of one player. *)
LEMMA PlayerKeeps ==
    ASSUME IInv, UNCHANGED roomVars, TypeOK', NEW n \in Nicks,
           \A m \in Nicks : m # n => /\ state'[m] = state[m] /\ loop'[m] = loop[m]
                                     /\ known'[m] = known[m],
           \A p \in Peers : LinkInv(link'[p]),
           \A p \in Peers : Nick(p) # n =>
                SameEnds(link[p], link'[p]) /\ link'[p].down = link[p].down,
           \A p \in Members : link'[p].room = "up",
           PlayerInv(n)', \A p \in Peers : Nick(p) = n => PeerInv(p)'
    PROVE  IInv'
  <1>1. RoomInv'
    BY DEF IInv, RoomInv, roomVars, Members, Connected
  <1>2. ASSUME NEW m \in Nicks, m # n PROVE PlayerInv(m)'
    <2>1. PlayerInv(m) /\ state'[m] = state[m] /\ loop'[m] = loop[m]
      BY <1>2 DEF IInv
    <2>2. Open(m)' = Open(m)
      BY <1>2 DEF Open, SameEnds
    <2> QED BY <2>1, <2>2 DEF PlayerInv
  <1>3. ASSUME NEW p \in Peers, Nick(p) # n PROVE PeerInv(p)'
    <2>1. Nick(p) \in Nicks /\ PeerInv(p)
      BY PeerNick DEF IInv
    <2>2. state'[Nick(p)] = state[Nick(p)] /\ known'[Nick(p)] = known[Nick(p)] /\ members' = members
      BY <1>3, <2>1 DEF roomVars
    <2>3. SameEnds(link[p], link'[p]) /\ link'[p].down = link[p].down
      BY <1>3
    <2> QED BY <2>1, <2>2, <2>3, InformedSame DEF PeerInv
  <1> QED BY <1>1, <1>2, <1>3 DEF IInv

(* The user thread, but for a connection that is made. *)
LEMMA UserSteps ==
    ASSUME IInv, NEW n \in Nicks, UNCHANGED roomVars,
           \/ JoinLeavesFirst(n) \/ Leave(n) \/ LeaveReturns(n)
           \/ \E request \in ModRequests : SendModerationRequest(n, request)
    PROVE  IInv'
  <1>0. TypeOK
    BY DEF IInv
  <1>1. ASSUME Leaving(n), UNCHANGED <<link, sendList, known, undone, calls>>,
               user' \in [Nicks -> {"free", "leaving", "rejoining"}]
        PROVE  IInv'
    <2>1. state' = [state EXCEPT ![n] = "Idle"]
      BY <1>1 DEF Leaving
    <2>2. loop' = loop \/ (loop[n] = "running" /\ loop' = [loop EXCEPT ![n] = "body"])
      BY <1>1 DEF Leaving
    <2>3. TypeOK'
      BY <1>0, <1>1, <2>1, <2>2 DEF TypeOK, roomVars
    <2>4. \A m \in Nicks : /\ state'[m] \in InRoom => state[m] \in InRoom
                           /\ loop'[m] \in {"none", "ended"} => loop[m] \in {"none", "ended"}
      BY <1>0, <2>1, <2>2 DEF TypeOK, InRoom
    <2> QED BY <1>1, <2>3, <2>4, LinkSame
  <1>2. CASE JoinLeavesFirst(n) \/ Leave(n)
    <2>1. /\ Leaving(n) /\ UNCHANGED <<link, sendList, known, undone, calls>>
          /\ \/ user' = [user EXCEPT ![n] = "rejoining"] \/ user' = [user EXCEPT ![n] = "leaving"]
      BY <1>2 DEF JoinLeavesFirst, Leave
    <2>2. user' \in [Nicks -> {"free", "leaving", "rejoining"}]
      BY <1>0, <2>1 DEF TypeOK
    <2> QED BY <1>1, <2>1, <2>2
  <1>3. CASE LeaveReturns(n)
    <2>1. /\ loop[n] = "ended" /\ loop' = [loop EXCEPT ![n] = "none"]
          /\ user' = [user EXCEPT ![n] = "free"] /\ undone' = [undone EXCEPT ![n] = FALSE]
          /\ UNCHANGED <<link, state, sendList, known, calls>>
      BY <1>3 DEF LeaveReturns
    <2>2. TypeOK'
      BY <1>0, <2>1 DEF TypeOK, roomVars
    <2>3. \A m \in Nicks : loop'[m] \in {"none", "ended"} => loop[m] \in {"none", "ended"}
      BY <1>0, <2>1 DEF TypeOK
    <2> QED BY <2>1, <2>2, <2>3, LinkSame
  <1>4. ASSUME NEW request \in ModRequests, SendModerationRequest(n, request) PROVE IInv'
    <2>1. /\ sendList' = [sendList EXCEPT ![n] = Append(sendList[n], request)]
          /\ calls < MaxCalls /\ calls' = calls + 1
          /\ UNCHANGED <<link, state, user, loop, known, undone>>
      BY <1>4 DEF SendModerationRequest
    <2>2. request \in UpMessages
      <3>1. request \in [type : {"ModKick", "ModBan", "ModUnban"}, nick : Nicks]
        BY MemberAssumption
      <3> QED BY <3>1 DEF UpMessages
    <2>3. Append(sendList[n], request) \in Seq(UpMessages)
      BY <1>0, <2>2 DEF TypeOK
    <2>4. sendList' \in [Nicks -> Seq(UpMessages)]
      BY <1>0, <2>1, <2>3 DEF TypeOK
    <2>5. calls' \in 0 .. MaxCalls
      BY <1>0, <2>1, MemberAssumption DEF TypeOK
    <2>6. TypeOK'
      BY <1>0, <2>1, <2>4, <2>5 DEF TypeOK, roomVars
    <2> QED BY <2>1, <2>6, LinkSame
  <1> QED BY <1>2, <1>3, <1>4

(* The rest of Join. *)
LEMMA ConnectStep ==
    ASSUME IInv, NEW n \in Nicks, UNCHANGED roomVars, NEW room, JoinConnects(n, room)
    PROVE  IInv'
  <1>0. TypeOK
    BY DEF IInv
  <1>1. /\ loop[n] \in {"none", "ended"} /\ calls < MaxCalls
        /\ user' = [user EXCEPT ![n] = "free"] /\ undone' = [undone EXCEPT ![n] = FALSE]
        /\ known' = known
        /\ \/ \E p \in Peers : p = FirstFree(n) /\ Connects(n, p)
           \/ CannotConnect(n)
    BY DEF JoinConnects
  <1>2. CASE CannotConnect(n)
    <2>1. /\ state' = [state EXCEPT ![n] = "Idle"] /\ loop' = [loop EXCEPT ![n] = "none"]
          /\ UNCHANGED <<link, sendList, calls>>
      BY <1>2 DEF CannotConnect
    <2>2. TypeOK'
      BY <1>0, <1>1, <2>1 DEF TypeOK, roomVars
    <2>3. \A m \in Nicks : /\ state'[m] \in InRoom => state[m] \in InRoom
                           /\ loop'[m] \in {"none", "ended"} => loop[m] \in {"none", "ended"}
      BY <1>0, <1>1, <2>1 DEF TypeOK, InRoom
    <2> QED BY <1>1, <2>1, <2>2, <2>3, LinkSame
  <1>3. ASSUME NEW p \in Peers, p = FirstFree(n), Connects(n, p) PROVE IInv'
    <2>1. /\ link[p] = Free /\ link' = ConnectedLink(link, p)
          /\ state' = [state EXCEPT ![n] = "Joining"] /\ loop' = [loop EXCEPT ![n] = "running"]
          /\ sendList' = [sendList EXCEPT ![n] = Append(sendList[n], JoinRequest(n))]
          /\ calls' = calls + 1
      BY <1>3 DEF Connects
    <2>2. Nick(p) = n
      BY <1>3 DEF FirstFree, Nick
    <2>3. /\ link' \in [Peers -> Links]
          /\ \A q \in Peers : q # p => link'[q] = link[q]
          /\ link'[p].room = "up" /\ link'[p].client = "up" /\ link'[p].down = << >>
          /\ ~link'[p].upBye /\ ~link'[p].downBye
      BY <2>1, RoomStart, ConnectedLinkFacts
    <2>4. TypeOK'
      <3>1. JoinRequest(n) \in UpMessages
        BY DEF JoinRequest, UpMessages
      <3>2. Append(sendList[n], JoinRequest(n)) \in Seq(UpMessages)
        BY <1>0, <3>1 DEF TypeOK
      <3>3. sendList' \in [Nicks -> Seq(UpMessages)]
        BY <1>0, <2>1, <3>2 DEF TypeOK
      <3>4. calls' \in 0 .. MaxCalls
        BY <1>0, <1>1, <2>1, MemberAssumption DEF TypeOK
      <3> QED BY <1>0, <1>1, <2>1, <2>3, <3>3, <3>4 DEF TypeOK, roomVars
    <2>5. Open(n) = {} /\ Open(n)' = {p}
      <3>1. Open(n) = {}
        BY <1>1 DEF IInv, PlayerInv
      <3>2. \A q \in Peers : Nick(q) = n => link[q].client # "up"
        BY <3>1 DEF Open
      <3>3. Open(n)' = {p}
        BY <2>2, <2>3, <3>2 DEF Open
      <3> QED BY <3>1, <3>3
    <2>6. p \notin Elements(members)
      BY <2>1, RoomStart, FreeFacts
    <2>7. \A q \in Peers : LinkInv(link'[q])
      BY <2>3, RoomStart DEF LinkInv
    <2>8. \A q \in Peers : Nick(q) # n => SameEnds(link[q], link'[q]) /\ link'[q].down = link[q].down
      BY <2>2, <2>3 DEF SameEnds
    <2>9. \A q \in Members : link'[q].room = "up"
      <3>1. Elements(members) \subseteq Peers
        BY RoomStart DEF Roll, Elements
      <3> QED BY <2>3, <2>6, <3>1, RoomStart
    <2>10. PlayerInv(n)'
      BY <1>0, <2>1, <2>5 DEF PlayerInv, TypeOK
    <2>11. ASSUME NEW q \in Peers, Nick(q) = n PROVE PeerInv(q)'
      <3>1. CASE q # p
        <4>1. link'[q].client # "up"
          BY <2>5, <2>11, <3>1 DEF Open
        <4> QED BY <4>1 DEF PeerInv, Informed
      <3>2. CASE q = p
        <4>1. state'[n] \notin InRoom /\ members' = members
          BY <1>0, <2>1 DEF TypeOK, InRoom, roomVars
        <4> QED BY <2>3, <2>6, <2>11, <3>2, <4>1, EmptyPromises DEF PeerInv, Informed
      <3> QED BY <3>1, <3>2
    <2>12. \A m \in Nicks : m # n => /\ state'[m] = state[m] /\ loop'[m] = loop[m]
                                     /\ known'[m] = known[m]
      BY <1>0, <1>1, <2>1 DEF TypeOK
    <2> QED BY <2>4, <2>7, <2>8, <2>9, <2>10, <2>11, <2>12, PlayerKeeps
  <1> QED BY <1>1, <1>2, <1>3

(* The end of an iteration of the loop thread. *)
LEMMA SendsFacts ==
    ASSUME TypeOK, NEW n \in Nicks, NEW l \in [Peers -> Links], Sends(n, l)
    PROVE  /\ link' \in [Peers -> Links]
           /\ \A p \in Peers : SameEnds(l[p], link'[p]) /\ link'[p].down = l[p].down
           /\ sendList' \in [Nicks -> Seq(UpMessages)]
           /\ loop' = [loop EXCEPT ![n] = "running"]
           /\ loop' \in [Nicks -> {"none", "running", "body", "ended"}]
  <1>1. sendList[n] \in Seq(UpMessages)
    BY DEF TypeOK
  <1>2. /\ link' \in [Peers -> Links]
        /\ \A p \in Peers : SameEnds(l[p], link'[p]) /\ link'[p].down = l[p].down
    BY <1>1, SentUpFacts DEF Sends
  <1>3. sendList' \in [Nicks -> Seq(UpMessages)]
    <2>1. sendList' = [sendList EXCEPT ![n] = << >>] /\ << >> \in Seq(UpMessages)
      BY DEF Sends
    <2> QED BY <2>1 DEF TypeOK
  <1>4. loop' = [loop EXCEPT ![n] = "running"]
    BY DEF Sends
  <1> QED BY <1>2, <1>3, <1>4 DEF TypeOK

(* A connection of the player that is not the open one carries nothing. *)
LEMMA NotOpen ==
    ASSUME IInv, NEW n \in Nicks, NEW p \in Open(n), NEW q \in Peers, q # p, Nick(q) = n
    PROVE  link[q].client # "up"
  <1>1. \A r \in Open(n) : r = p
    BY DEF IInv, PlayerInv
  <1> QED BY <1>1 DEF Open

(* The loop ends: Disconnect. *)
LEMMA LoopExitsStep ==
    ASSUME IInv, NEW n \in Nicks, UNCHANGED roomVars, LoopExits(n)
    PROVE  IInv'
  <1>0. TypeOK
    BY DEF IInv
  <1>1. /\ known' = [known EXCEPT ![n] = {}] /\ link' = ClientEnds(link, Open(n), TRUE)
        /\ loop' = [loop EXCEPT ![n] = "ended"] /\ ~IsConnected(n)
        /\ UNCHANGED <<state, sendList, undone, user, calls>>
    BY DEF LoopExits, Disconnect, userVars
  <1>2. /\ link' \in [Peers -> Links]
        /\ \A q \in Peers : q \notin Open(n) => link'[q] = link[q]
        /\ \A q \in Peers : q \in Open(n) =>
              /\ link'[q].client = "none" /\ link'[q].room = link[q].room
              /\ link[q].room = "up" => link'[q].upBye
    <2> DEFINE l == ClientEnds(link, Open(n), TRUE)
    <2>1. /\ l \in [Peers -> Links]
          /\ \A q \in Peers : q \notin Open(n) => l[q] = link[q]
          /\ \A q \in Peers : q \in Open(n) =>
                /\ l[q].client = "none" /\ l[q].room = link[q].room
                /\ link[q].room = "up" /\ (TRUE \/ link[q].upBye) => l[q].upBye
      BY RoomStart, ClientEndsFacts
    <2> HIDE DEF l
    <2>2. link' = l
      BY <1>1 DEF l
    <2> QED BY <2>1, <2>2
  <1>3. TypeOK'
    BY <1>0, <1>1, <1>2 DEF TypeOK, roomVars
  <1>4. \A q \in Peers : Nick(q) = n => link'[q].client # "up"
    BY <1>2 DEF Open
  <1>5. \A q \in Peers : LinkInv(link'[q])
    BY <1>2, RoomStart DEF LinkInv
  <1>6. \A q \in Peers : Nick(q) # n => SameEnds(link[q], link'[q]) /\ link'[q].down = link[q].down
    BY <1>2 DEF SameEnds, Open
  <1>7. \A q \in Members : link'[q].room = "up"
    <2>1. Elements(members) \subseteq Peers
      BY RoomStart DEF Roll, Elements
    <2> QED BY <1>2, <2>1, RoomStart
  <1>8. PlayerInv(n)'
    <2>1. Open(n)' = {}
      BY <1>4 DEF Open
    <2> QED BY <1>1, <2>1 DEF PlayerInv, IsConnected
  <1>9. \A q \in Peers : Nick(q) = n => PeerInv(q)'
    BY <1>4 DEF PeerInv, Informed
  <1>10. \A m \in Nicks : m # n => /\ state'[m] = state[m] /\ loop'[m] = loop[m]
                                   /\ known'[m] = known[m]
    BY <1>0, <1>1 DEF TypeOK
  <1> QED BY <1>3, <1>5, <1>6, <1>7, <1>8, <1>9, <1>10, PlayerKeeps

(* An iteration of the loop in which nothing arrives. *)
LEMMA LoopIdlesStep ==
    ASSUME IInv, NEW n \in Nicks, UNCHANGED roomVars, LoopIdles(n)
    PROVE  IInv'
  <1>0. TypeOK /\ link \in [Peers -> Links]
    BY DEF IInv, TypeOK
  <1>1. Sends(n, link) /\ UNCHANGED <<state, known, undone, user, calls>> /\ InBody(n)
    BY DEF LoopIdles, userVars
  <1>2. /\ link' \in [Peers -> Links]
        /\ \A p \in Peers : SameEnds(link[p], link'[p]) /\ link'[p].down = link[p].down
        /\ sendList' \in [Nicks -> Seq(UpMessages)]
        /\ loop' = [loop EXCEPT ![n] = "running"]
        /\ loop' \in [Nicks -> {"none", "running", "body", "ended"}]
    BY <1>0, <1>1, SendsFacts
  <1>3. TypeOK'
    BY <1>0, <1>1, <1>2 DEF TypeOK, roomVars
  <1>4. \A q \in Peers : LinkInv(link'[q])
    BY <1>2, RoomStart, LinkInvSame
  <1>5. \A q \in Members : link'[q].room = "up"
    <2>1. Elements(members) \subseteq Peers
      BY RoomStart DEF Roll, Elements
    <2> QED BY <1>2, <2>1, RoomStart DEF SameEnds
  <1>6. PlayerInv(n)'
    <2>1. Open(n)' = Open(n)
      BY <1>2, OpenSame DEF SameEnds
    <2>2. loop'[n] = "running"
      BY <1>0, <1>2 DEF TypeOK
    <2> QED BY <1>1, <2>1, <2>2 DEF IInv, PlayerInv
  <1>7. ASSUME NEW q \in Peers PROVE PeerInv(q)'
    <2>1. members' = members /\ known' = known /\ state' = state
      BY <1>1 DEF roomVars
    <2>2. PeerInv(q)
      BY DEF IInv
    <2> QED BY <1>2, <2>1, <2>2, InformedSame DEF PeerInv
  <1>8. \A m \in Nicks : m # n => /\ state'[m] = state[m] /\ loop'[m] = loop[m]
                                  /\ known'[m] = known[m]
    BY <1>0, <1>1, <1>2 DEF TypeOK
  <1> QED BY <1>2, <1>3, <1>4, <1>5, <1>6, <1>7, <1>8, PlayerKeeps

(* The loop thread hears that the connection is gone. *)
LEMMA LoopDisconnectedStep ==
    ASSUME IInv, NEW n \in Nicks, UNCHANGED roomVars, LoopDisconnected(n)
    PROVE  IInv'
  <1>0. TypeOK /\ link \in [Peers -> Links]
    BY DEF IInv, TypeOK
  <1>1. PICK p \in Open(n) : /\ link[p].downBye
                             /\ state' = [state EXCEPT ![n] = StateLost(n)]
                             /\ Sends(n, ClientEnds(link, {p}, FALSE))
    BY DEF LoopDisconnected
  <1>2. UNCHANGED <<known, undone, user, calls>>
    BY DEF LoopDisconnected, userVars
  <1>3. p \in Peers /\ Nick(p) = n /\ link[p].client = "up"
    BY DEF Open
  <1> DEFINE l == ClientEnds(link, {p}, FALSE)
  <1>4. /\ l \in [Peers -> Links]
        /\ \A q \in Peers : q \notin {p} => l[q] = link[q]
        /\ \A q \in Peers : q \in {p} =>
              /\ l[q].client = "none" /\ l[q].room = link[q].room
              /\ link[q].room = "up" /\ (FALSE \/ link[q].upBye) => l[q].upBye
    BY <1>0, ClientEndsFacts
  <1>5. Sends(n, l)
    BY <1>1
  <1> HIDE DEF l
  <1>6. /\ link' \in [Peers -> Links]
        /\ \A q \in Peers : SameEnds(l[q], link'[q]) /\ link'[q].down = l[q].down
        /\ sendList' \in [Nicks -> Seq(UpMessages)]
        /\ loop' = [loop EXCEPT ![n] = "running"]
        /\ loop' \in [Nicks -> {"none", "running", "body", "ended"}]
    BY <1>0, <1>4, <1>5, SendsFacts
  <1>7. ASSUME NEW q \in Peers, q # p
        PROVE  SameEnds(link[q], link'[q]) /\ link'[q].down = link[q].down
    BY <1>4, <1>6, <1>7 DEF SameEnds
  <1>8. /\ link'[p].client = "none" /\ link'[p].room = link[p].room
        /\ link[p].room = "up" /\ link[p].upBye => link'[p].upBye
    BY <1>3, <1>4, <1>6 DEF SameEnds
  <1>9. StateLost(n) \in (InRoom \cup {"Idle", "Joining"}) \ InRoom
    <2>1. state[n] \in InRoom \cup {"Idle", "Joining"}
      BY <1>0 DEF TypeOK
    <2> QED BY <2>1 DEF StateLost, InRoom
  <1>10. TypeOK'
    BY <1>0, <1>1, <1>2, <1>6, <1>9 DEF TypeOK, roomVars
  <1>11. ASSUME NEW q \in Peers PROVE LinkInv(link'[q])
    <2>1. LinkInv(link[q])
      BY RoomStart
    <2>2. CASE q = p
      BY <1>1, <1>8, <2>1, <2>2 DEF LinkInv
    <2>3. CASE q # p
      BY <1>7, <2>1, <2>3, LinkInvSame
    <2> QED BY <2>2, <2>3
  <1>12. \A q \in Members : link'[q].room = "up"
    <2>1. Elements(members) \subseteq Peers
      BY RoomStart DEF Roll, Elements
    <2> QED BY <1>7, <1>8, <2>1, RoomStart DEF SameEnds
  <1>13. \A q \in Peers : Nick(q) = n => link'[q].client # "up"
    BY <1>7, <1>8, NotOpen DEF SameEnds
  <1>14. PlayerInv(n)'
    <2>1. Open(n)' = {}
      BY <1>13 DEF Open
    <2>2. state'[n] \notin InRoom
      BY <1>0, <1>1, <1>9 DEF TypeOK
    <2> QED BY <2>1, <2>2 DEF PlayerInv
  <1>15. \A q \in Peers : Nick(q) = n => PeerInv(q)'
    BY <1>13 DEF PeerInv, Informed
  <1>16. \A m \in Nicks : m # n => /\ state'[m] = state[m] /\ loop'[m] = loop[m]
                                   /\ known'[m] = known[m]
    BY <1>0, <1>1, <1>2, <1>6 DEF TypeOK
  <1>17. \A q \in Peers : Nick(q) # n => SameEnds(link[q], link'[q]) /\ link'[q].down = link[q].down
    BY <1>3, <1>7
  <1> QED BY <1>10, <1>11, <1>12, <1>14, <1>15, <1>16, <1>17, PlayerKeeps

(* The loop thread handles a packet. *)
LEMMA LoopReceivesStep ==
    ASSUME IInv, NEW n \in Nicks, UNCHANGED roomVars, LoopReceives(n)
    PROVE  IInv'
  <1>0. TypeOK /\ link \in [Peers -> Links]
    BY DEF IInv, TypeOK
  <1>1. PICK p \in Open(n) :
           /\ link[p].down # << >>
           /\ LET msg == Head(link[p].down) IN
                /\ state' = [state EXCEPT ![n] = StateAfter(n, msg)]
                /\ known' = IF msg.type = "RoomInformation"
                            THEN [known EXCEPT ![n] = msg.nicks] ELSE known
           /\ Sends(n, [link EXCEPT ![p].down = Tail(@)])
    BY DEF LoopReceives
  <1> DEFINE msg == Head(link[p].down)
             N == [link[p] EXCEPT !.down = Tail(@)]
             l == [link EXCEPT ![p] = N]
             d == link[p].down
  <1>2. UNCHANGED <<user, calls>> /\ undone' = [undone EXCEPT ![n] = undone[n] \/ (user[n] # "free" /\ state'[n] \in InRoom)]
    BY DEF LoopReceives, userVars
  <1>3. p \in Peers /\ Nick(p) = n /\ link[p].client = "up"
    BY DEF Open
  <1>4. d \in Seq(DownMessages) /\ msg \in DownMessages /\ Tail(d) \in Seq(DownMessages)
    <2>1. d \in Seq(DownMessages)
      BY <1>0, <1>3, LinkFields
    <2> QED BY <1>1, <2>1, TailIndexed
  <1>5. N \in Links /\ SameEnds(link[p], N) /\ N.down = Tail(d)
    <2>1. link[p] \in Links
      BY <1>0, <1>3
    <2> QED BY <1>4, <2>1 DEF Links, SameEnds
  <1>6. Sends(n, l)
    BY <1>1
  <1> HIDE DEF N, msg
  <1>7. /\ l \in [Peers -> Links] /\ l[p] = N
        /\ \A q \in Peers : q # p => l[q] = link[q]
    BY <1>0, <1>3, <1>5
  <1> HIDE DEF l, d
  <1>8. /\ link' \in [Peers -> Links]
        /\ \A q \in Peers : SameEnds(l[q], link'[q]) /\ link'[q].down = l[q].down
        /\ sendList' \in [Nicks -> Seq(UpMessages)]
        /\ loop' = [loop EXCEPT ![n] = "running"]
        /\ loop' \in [Nicks -> {"none", "running", "body", "ended"}]
    BY <1>0, <1>6, <1>7, SendsFacts
  <1>9. ASSUME NEW q \in Peers
        PROVE  SameEnds(link[q], link'[q]) /\ (q # p => link'[q].down = link[q].down)
    BY <1>5, <1>7, <1>8 DEF SameEnds
  <1>10. link'[p].down = Tail(d)
    BY <1>3, <1>5, <1>7, <1>8
  <1>11. /\ msg.nicks \subseteq Nicks
         /\ msg.type \in Thrown \cup {"JoinSuccess", "JoinSuccessAsMod", "RoomInformation"}
    BY <1>4 DEF DownMessages
  <1>12. /\ StateAfter(n, msg) \in InRoom \cup {"Idle", "Joining"}
         /\ StateAfter(n, msg) \in InRoom => state[n] \in InRoom \/ msg.type \in Success
    <2>1. state[n] \in InRoom \cup {"Idle", "Joining"}
      BY <1>0 DEF TypeOK
    <2> QED BY <1>11, <2>1 DEF StateAfter, Thrown, Success, InRoom
  <1>13. /\ state' = [state EXCEPT ![n] = StateAfter(n, msg)]
         /\ known' = IF msg.type = "RoomInformation" THEN [known EXCEPT ![n] = msg.nicks] ELSE known
    BY <1>1 DEF msg
  <1>14. TypeOK'
    <2>1. state' \in [Nicks -> InRoom \cup {"Idle", "Joining"}]
      BY <1>0, <1>12, <1>13 DEF TypeOK
    <2>2. known' \in [Nicks -> SUBSET Nicks]
      BY <1>0, <1>11, <1>13 DEF TypeOK
    <2>3. undone' \in [Nicks -> BOOLEAN]
      BY <1>0, <1>2 DEF TypeOK
    <2> QED BY <1>0, <1>2, <1>8, <2>1, <2>2, <2>3 DEF TypeOK, roomVars
  <1>15. \A q \in Peers : LinkInv(link'[q])
    BY <1>9, RoomStart, LinkInvSame
  <1>16. \A q \in Members : link'[q].room = "up"
    <2>1. Elements(members) \subseteq Peers
      BY RoomStart DEF Roll, Elements
    <2> QED BY <1>9, <2>1, RoomStart DEF SameEnds
  <1>17. PlayerInv(n)'
    <2>1. Open(n)' = Open(n)
      BY <1>9, OpenSame DEF SameEnds
    <2>2. loop'[n] = "running"
      BY <1>0, <1>8 DEF TypeOK
    <2>3. PlayerInv(n)
      BY DEF IInv
    <2> QED BY <1>1, <2>1, <2>2, <2>3 DEF PlayerInv
  <1>18. /\ state'[n] = StateAfter(n, msg)
         /\ known'[n] = IF msg.type = "RoomInformation" THEN msg.nicks ELSE known[n]
    BY <1>0, <1>13 DEF TypeOK
  <1>19. PeerInv(p)'
    <2>1. Informed(link[p], p, known[n], state[n], members)
      BY <1>3, RoomStart
    <2>2. Promises(d, n, known[n])
      BY <1>3, <2>1 DEF Informed, d
    <2>3. /\ Promises(Tail(d), n, known'[n])
          /\ Welcomes(Tail(d)) => Welcomes(d)
          /\ msg.type \in Success => Welcomes(d)
          /\ \A x : Latest(d, known[n], x) => Latest(Tail(d), known'[n], x)
      BY <1>1, <1>4, <1>18, <2>2, TakePacket DEF d, msg
    <2>4. /\ ~link[p].downBye => /\ state[n] \in InRoom \/ Welcomes(d) => p \in Elements(members)
                                 /\ p \in Elements(members) => Latest(d, known[n], NicksOf(members))
      BY <1>3, <2>1 DEF Informed, d
    <2>5. members' = members /\ link'[p].downBye = link[p].downBye
      BY <1>3, <1>9 DEF roomVars, SameEnds
    <2>6. state'[n] \in InRoom \/ Welcomes(Tail(d)) => state[n] \in InRoom \/ Welcomes(d)
      BY <1>12, <1>18, <2>3
    <2>7. Informed(link'[p], p, known'[n], state'[n], members')
      BY <1>3, <1>10, <2>3, <2>4, <2>5, <2>6 DEF Informed
    <2> QED BY <1>3, <2>7 DEF PeerInv
  <1>20. ASSUME NEW q \in Peers, Nick(q) = n PROVE PeerInv(q)'
    <2>1. CASE q # p
      <3>1. link'[q].client # "up"
        BY <1>9, <1>20, <2>1, NotOpen DEF SameEnds
      <3> QED BY <3>1 DEF PeerInv, Informed
    <2> QED BY <1>19, <2>1
  <1>21. \A m \in Nicks : m # n => /\ state'[m] = state[m] /\ loop'[m] = loop[m]
                                   /\ known'[m] = known[m]
    BY <1>0, <1>8, <1>13 DEF TypeOK
  <1>22. \A q \in Peers : Nick(q) # n => SameEnds(link[q], link'[q]) /\ link'[q].down = link[q].down
    BY <1>3, <1>9
  <1> QED BY <1>14, <1>15, <1>16, <1>17, <1>20, <1>21, <1>22, PlayerKeeps

-----------------------------------------------------------------------------
(* The theorems *)

(* The room that its host has created and joined. *)
LEMMA InitIInv == Init => IInv
  <1> SUFFICES ASSUME Init PROVE IInv
    OBVIOUS
  <1> DEFINE h == <<Host, 1>>
             none == [p \in Peers |-> Free]
  <1>1. h \in Peers /\ Nick(h) = Host /\ Host \in Nicks
    BY RoomAssumption, LinksAssumption DEF Peers, Nick
  <1>2. /\ link = ConnectedLink(none, h) /\ isOpen = TRUE /\ members = <<h>>
        /\ banned \in SUBSET (Nicks \ {Host}) /\ MemberInit({Host})
    BY DEF Init, RoomInit
  <1>3. none \in [Peers -> Links] /\ \A p \in Peers : none[p] = Free
    BY FreeFacts
  <1> HIDE DEF h, none
  <1>4. /\ link \in [Peers -> Links]
        /\ \A q \in Peers : q # h => link[q] = Free
        /\ link[h].room = "up" /\ link[h].client = "up" /\ link[h].down = << >>
        /\ ~link[h].upBye /\ ~link[h].downBye
    BY <1>1, <1>2, <1>3, ConnectedLinkFacts
  <1>5. /\ members \in Seq(Peers) /\ Len(members) = 1 /\ members[1] = h
        /\ Elements(members) = {h} /\ Members = {h} /\ NicksOf(members) = {Host}
    BY <1>1, <1>2 DEF Elements, Members, NicksOf
  <1>6. TypeOK
    <2>1. /\ state \in [Nicks -> InRoom \cup {"Idle", "Joining"}]
          /\ user \in [Nicks -> {"free", "leaving", "rejoining"}]
          /\ loop \in [Nicks -> {"none", "running", "body", "ended"}]
      BY <1>2 DEF MemberInit, InRoom
    <2>2. known \in [Nicks -> SUBSET Nicks] /\ undone \in [Nicks -> BOOLEAN]
      BY <1>1, <1>2 DEF MemberInit
    <2>3. sendList \in [Nicks -> Seq(UpMessages)] /\ calls \in 0 .. MaxCalls
      <3>1. << >> \in Seq(UpMessages)
        OBVIOUS
      <3> QED BY <1>2, <3>1, MemberAssumption DEF MemberInit
    <2> QED BY <1>2, <1>4, <1>5, <2>1, <2>2, <2>3 DEF TypeOK
  <1>7. \A p \in Peers : LinkInv(link[p])
    BY <1>4, FreeFacts DEF LinkInv
  <1>8. RoomInv
    BY <1>1, <1>2, <1>4, <1>5, RoomAssumption DEF RoomInv, Connected
  <1>9. ASSUME NEW p \in Peers PROVE link[p].client = "up" <=> p = h
    BY <1>4, FreeFacts
  <1>10. ASSUME NEW n \in Nicks PROVE PlayerInv(n)
    <2>1. \A p \in Open(n) : p = h
      BY <1>9 DEF Open
    <2>2. CASE n = Host
      <3>1. h \in Open(n) /\ loop[n] = "running"
        BY <1>1, <1>2, <1>4, <2>2 DEF Open, MemberInit
      <3> QED BY <2>1, <3>1 DEF PlayerInv
    <2>3. CASE n # Host
      <3>1. Open(n) = {} /\ state[n] = "Idle"
        BY <1>1, <1>2, <2>1, <2>3 DEF Open, MemberInit
      <3> QED BY <3>1 DEF PlayerInv, InRoom
    <2> QED BY <2>2, <2>3
  <1>11. ASSUME NEW p \in Peers PROVE PeerInv(p)
    <2>1. CASE p # h
      BY <1>9, <2>1 DEF PeerInv, Informed
    <2>2. CASE p = h
      <3>1. known[Host] = {Host}
        BY <1>1, <1>2 DEF MemberInit
      <3>2. /\ Promises(link[h].down, Host, known[Host])
            /\ Latest(link[h].down, known[Host], NicksOf(members))
        BY <1>4, <1>5, <3>1, EmptyPromises
      <3> QED BY <1>1, <1>5, <2>2, <3>2 DEF PeerInv, Informed
    <2> QED BY <2>1, <2>2
  <1> QED BY <1>6, <1>7, <1>8, <1>10, <1>11 DEF IInv

(* Every step keeps the invariant. *)
LEMMA NextIInv == IInv /\ [Next]_vars => IInv'
  <1> SUFFICES ASSUME IInv, [Next]_vars PROVE IInv'
    OBVIOUS
  <1>1. ASSUME NEW n \in Nicks, UserStep(n) PROVE IInv'
    BY <1>1, UserSteps, ConnectStep DEF UserStep
  <1>2. ASSUME NEW n \in Nicks, LoopStep(n) PROVE IInv'
    BY <1>2, LoopExitsStep, LoopReceivesStep, LoopDisconnectedStep, LoopIdlesStep
    DEF LoopStep, MemberLoop
  <1>3. ASSUME NEW p \in Peers, RoomStep(p) PROVE IInv'
    BY <1>3, RoomStepHolds
  <1>4. ASSUME NEW p \in Peers, LinkBreaks(p) PROVE IInv'
    BY <1>4, BreaksStep
  <1>5. CASE RoomEndsStep
    BY <1>5, DestroyStep DEF RoomEndsStep
  <1>6. CASE UNCHANGED vars
    <2>1. UNCHANGED roomVars /\ UNCHANGED <<link, known, state, loop>> /\ TypeOK'
      BY <1>6 DEF vars, roomVars, memberVars, IInv, TypeOK
    <2> QED BY <2>1, LinkSame
  <1> QED BY <1>1, <1>2, <1>3, <1>4, <1>5, <1>6 DEF Next

(* IInv is an invariant of a room and its players. *)
THEOREM Invariant == Spec => []IInv
  BY InitIInv, NextIInv, PTL DEF Spec

(* The state of the room, of the players and of every connection keeps its  *)
(* type: only packets of the kinds that the handlers know are on their way. *)
THEOREM TypeCorrect == Spec => []TypeOK
  <1>1. IInv => TypeOK
    BY DEF IInv
  <1> QED BY <1>1, Invariant, PTL

(* The list of a room holds each player once, through a connection the room *)
(* still has, for any number of players and slots, however connections      *)
(* break and players come back.                                             *)
THEOREM MembersCorrect == Spec => []MembersExact
  <1>1. ASSUME IInv PROVE MembersExact
    <2>1. Cardinality(NicksOf(members)) = Len(members)
      <3> DEFINE q == [i \in 1 .. Len(members) |-> Nick(members[i])]
      <3>1. Roll(members) /\ Len(members) \in Nat /\ \A i \in 1 .. Len(members) : members[i] \in Peers
        BY <1>1, RoomStart DEF Roll
      <3>2. q \in Seq(Nicks) /\ Len(q) = Len(members) /\ \A i \in 1 .. Len(members) : q[i] = Nick(members[i])
        BY <3>1, PeerNick
      <3> HIDE DEF q
      <3>3. Elements(q) = NicksOf(members)
        BY <3>2 DEF Elements, NicksOf
      <3>4. Holds(q, Nicks, NicksOf(members))
        BY <3>1, <3>2, <3>3 DEF Holds, Roll
      <3> QED BY <3>2, <3>4, HoldsLength
    <2>2. ASSUME NEW p \in Members PROVE link[p].client = "none" => link[p].upBye
      <3>1. p \in Peers /\ link[p].room = "up"
        <4>1. Elements(members) \subseteq Peers
          BY <1>1, RoomStart DEF Roll, Elements
        <4> QED BY <1>1, <4>1, RoomStart
      <3> QED BY <1>1, <3>1 DEF IInv, LinkInv
    <2> QED BY <1>1, <2>1, <2>2 DEF IInv, RoomInv, MembersExact
  <1> QED BY <1>1, Invariant, PTL

(* When the answer that lets a player in is handled the player is on the    *)
(* list it has: the assertion of MemberLoop never fails.                    *)
THEOREM JoinAssertHolds == Spec => []JoinAssert
  <1>1. ASSUME IInv PROVE JoinAssert
    <2> SUFFICES ASSUME NEW n \in Nicks, NEW p \in Open(n), link[p].down # << >>,
                        Head(link[p].down).type \in {"JoinSuccess", "JoinSuccessAsMod"}
                 PROVE  n \in known[n]
      BY DEF JoinAssert
    <2>1. p \in Peers /\ Nick(p) = n /\ link[p].client = "up"
      BY DEF Open
    <2>2. link[p].down \in Seq(DownMessages) /\ Promises(link[p].down, n, known[n])
      BY <1>1, <2>1, RoomStart DEF Informed
    <2> QED BY <2>2, TakePacket DEF Success
  <1> QED BY <1>1, Invariant, PTL

(* A member whose connection holds has the room's list once it has handled  *)
(* what is on its way.                                                      *)
THEOREM ListsConverge == Spec => []ListConverges
  <1>1. ASSUME IInv PROVE ListConverges
    <2> SUFFICES ASSUME NEW p \in Members, link[p].client = "up", ~link[p].downBye
                 PROVE  LastKnown(p) = NicksOf(members)
      BY DEF ListConverges
    <2> DEFINE d == link[p].down
               infos == {i \in 1 .. Len(d) : d[i].type = "RoomInformation"}
               last == CHOOSE i \in infos : \A j \in infos : j <= i
    <2>1. p \in Peers /\ p \in Elements(members)
      <3>1. Elements(members) \subseteq Peers
        BY <1>1, RoomStart DEF Roll, Elements
      <3> QED BY <1>1, <3>1, RoomStart
    <2>2. Latest(d, known[Nick(p)], NicksOf(members))
      BY <1>1, <2>1, RoomStart DEF Informed
    <2>3. LastKnown(p) = IF infos = {} THEN known[Nick(p)] ELSE d[last].nicks
      BY DEF LastKnown
    <2> HIDE DEF d
    <2>4. CASE (\A i \in 1 .. Len(d) : d[i].type # "RoomInformation") /\ NicksOf(members) = known[Nick(p)]
      <3>1. infos = {}
        BY <2>4
      <3> QED BY <2>3, <2>4, <3>1
    <2>5. ASSUME NEW i \in 1 .. Len(d), d[i].type = "RoomInformation", NicksOf(members) = d[i].nicks,
                 \A j \in 1 .. Len(d) : d[j].type = "RoomInformation" => j <= i
          PROVE  LastKnown(p) = NicksOf(members)
      <3>1. i \in infos /\ \A j \in infos : j <= i
        BY <2>5
      <3>2. last \in infos /\ \A j \in infos : j <= last
        BY <3>1
      <3>3. last = i
        <4>1. last <= i /\ i <= last /\ last \in Int /\ i \in Int
          BY <3>1, <3>2
        <4> QED BY <4>1
      <3> QED BY <2>3, <2>5, <3>1, <3>3
    <2> QED BY <2>2, <2>4, <2>5 DEF Latest
  <1> QED BY <1>1, Invariant, PTL

(* A player that believes to be in the room is on its list, or word that it *)
(* is not is on its way.                                                    *)
THEOREM MembershipAgreed == Spec => []MembershipAgrees
  <1>1. ASSUME IInv PROVE MembershipAgrees
    <2> SUFFICES ASSUME NEW n \in Nicks, state[n] \in InRoom
                 PROVE  \E p \in Open(n) : p \in Members \/ link[p].downBye
      BY DEF MembershipAgrees
    <2>1. PICK p \in Open(n) : TRUE
      BY <1>1 DEF IInv, PlayerInv
    <2>2. p \in Peers /\ Nick(p) = n /\ link[p].client = "up"
      BY DEF Open
    <2>3. ~link[p].downBye => p \in Members
      BY <1>1, <2>2, RoomStart DEF Informed
    <2> QED BY <2>1, <2>3
  <1> QED BY <1>1, Invariant, PTL
=============================================================================
