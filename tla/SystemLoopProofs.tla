-------------------------- MODULE SystemLoopProofs --------------------------
(***************************************************************************)
(* Proofs about SystemLoop, for any number of cores and events, any length *)
(* of a slice, any overshoot and any delays: no core runs past an event of *)
(* its own, and no timer measures a slice while an event is overdue.  The  *)
(* strengthening says which core the loop has picked for a catch-up and    *)
(* that its slice, cut before the other cores advance, still is right when *)
(* it runs.                                                                *)
(***************************************************************************)
EXTENDS SystemLoop, QueueLemmas, FiniteSetTheorems

-----------------------------------------------------------------------------
(* The inductive invariant *)

(* No event of core c comes before the end of its slice. *)
SliceSafe(c) == \A e \in InQueue(c) : ev[e].due >= slice[c]

(* RunLoop picks a core that is behind, if there is one. *)
PickInv ==
    /\ chosen # 0 => chosen \in 1 .. core - 1 /\ SliceSafe(chosen)
    /\ (\E c \in 1 .. core - 1 : delay[c] > 0) => chosen # 0

LoopInv ==
    /\ ~failed
    /\ phase \in {"run", "run delayed"} => core \in Cores /\ SliceSafe(core)
    /\ phase \in {"catch up", "catch up advance"} => PickInv
    /\ phase \notin {"catch up", "catch up advance"} => chosen = 0
    /\ phase = "catch up advance" => core \in Cores /\ delay[core] > 0
    /\ phase = "sync advance" => core \in Cores
    /\ phase \in {"top", "stopped"} => core = 1

IInv == LoopTypeOK /\ LoopInv

-----------------------------------------------------------------------------
(* Least and greatest integers *)

(* The values of a function on a finite set are bounded from below. *)
LEMMA FiniteBounded ==
    ASSUME NEW S, IsFiniteSet(S), NEW f, \A x \in S : f[x] \in Int
    PROVE  \E b \in Int : \A x \in S : b <= f[x]
  <1> DEFINE F(n) == \A T \in SUBSET S : Cardinality(T) = n => \E b \in Int : \A x \in T : b <= f[x]
             I == {n \in Nat : F(n)}
  <1>1. 0 \in I
    <2>1. ASSUME NEW T \in SUBSET S, Cardinality(T) = 0
          PROVE  \E b \in Int : \A x \in T : b <= f[x]
      <3>1. IsFiniteSet(T)
        BY FS_Subset
      <3>2. T = {}
        BY <2>1, <3>1, FS_EmptySet
      <3> QED BY <3>2
    <2> QED BY <2>1
  <1>2. ASSUME NEW n \in Nat, n \in I PROVE n + 1 \in I
    <2>1. ASSUME NEW T \in SUBSET S, Cardinality(T) = n + 1
          PROVE  \E b \in Int : \A x \in T : b <= f[x]
      <3>1. IsFiniteSet(T)
        BY FS_Subset
      <3>2. T # {}
        BY <2>1, <3>1, FS_EmptySet
      <3>3. PICK x \in T : TRUE
        BY <3>2
      <3>4. Cardinality(T \ {x}) = Cardinality(T) - 1
        BY <3>1, <3>3, FS_RemoveElement
      <3>5. T \ {x} \in SUBSET S /\ Cardinality(T \ {x}) = n
        BY <2>1, <3>4
      <3>6. PICK b \in Int : \A y \in T \ {x} : b <= f[y]
        BY <1>2, <3>5
      <3>7. f[x] \in Int
        OBVIOUS
      <3> DEFINE c == IF b <= f[x] THEN b ELSE f[x]
      <3>8. c \in Int /\ c <= b /\ c <= f[x]
        BY <3>6, <3>7
      <3> HIDE DEF c
      <3>9. ASSUME NEW y \in T PROVE c <= f[y]
        <4>1. f[y] \in Int
          OBVIOUS
        <4>2. CASE y = x
          BY <3>8, <4>2
        <4>3. CASE y # x
          <5>1. b <= f[y]
            BY <3>6, <4>3
          <5> QED BY <3>6, <3>8, <4>1, <5>1
        <4> QED BY <4>2, <4>3
      <3> QED BY <3>8, <3>9
    <2> QED BY <2>1
  <1> HIDE DEF I
  <1>3. \A n \in Nat : n \in I
    BY <1>1, <1>2, SetInduction
  <1>4. Cardinality(S) \in Nat
    BY FS_CardinalityType
  <1>5. F(Cardinality(S))
    BY <1>3, <1>4 DEF I
  <1> QED BY <1>5

(* A bounded set of integers has a least element, and Min is it. *)
LEMMA MinFacts ==
    ASSUME NEW S, S \subseteq Int, S # {}, NEW b \in Int, \A y \in S : b <= y
    PROVE  Min(S) \in S /\ Min(S) \in Int /\ \A y \in S : Min(S) <= y
  <1> DEFINE T == {y - b : y \in S}
  <1>1. T \subseteq Nat
    <2>1. ASSUME NEW y \in S PROVE y - b \in Nat
      <3>1. y \in Int /\ b <= y
        OBVIOUS
      <3> QED BY <3>1
    <2> QED BY <2>1
  <1>2. T # {}
    OBVIOUS
  <1>3. PICK t \in T : \A u \in T : t <= u
    BY <1>1, <1>2, LeastNatural
  <1>4. PICK x \in S : t = x - b
    OBVIOUS
  <1>5. ASSUME NEW y \in S PROVE x <= y
    <2>1. x - b <= y - b
      BY <1>3, <1>4
    <2>2. x \in Int /\ y \in Int
      OBVIOUS
    <2> QED BY <2>1, <2>2
  <1>6. Min(S) \in S /\ \A y \in S : Min(S) <= y
    BY <1>5 DEF Min
  <1> QED BY <1>6

(* The same for a greatest element. *)
LEMMA MaxFacts ==
    ASSUME NEW S, S \subseteq Int, S # {}, NEW b \in Int, \A y \in S : y <= b
    PROVE  Max(S) \in S /\ Max(S) \in Int /\ \A y \in S : y <= Max(S)
  <1> DEFINE T == {b - y : y \in S}
  <1>1. T \subseteq Nat
    <2>1. ASSUME NEW y \in S PROVE b - y \in Nat
      <3>1. y \in Int /\ y <= b
        OBVIOUS
      <3> QED BY <3>1
    <2> QED BY <2>1
  <1>2. T # {}
    OBVIOUS
  <1>3. PICK t \in T : \A u \in T : t <= u
    BY <1>1, <1>2, LeastNatural
  <1>4. PICK x \in S : t = b - x
    OBVIOUS
  <1>5. ASSUME NEW y \in S PROVE y <= x /\ x >= y
    <2>1. b - x <= b - y
      BY <1>3, <1>4
    <2>2. x \in Int /\ y \in Int
      OBVIOUS
    <2> QED BY <2>1, <2>2
  <1>6. Max(S) \in S /\ \A y \in S : Max(S) >= y
    BY <1>5 DEF Max
  <1> QED BY <1>6

-----------------------------------------------------------------------------
(* Timers *)

EventType ==
    [in : {"none", "host", "ts_queue", "event_queue"}, core : Cores, due : Int, host : BOOLEAN]

LEMMA CoresFacts ==
    /\ NumCores \in Nat /\ NumCores >= 1 /\ Cores \subseteq Nat /\ 1 \in Cores /\ IsFiniteSet(Cores)
    /\ \A c \in Cores : c >= 1 /\ c <= NumCores
  BY TimingAssumption, FS_Interval DEF Cores

LEMMA IdsFinite == IsFiniteSet(Ids)
  BY TimingAssumption, FS_Union DEF Ids

LEMMA EventFields ==
    ASSUME TypeOK, NEW e \in Ids
    PROVE  /\ ev \in [Ids -> EventType] /\ ev[e] \in EventType
           /\ ev[e].in \in {"none", "host", "ts_queue", "event_queue"} /\ ev[e].core \in Cores
           /\ ev[e].due \in Int /\ ev[e].host \in BOOLEAN
  <1>1. ev \in [Ids -> EventType]
    BY DEF TypeOK, EventType
  <1>2. ev[e] \in EventType
    BY <1>1
  <1> QED BY <1>1, <1>2 DEF EventType

(* The places an event can be in. *)
LEMMA Places ==
    ASSUME NEW c \in Cores, NEW d \in Int
    PROVE  /\ Queued(c, d) \in EventType /\ Queued(c, d).in = "event_queue"
           /\ Queued(c, d).core = c /\ Queued(c, d).due = d /\ Queued(c, d).host = FALSE
           /\ \A h \in BOOLEAN : /\ InTsQueue(c, d, h) \in EventType
                                 /\ InTsQueue(c, d, h).in = "ts_queue"
           /\ OnHost(c, d) \in EventType /\ OnHost(c, d).in = "host"
           /\ OnHost(c, d).core = c /\ OnHost(c, d).host = FALSE
           /\ Nowhere \in EventType /\ Nowhere.in = "none" /\ Nowhere.host = FALSE
  BY CoresFacts DEF Queued, OnHost, InTsQueue, Nowhere, EventType

(* Max of two numbers is a number. *)
LEMMA MaxOfTwo ==
    ASSUME NEW x \in Int, NEW y \in Int
    PROVE  Max({x, y}) \in Int
  <1> DEFINE S == {x, y}
             b == IF x <= y THEN y ELSE x
  <1>1. S \subseteq Int /\ S # {} /\ b \in Int /\ \A z \in S : z <= b
    OBVIOUS
  <1> HIDE DEF S, b
  <1>2. Max(S) \in Int
    BY <1>1, MaxFacts
  <1> QED BY <1>2 DEF S

(* The times of the events are bounded. *)
LEMMA DueBounded ==
    ASSUME TypeOK
    PROVE  \E b \in Int : \A e \in Ids : b <= ev[e].due
  <1> DEFINE f == [e \in Ids |-> ev[e].due]
  <1>1. \A e \in Ids : f[e] \in Int
    BY EventFields
  <1>2. \E b \in Int : \A e \in Ids : b <= f[e]
    BY <1>1, IdsFinite, FiniteBounded
  <1> QED BY <1>2

(* SetNextSlice never passes an event. *)
LEMMA NextSliceFacts ==
    ASSUME TypeOK, NEW c \in Cores, NEW limit \in Int
    PROVE  /\ NextSlice(c, limit) \in Int
           /\ \A e \in InQueue(c) : ev[e].due >= NextSlice(c, limit)
  <1> DEFINE S == {limit} \cup {ev[e].due : e \in InQueue(c)}
  <1>1. \A e \in InQueue(c) : e \in Ids /\ ev[e].due \in Int
    BY EventFields DEF InQueue
  <1>2. S \subseteq Int /\ S # {}
    BY <1>1
  <1>3. PICK b \in Int : \A e \in Ids : b <= ev[e].due
    BY DueBounded
  <1> DEFINE a == IF b <= limit THEN b ELSE limit
  <1>4. a \in Int /\ \A y \in S : a <= y
    <2>1. a \in Int /\ a <= b /\ a <= limit
      OBVIOUS
    <2> HIDE DEF a
    <2>2. ASSUME NEW e \in InQueue(c) PROVE a <= ev[e].due
      <3>1. b <= ev[e].due /\ ev[e].due \in Int
        BY <1>1, <1>3
      <3> QED BY <2>1, <3>1
    <2> QED BY <2>1, <2>2
  <1>5. Min(S) \in Int /\ \A y \in S : Min(S) <= y
    <2> HIDE DEF S, a
    <2> QED BY <1>2, <1>4, MinFacts
  <1>6. NextSlice(c, limit) = Min(S)
    BY DEF NextSlice
  <1>7. ASSUME NEW e \in InQueue(c) PROVE ev[e].due >= Min(S)
    <2>1. ev[e].due \in S /\ ev[e].due \in Int
      BY <1>1
    <2>2. Min(S) <= ev[e].due
      BY <1>5, <2>1
    <2> QED BY <1>5, <2>1, <2>2
  <1> QED BY <1>5, <1>6, <1>7

(* GetMaxSliceLength is positive when nothing is due. *)
LEMMA MaxSliceLengthFacts ==
    ASSUME TypeOK, NEW c \in Cores, Due(c) = {}
    PROVE  MaxSliceLength(c) \in Int /\ MaxSliceLength(c) > 0
  <1>1. CASE InQueue(c) = {}
    BY <1>1, TimingAssumption DEF MaxSliceLength
  <1>2. CASE InQueue(c) # {}
    <2> DEFINE S == {ev[e].due : e \in InQueue(c)}
    <2>1. \A e \in InQueue(c) : ev[e].due \in Int /\ ev[e].due > 0
      BY EventFields DEF InQueue, Due
    <2>2. S \subseteq Int /\ S # {} /\ \A y \in S : 0 <= y /\ y > 0
      BY <1>2, <2>1
    <2>3. Min(S) \in S /\ Min(S) \in Int
      <3> HIDE DEF S
      <3>1. S \subseteq Int /\ S # {} /\ 0 \in Int /\ \A y \in S : 0 <= y
        BY <2>2
      <3> QED BY <3>1, MinFacts
    <2>4. MaxSliceLength(c) = Min(S)
      BY <1>2 DEF MaxSliceLength
    <2> HIDE DEF S
    <2> QED BY <2>2, <2>3, <2>4
  <1> QED BY <1>1, <1>2

(* No core is ahead of global_ticks. *)
LEMMA GlobalTicksFacts ==
    ASSUME TypeOK, NEW c \in Cores
    PROVE  GlobalTicks - Ticks(c) \in Nat
  <1> DEFINE f == [d \in Cores |-> 0 - Ticks(d)]
             S == {Ticks(d) : d \in Cores}
  <1>1. ASSUME NEW d \in Cores PROVE Ticks(d) \in Int
    <2>0. lead \in [Cores -> Nat] /\ slice \in [Cores -> Int] /\ down \in [Cores -> Int]
      BY DEF TypeOK
    <2>1. lead[d] \in Int /\ slice[d] \in Int /\ down[d] \in Int
      BY <2>0
    <2> QED BY <2>1 DEF Ticks, Elapsed
  <1>2. PICK b \in Int : \A d \in Cores : b <= f[d]
    <2>1. \A d \in Cores : f[d] \in Int
      BY <1>1
    <2> HIDE DEF f
    <2> QED BY <2>1, CoresFacts, FiniteBounded
  <1>3. ASSUME NEW d \in Cores PROVE Ticks(d) <= 0 - b
    <2>1. b <= 0 - Ticks(d)
      BY <1>2
    <2> QED BY <1>1, <2>1
  <1>4. S \subseteq Int /\ S # {} /\ 0 - b \in Int /\ \A y \in S : y <= 0 - b
    BY <1>1, <1>3
  <1>5. Max(S) \in Int /\ \A y \in S : y <= Max(S)
    <2> HIDE DEF S
    <2> QED BY <1>4, MaxFacts
  <1>6. GlobalTicks = Max(S)
    BY DEF GlobalTicks
  <1>7. Ticks(c) \in S
    OBVIOUS
  <1> HIDE DEF S
  <1> QED BY <1>1, <1>5, <1>6, <1>7

-----------------------------------------------------------------------------
(* What the steps of a pass do to the events and the slices *)

(* The types of the timers. *)
LEMMA TimerTypes ==
    ASSUME TypeOK
    PROVE  /\ ev \in [Ids -> EventType] /\ slice \in [Cores -> Int] /\ down \in [Cores -> Int]
           /\ sane \in [Cores -> BOOLEAN] /\ lead \in [Cores -> Nat]
           /\ \A e \in Ids : ev[e].host => ev[e].in = "ts_queue"
           /\ delay \in [Cores -> Nat] /\ chosen \in 0 .. NumCores /\ core \in 1 .. NumCores + 1
           /\ max_slice \in Int /\ fired \in SUBSET Ids /\ failed \in BOOLEAN
           /\ phase \in {"top", "catch up", "catch up advance", "run delayed",
                         "sync", "sync advance", "slice", "run", "stopped"}
  BY DEF TypeOK, EventType

(* The types of the next state, from those of its parts. *)
TimersOK ==
    /\ ev \in [Ids -> EventType] /\ \A e \in Ids : ev[e].host => ev[e].in = "ts_queue"
    /\ slice \in [Cores -> Int] /\ down \in [Cores -> Int]
    /\ sane \in [Cores -> BOOLEAN] /\ lead \in [Cores -> Nat]

LoopVarsOK ==
    /\ phase \in {"top", "catch up", "catch up advance", "run delayed",
                  "sync", "sync advance", "slice", "run", "stopped"}
    /\ core \in 1 .. NumCores + 1
    /\ max_slice \in Int /\ delay \in [Cores -> Nat] /\ chosen \in 0 .. NumCores
    /\ fired \in SUBSET Ids /\ failed \in BOOLEAN

LEMMA TypeParts == TypeOK <=> TimersOK /\ LoopVarsOK
  BY DEF TypeOK, TimersOK, LoopVarsOK, EventType

(* A core whose events and slice a step leaves alone keeps its slice safe.  *)
LEMMA SliceSafeSame ==
    ASSUME NEW c, SliceSafe(c), slice'[c] = slice[c],
           \A e \in Ids : e \in InQueue(c)' => e \in InQueue(c) /\ ev'[e].due = ev[e].due
    PROVE  SliceSafe(c)'
  BY DEF SliceSafe, InQueue

(* An event of one core is no event of another. *)
LEMMA OtherQueue ==
    ASSUME NEW c, NEW d, c # d, \A e \in Ids : ev[e].core # c \/ ev[e].in = "none" => ev'[e] = ev[e],
           \A e \in Ids : ev[e].core = c => ev'[e].core = c \/ ev'[e].in = "none"
    PROVE  \A e \in Ids : e \in InQueue(d)' => e \in InQueue(d) /\ ev'[e].due = ev[e].due
  BY DEF InQueue

(* Timer::Advance up to its loop. *)
LEMMA BeginAdvanceFacts ==
    ASSUME TypeOK, NEW c \in Cores, BeginAdvance(c)
    PROVE  /\ TimersOK'
           /\ \A d \in Cores : d # c => slice'[d] = slice[d]
           /\ \A d : d # c =>
                \A e \in Ids : e \in InQueue(d)' => e \in InQueue(d) /\ ev'[e].due = ev[e].due
  <1>0. /\ ev \in [Ids -> EventType] /\ slice \in [Cores -> Int] /\ down \in [Cores -> Int]
        /\ sane \in [Cores -> BOOLEAN] /\ lead \in [Cores -> Nat]
        /\ \A e \in Ids : ev[e].host => ev[e].in = "ts_queue"
    BY TimerTypes
  <1>1. /\ ev' = [e \in Ids |->
                    IF ~Pending(e) \/ ev[e].core # c THEN ev[e]
                    ELSE IF ev[e].in = "host"
                    THEN OnHost(c, Max({ev[e].due - Cycles(c), 0}))
                    ELSE Queued(c, ev[e].due - Cycles(c))]
        /\ lead' = [d \in Cores |-> NewTicks(c, d) - LeastTicks(c)]
        /\ slice' = [slice EXCEPT ![c] = 0]
        /\ down' = [down EXCEPT ![c] = 0]
        /\ sane' = [sane EXCEPT ![c] = TRUE]
    BY DEF BeginAdvance
  <1>2. Cycles(c) \in Int
    BY <1>0 DEF Cycles
  <1>3. ASSUME NEW e \in Ids
        PROVE  /\ ev'[e] \in EventType /\ (ev'[e].host => ev'[e].in = "ts_queue")
               /\ ev[e].core # c \/ ev[e].in = "none" => ev'[e] = ev[e]
               /\ ev[e].core = c => ev'[e].core = c
    <2> DEFINE t == ev[e].due - Cycles(c)
    <2>1. ev[e] \in EventType /\ t \in Int
      BY <1>2, EventFields
    <2>2. CASE Pending(e) /\ ev[e].core = c /\ ev[e].in # "host"
      <3>1. ev'[e] = Queued(c, t)
        BY <1>1, <2>2
      <3> HIDE DEF t
      <3>2. /\ Queued(c, t) \in EventType /\ Queued(c, t).in = "event_queue"
            /\ Queued(c, t).core = c /\ Queued(c, t).host = FALSE
        BY <2>1 DEF Queued, EventType
      <3> QED BY <2>2, <3>1, <3>2 DEF Pending
    <2>3. CASE ~(Pending(e) /\ ev[e].core = c)
      <3>1. ev'[e] = ev[e]
        BY <1>1, <2>3
      <3> QED BY <1>0, <2>1, <2>3, <3>1
    <2>4. CASE Pending(e) /\ ev[e].core = c /\ ev[e].in = "host"
      <3> DEFINE u == Max({t, 0})
      <3>1. ev'[e] = OnHost(c, u)
        BY <1>1, <2>4
      <3>2. u \in Int
        <4> HIDE DEF t
        <4> QED BY <2>1, MaxOfTwo
      <3> HIDE DEF u
      <3>3. /\ OnHost(c, u) \in EventType /\ OnHost(c, u).in = "host"
            /\ OnHost(c, u).core = c /\ OnHost(c, u).host = FALSE
        BY <3>2 DEF OnHost, EventType
      <3> QED BY <2>4, <3>1, <3>3
    <2> QED BY <2>2, <2>3, <2>4
  <1>4. ev' \in [Ids -> EventType]
    BY <1>1, <1>3
  <1>5. lead' \in [Cores -> Nat]
    <2> DEFINE f == [d \in Cores |-> NewTicks(c, d)]
               S == {NewTicks(c, d) : d \in Cores}
    <2>1. ASSUME NEW d \in Cores PROVE NewTicks(c, d) \in Int
      BY <1>0, <1>2 DEF NewTicks
    <2>2. \A d \in Cores : f[d] \in Int
      BY <2>1
    <2>3. PICK b \in Int : \A d \in Cores : b <= f[d]
      <3> HIDE DEF f
      <3> QED BY <2>2, CoresFacts, FiniteBounded
    <2>4. S \subseteq Int /\ S # {} /\ \A y \in S : b <= y
      BY <2>1, <2>3, CoresFacts
    <2>5. LeastTicks(c) \in Int /\ \A y \in S : LeastTicks(c) <= y
      <3>1. LeastTicks(c) = Min(S)
        BY DEF LeastTicks
      <3> HIDE DEF S
      <3> QED BY <2>4, <3>1, MinFacts
    <2>6. ASSUME NEW d \in Cores PROVE NewTicks(c, d) - LeastTicks(c) \in Nat
      <3>1. NewTicks(c, d) \in S /\ NewTicks(c, d) \in Int
        BY <2>1
      <3>2. LeastTicks(c) <= NewTicks(c, d)
        BY <2>5, <3>1
      <3> QED BY <2>5, <3>1, <3>2
    <2> QED BY <1>1, <2>6
  <1>6. TimersOK'
    <2>1. /\ slice' \in [Cores -> Int] /\ down' \in [Cores -> Int]
          /\ sane' \in [Cores -> BOOLEAN]
      BY <1>0, <1>1
    <2> QED BY <1>3, <1>4, <1>5, <2>1 DEF TimersOK
  <1>7. \A d \in Cores : d # c => slice'[d] = slice[d]
    BY <1>0, <1>1
  <1>8. ASSUME NEW d, d # c
        PROVE  \A e \in Ids : e \in InQueue(d)' => e \in InQueue(d) /\ ev'[e].due = ev[e].due
    BY <1>3, <1>8, OtherQueue
  <1> QED BY <1>6, <1>7, <1>8

(* SetNextSlice. *)
LEMMA SetNextSliceFacts ==
    ASSUME TypeOK, NEW c \in Cores, NEW limit \in Int, SetNextSlice(c, limit), ev' = ev
    PROVE  /\ slice' \in [Cores -> Int] /\ down' \in [Cores -> Int]
           /\ \A d \in Cores : d # c => slice'[d] = slice[d]
           /\ SliceSafe(c)'
  <1>1. /\ NextSlice(c, limit) \in Int
        /\ \A e \in InQueue(c) : ev[e].due >= NextSlice(c, limit)
    BY NextSliceFacts
  <1>2. /\ slice' = [slice EXCEPT ![c] = NextSlice(c, limit)]
        /\ down' = [down EXCEPT ![c] = NextSlice(c, limit)]
        /\ slice \in [Cores -> Int] /\ down \in [Cores -> Int]
    BY TimerTypes DEF SetNextSlice
  <1>3. SliceSafe(c)'
    BY <1>1, <1>2 DEF SliceSafe, InQueue
  <1> QED BY <1>1, <1>2, <1>3

-----------------------------------------------------------------------------
(* Each step of a pass preserves the invariant *)

LEMMA NextTypeParts == TimersOK' /\ LoopVarsOK' => TypeOK'
  BY DEF TypeOK, TimersOK, LoopVarsOK, EventType

(* The core that is picked, and the core that runs, by their numbers. *)
LEMMA PickedSafe ==
    ASSUME NEW d, SliceSafe(d)'
    PROVE  /\ chosen' = d => SliceSafe(chosen)'
           /\ core' = d => SliceSafe(core)'
  BY DEF SliceSafe, InQueue

LEMMA PickedWasSafe ==
    ASSUME NEW d
    PROVE  /\ chosen = d /\ SliceSafe(chosen) => SliceSafe(d)
           /\ core = d /\ SliceSafe(core) => SliceSafe(d)
  BY DEF SliceSafe, InQueue

(* A step that leaves the timers alone. *)
LEMMA TimersSame ==
    ASSUME TypeOK, UNCHANGED timerVars
    PROVE  TimersOK' /\ \A c : SliceSafe(c) => SliceSafe(c)'
  <1>1. TimersOK
    BY TypeParts
  <1>2. TimersOK'
    BY <1>1 DEF TimersOK, timerVars
  <1>3. ev' = ev /\ slice' = slice
    BY DEF timerVars
  <1>4. \A c : SliceSafe(c) => SliceSafe(c)'
    BY <1>3 DEF SliceSafe, InQueue
  <1> QED BY <1>2, <1>4

(* What the invariant says of the numbers of cores. *)
LEMMA Numbers ==
    ASSUME TypeOK
    PROVE  /\ core \in Nat /\ core >= 1 /\ core <= NumCores + 1
           /\ chosen \in Nat /\ chosen <= NumCores /\ NumCores \in Nat /\ NumCores >= 1
           /\ core \in Cores <=> core <= NumCores
           /\ \A c : c \in Cores => delay[c] \in Nat /\ slice[c] \in Int /\ down[c] \in Int
  <1>1. /\ core \in 1 .. NumCores + 1 /\ chosen \in 0 .. NumCores
        /\ delay \in [Cores -> Nat] /\ slice \in [Cores -> Int] /\ down \in [Cores -> Int]
    BY DEF TypeOK
  <1>2. NumCores \in Nat /\ NumCores >= 1
    BY CoresFacts
  <1> QED BY <1>1, <1>2 DEF Cores

(* The cores before the one RunLoop works on. *)
LEMMA Before ==
    ASSUME TypeOK, NEW c \in 1 .. core - 1
    PROVE  c \in Cores /\ c # core /\ c \in 1 .. core + 1 - 1
  BY Numbers DEF Cores

(* The core after it. *)
LEMMA After ==
    ASSUME TypeOK, core \in Cores, NEW n, n = core + 1
    PROVE  /\ n \in 1 .. NumCores + 1 /\ core \in 1 .. n - 1
           /\ \A c : c \in 1 .. core - 1 => c \in 1 .. n - 1
           /\ \A c : c \in 1 .. n - 1 /\ c # core => c \in 1 .. core - 1
  <1>1. core \in Nat /\ core >= 1 /\ core <= NumCores /\ NumCores \in Nat
    BY Numbers
  <1> QED BY <1>1

LEMMA CatchUpStep ==
    ASSUME TypeOK, LoopInv, CatchUp, fired' = {}
    PROVE  TypeOK' /\ LoopInv'
  <1>0. /\ phase = "catch up" /\ core \in Cores /\ ~failed /\ PickInv
        /\ UNCHANGED <<max_slice, chosen, delay, failed>>
    BY DEF CatchUp, LoopInv
  <1>1. LoopVarsOK
    BY TypeParts
  <1> PICK x : x = chosen
    OBVIOUS
  <1>2. CASE delay[core] > 0
    <2>1. BeginAdvance(core) /\ phase' = "catch up advance" /\ core' = core
      BY <1>2 DEF CatchUp
    <2>2. PICK y : y = core
      OBVIOUS
    <2>3. /\ TimersOK' /\ \A d \in Cores : d # y => slice'[d] = slice[d]
          /\ \A d : d # y =>
               \A e \in Ids : e \in InQueue(d)' => e \in InQueue(d) /\ ev'[e].due = ev[e].due
      <3>1. y \in Cores /\ BeginAdvance(y)
        BY <1>0, <2>1, <2>2
      <3> QED BY <3>1, BeginAdvanceFacts
    <2>4. LoopVarsOK'
      BY <1>0, <1>1, <2>1 DEF LoopVarsOK
    <2>5. ASSUME x # 0 PROVE x \in 1 .. core - 1 /\ SliceSafe(x)'
      <3>1. x \in 1 .. core - 1 /\ SliceSafe(x)
        BY <1>0, <2>5, PickedWasSafe DEF PickInv
      <3>2. x \in Cores /\ x # y
        BY <2>2, <3>1, Before
      <3>3. slice'[x] = slice[x]
        BY <2>3, <3>2
      <3>4. \A e \in Ids : e \in InQueue(x)' => e \in InQueue(x) /\ ev'[e].due = ev[e].due
        BY <2>3, <3>2
      <3> QED BY <3>1, <3>3, <3>4, SliceSafeSame
    <2>6. PickInv'
      <3>1. ASSUME x # 0 PROVE chosen' \in 1 .. core' - 1 /\ SliceSafe(chosen)'
        BY <1>0, <2>1, <2>5, <3>1, PickedSafe
      <3>2. (\E c \in 1 .. core' - 1 : delay'[c] > 0) => chosen # 0
        BY <1>0, <2>1 DEF PickInv
      <3> QED BY <1>0, <3>1, <3>2 DEF PickInv
    <2>7. LoopInv'
      BY <1>0, <1>2, <2>1, <2>6 DEF LoopInv
    <2> QED BY <2>3, <2>4, <2>7, NextTypeParts
  <1>3. CASE ~(delay[core] > 0)
    <2>1. phase' = phase /\ UNCHANGED timerVars /\ core' = core + 1
      BY <1>3 DEF CatchUp
    <2>2. TimersOK' /\ \A c : SliceSafe(c) => SliceSafe(c)'
      BY <2>1, TimersSame
    <2> PICK n : n = core'
      OBVIOUS
    <2>3. /\ n \in 1 .. NumCores + 1 /\ \A c : c \in 1 .. core - 1 => c \in 1 .. n - 1
          /\ \A c : c \in 1 .. n - 1 /\ c # core => c \in 1 .. core - 1
      BY <1>0, <2>1, After
    <2>4. LoopVarsOK'
      BY <1>0, <1>1, <2>1, <2>3 DEF LoopVarsOK
    <2>5. PickInv'
      <3>1. ASSUME x # 0 PROVE chosen' \in 1 .. core' - 1 /\ SliceSafe(chosen)'
        <4>1. x \in 1 .. core - 1 /\ SliceSafe(x)
          BY <1>0, <3>1, PickedWasSafe DEF PickInv
        <4>2. SliceSafe(x)'
          BY <2>2, <4>1
        <4>3. x \in 1 .. core' - 1
          BY <2>3, <4>1
        <4> QED BY <1>0, <4>2, <4>3, PickedSafe
      <3>2. ASSUME NEW c \in 1 .. core' - 1, delay[c] > 0 PROVE chosen # 0
        <4>1. c # core
          BY <1>3, <3>2
        <4>2. c \in 1 .. core - 1
          BY <2>3, <4>1
        <4> QED BY <1>0, <3>2, <4>2 DEF PickInv
      <3> QED BY <1>0, <3>1, <3>2 DEF PickInv
    <2>6. LoopInv'
      BY <1>0, <2>1, <2>5 DEF LoopInv
    <2> QED BY <2>2, <2>4, <2>6, NextTypeParts
  <1> QED BY <1>2, <1>3

LEMMA CaughtUpStep ==
    ASSUME TypeOK, LoopInv, CaughtUp, fired' = {}
    PROVE  TypeOK' /\ LoopInv'
  <1>0. /\ core \in Cores /\ ~failed /\ PickInv /\ delay[core] > 0
        /\ UNCHANGED <<ev, lead, max_slice, delay, failed>>
        /\ sane' = [sane EXCEPT ![core] = FALSE] /\ SetNextSlice(core, delay[core])
        /\ phase' = "catch up" /\ core' = core + 1
    BY DEF CaughtUp, LoopInv
  <1>1. LoopVarsOK /\ TimersOK
    BY TypeParts
  <1> PICK x : x = chosen
    OBVIOUS
  <1> PICK y : y = core
    OBVIOUS
  <1>2. /\ slice' \in [Cores -> Int] /\ down' \in [Cores -> Int]
        /\ \A d \in Cores : d # y => slice'[d] = slice[d]
        /\ SliceSafe(y)'
    <2>1. PICK z : z = delay[core]
      OBVIOUS
    <2>2. z \in Int
      <3>1. delay[core] \in Nat
        BY <1>0, Numbers
      <3> QED BY <2>1, <3>1
    <2>3. y \in Cores /\ SetNextSlice(y, z) /\ ev' = ev
      BY <1>0, <2>1
    <2> QED BY <2>2, <2>3, SetNextSliceFacts
  <1>3. TimersOK'
    BY <1>0, <1>1, <1>2 DEF TimersOK
  <1>4. chosen' = IF \A c \in 1 .. core - 1 : delay[c] < delay[core] THEN core ELSE chosen
    BY DEF CaughtUp
  <1> PICK n : n = core'
    OBVIOUS
  <1>5. /\ n \in 1 .. NumCores + 1 /\ core \in 1 .. n - 1
        /\ \A c : c \in 1 .. core - 1 => c \in 1 .. n - 1
    BY <1>0, After
  <1>6. chosen' \in 1 .. core' - 1 /\ chosen' \in Cores /\ SliceSafe(chosen)'
    <2>1. CASE \A c \in 1 .. core - 1 : delay[c] < delay[core]
      <3>1. chosen' = y
        BY <1>4, <2>1
      <3> QED BY <1>0, <1>2, <1>5, <3>1, PickedSafe
    <2>2. CASE ~ \A c \in 1 .. core - 1 : delay[c] < delay[core]
      <3>1. chosen' = x
        BY <1>4, <2>2
      <3>2. PICK c \in 1 .. core - 1 : ~(delay[c] < delay[core])
        BY <2>2
      <3>3. c \in Cores
        BY <3>2, Before
      <3>4. delay[c] > 0
        <4>1. delay[c] \in Nat /\ delay[core] \in Nat
          BY <1>0, <3>3, Numbers
        <4>2. delay[core] > 0
          BY <1>0
        <4> QED BY <3>2, <4>1, <4>2
      <3>5. chosen # 0
        BY <1>0, <3>2, <3>4 DEF PickInv
      <3>6. x \in 1 .. core - 1 /\ SliceSafe(x)
        BY <1>0, <3>5, PickedWasSafe DEF PickInv
      <3>7. x \in Cores /\ x # y /\ x \in 1 .. core' - 1
        BY <1>5, <3>6, Before
      <3>8. SliceSafe(x)'
        BY <1>0, <1>2, <3>6, <3>7 DEF SliceSafe, InQueue
      <3> QED BY <3>1, <3>7, <3>8, PickedSafe
    <2> QED BY <2>1, <2>2
  <1>7. chosen' # 0 /\ chosen' \in 0 .. NumCores
    BY <1>6, CoresFacts
  <1>8. LoopVarsOK'
    BY <1>0, <1>1, <1>5, <1>7 DEF LoopVarsOK
  <1>9. LoopInv'
    BY <1>0, <1>6, <1>7 DEF LoopInv, PickInv
  <1> QED BY <1>3, <1>8, <1>9, NextTypeParts

LEMMA DecideStep ==
    ASSUME TypeOK, LoopInv, Decide, fired' = {}
    PROVE  TypeOK' /\ LoopInv'
  <1>0. /\ phase = "catch up" /\ core = NumCores + 1 /\ ~failed /\ PickInv
        /\ delay' = NoDelay /\ chosen' = 0 /\ UNCHANGED timerVars /\ failed' = failed
    BY DEF Decide, LoopInv
  <1>1. TimersOK' /\ \A c : SliceSafe(c) => SliceSafe(c)'
    BY <1>0, TimersSame
  <1>2. LoopVarsOK
    BY TypeParts
  <1>3. MinDelay \in Nat /\ MaxSlice \in Int /\ NoDelay \in [Cores -> Nat]
    BY TimingAssumption DEF NoDelay
  <1>4. 0 \in 0 .. NumCores /\ 1 \in 1 .. NumCores + 1 /\ core - 1 = NumCores
    <2>1. core = NumCores + 1 /\ NumCores \in Nat
      BY <1>0, CoresFacts
    <2> QED BY <2>1
  <1>5. CASE \E c \in Cores : delay[c] > MinDelay
    <2> PICK x : x = chosen
      OBVIOUS
    <2>1. phase' = "run delayed" /\ core' = x /\ max_slice' = max_slice
      BY <1>5 DEF Decide
    <2>2. PICK c \in Cores : delay[c] > MinDelay
      BY <1>5
    <2>3. delay[c] > 0 /\ c \in 1 .. core - 1
      <3>1. delay[c] \in Nat
        BY Numbers
      <3> QED BY <1>3, <1>4, <2>2, <3>1 DEF Cores
    <2>4. x \in 1 .. core - 1 /\ SliceSafe(x)
      BY <1>0, <2>3, PickedWasSafe DEF PickInv
    <2>5. x \in Cores /\ x \in 1 .. NumCores + 1
      BY <1>4, <2>4, CoresFacts DEF Cores
    <2>6. SliceSafe(core)'
      BY <1>1, <2>1, <2>4, PickedSafe
    <2>7. LoopVarsOK'
      BY <1>0, <1>2, <1>3, <1>4, <2>1, <2>5 DEF LoopVarsOK
    <2>8. LoopInv'
      BY <1>0, <2>1, <2>5, <2>6 DEF LoopInv
    <2> QED BY <1>1, <2>7, <2>8, NextTypeParts
  <1>6. CASE ~ \E c \in Cores : delay[c] > MinDelay
    <2>1. phase' = "sync" /\ core' = 1 /\ max_slice' = MaxSlice
      BY <1>6 DEF Decide
    <2>2. LoopVarsOK'
      BY <1>0, <1>2, <1>3, <1>4, <2>1 DEF LoopVarsOK
    <2>3. LoopInv'
      BY <1>0, <2>1 DEF LoopInv
    <2> QED BY <1>1, <2>2, <2>3, NextTypeParts
  <1> QED BY <1>5, <1>6

LEMMA SyncStep ==
    ASSUME TypeOK, LoopInv, Sync, fired' = {}
    PROVE  TypeOK' /\ LoopInv'
  <1>0. /\ phase = "sync" /\ ~failed /\ chosen = 0 /\ UNCHANGED <<max_slice, chosen, delay, failed>>
    BY DEF Sync, LoopInv
  <1>1. LoopVarsOK
    BY TypeParts
  <1>2. CASE core \in Cores
    <2> PICK y : y = core
      OBVIOUS
    <2>1. BeginAdvance(y) /\ y \in Cores /\ phase' = "sync advance" /\ core' = core
      BY <1>2 DEF Sync
    <2>2. TimersOK'
      BY <2>1, BeginAdvanceFacts
    <2>3. LoopVarsOK'
      BY <1>0, <1>1, <2>1 DEF LoopVarsOK
    <2>4. LoopInv'
      BY <1>0, <1>2, <2>1 DEF LoopInv
    <2> QED BY <2>2, <2>3, <2>4, NextTypeParts
  <1>3. CASE core \notin Cores
    <2>1. phase' = "slice" /\ core' = 1 /\ UNCHANGED timerVars
      BY <1>3 DEF Sync
    <2>2. TimersOK'
      BY <2>1, TimersSame
    <2>3. 1 \in 1 .. NumCores + 1
      BY CoresFacts
    <2>4. LoopVarsOK'
      BY <1>0, <1>1, <2>1, <2>3 DEF LoopVarsOK
    <2>5. LoopInv'
      BY <1>0, <2>1 DEF LoopInv
    <2> QED BY <2>2, <2>4, <2>5, NextTypeParts
  <1> QED BY <1>2, <1>3

(* The ASSERT of GetMaxSliceLength. *)
LEMMA SyncedStep ==
    ASSUME TypeOK, LoopInv, Synced, fired' = {}
    PROVE  TypeOK' /\ LoopInv'
  <1>0. /\ phase = "sync advance" /\ ~failed /\ chosen = 0 /\ core \in Cores /\ Due(core) = {}
        /\ sane' = [sane EXCEPT ![core] = FALSE]
        /\ failed' = (failed \/ MaxSliceLength(core) <= 0)
        /\ max_slice' = Min({max_slice, MaxSliceLength(core)})
        /\ phase' = "sync" /\ core' = core + 1
        /\ UNCHANGED <<ev, slice, down, lead, chosen, delay>>
    BY DEF Synced, LoopInv
  <1>1. TimersOK /\ LoopVarsOK
    BY TypeParts
  <1> PICK m : m = MaxSliceLength(core)
    OBVIOUS
  <1>2. m \in Int /\ m > 0
    <2> PICK y : y = core
      OBVIOUS
    <2>1. y \in Cores /\ Due(y) = {} /\ m = MaxSliceLength(y)
      BY <1>0
    <2> QED BY <2>1, MaxSliceLengthFacts
  <1>3. failed' = FALSE
    <2>1. failed' = (failed \/ m <= 0) /\ ~failed
      BY <1>0
    <2>2. ~(m <= 0)
      BY <1>2
    <2> QED BY <2>1, <2>2
  <1>4. max_slice' \in Int
    <2> DEFINE S == {max_slice, m}
               b == IF max_slice <= m THEN max_slice ELSE m
    <2>1. max_slice \in Int
      BY <1>1 DEF LoopVarsOK
    <2>2. S \subseteq Int /\ S # {} /\ b \in Int /\ \A y \in S : b <= y
      BY <1>2, <2>1
    <2>3. max_slice' = Min(S)
      BY <1>0
    <2> HIDE DEF S, b
    <2> QED BY <2>2, <2>3, MinFacts
  <1>5. core' \in 1 .. NumCores + 1
    <2> PICK n : n = core'
      OBVIOUS
    <2> QED BY <1>0, After
  <1>6. TimersOK'
    BY <1>0, <1>1 DEF TimersOK
  <1>7. LoopVarsOK'
    BY <1>0, <1>1, <1>3, <1>4, <1>5 DEF LoopVarsOK
  <1>8. LoopInv'
    BY <1>0, <1>3 DEF LoopInv
  <1> QED BY <1>6, <1>7, <1>8, NextTypeParts

LEMMA SliceStep ==
    ASSUME TypeOK, LoopInv, Slice, fired' = {}
    PROVE  TypeOK' /\ LoopInv'
  <1>0. /\ phase = "slice" /\ ~failed /\ chosen = 0 /\ core \in Cores
        /\ SetNextSlice(core, max_slice) /\ phase' = "run"
        /\ UNCHANGED <<ev, sane, lead, core, max_slice, chosen, delay, failed>>
    BY DEF Slice, LoopInv
  <1>1. TimersOK /\ LoopVarsOK
    BY TypeParts
  <1> PICK y : y = core
    OBVIOUS
  <1>2. slice' \in [Cores -> Int] /\ down' \in [Cores -> Int] /\ SliceSafe(y)'
    <2> PICK z : z = max_slice
      OBVIOUS
    <2>1. y \in Cores /\ z \in Int /\ SetNextSlice(y, z) /\ ev' = ev
      BY <1>0, <1>1 DEF LoopVarsOK
    <2> QED BY <2>1, SetNextSliceFacts
  <1>3. SliceSafe(core)' /\ core' \in Cores
    BY <1>0, <1>2, PickedSafe
  <1>4. TimersOK'
    BY <1>0, <1>1, <1>2 DEF TimersOK
  <1>5. LoopVarsOK'
    BY <1>0, <1>1 DEF LoopVarsOK
  <1>6. LoopInv'
    BY <1>0, <1>3 DEF LoopInv
  <1> QED BY <1>4, <1>5, <1>6, NextTypeParts

LEMMA LoopEndsStep ==
    ASSUME TypeOK, LoopInv, LoopEnds, fired' = {}
    PROVE  TypeOK' /\ LoopInv'
  <1>0. /\ phase = "slice" /\ ~failed /\ chosen = 0 /\ phase' = "top" /\ core' = 1 /\ max_slice' = 0
        /\ UNCHANGED timerVars /\ UNCHANGED <<chosen, delay, failed>>
    BY DEF LoopEnds, LoopInv
  <1>1. LoopVarsOK
    BY TypeParts
  <1>2. 1 \in 1 .. NumCores + 1
    BY CoresFacts
  <1>3. LoopVarsOK'
    BY <1>0, <1>1, <1>2 DEF LoopVarsOK
  <1>4. LoopInv'
    BY <1>0 DEF LoopInv
  <1> QED BY <1>0, <1>3, <1>4, TimersSame, NextTypeParts

LEMMA ExecuteStep ==
    ASSUME TypeOK, LoopInv, Execute, fired' = {}
    PROVE  TypeOK' /\ LoopInv'
  <1>0. /\ phase \in {"run", "run delayed"} /\ ~failed /\ chosen = 0 /\ core \in Cores
        /\ SliceSafe(core)
        /\ UNCHANGED <<ev, slice, sane, lead, failed>> /\ UNCHANGED loopVars
    BY DEF Execute, Running, LoopInv
  <1>1. TimersOK /\ LoopVarsOK
    BY TypeParts
  <1>2. PICK k \in 1 .. down[core] + Overshoot : down' = [down EXCEPT ![core] = @ - k]
    BY DEF Execute
  <1>3. down' \in [Cores -> Int]
    <2>1. down \in [Cores -> Int]
      BY <1>1 DEF TimersOK
    <2>2. down[core] - k \in Int
      <3>1. down[core] \in Int
        BY <1>0, <2>1
      <3>2. k \in Int
        BY <1>2, <3>1, TimingAssumption
      <3> QED BY <3>1, <3>2
    <2> QED BY <1>0, <1>2, <2>1, <2>2
  <1>4. TimersOK'
    BY <1>0, <1>1, <1>3 DEF TimersOK
  <1>5. LoopVarsOK'
    BY <1>0, <1>1 DEF LoopVarsOK, loopVars
  <1>6. SliceSafe(core)'
    BY <1>0 DEF SliceSafe, InQueue, loopVars
  <1>7. LoopInv'
    BY <1>0, <1>6 DEF LoopInv, loopVars
  <1> QED BY <1>4, <1>5, <1>7, NextTypeParts

LEMMA RunEndsStep ==
    ASSUME TypeOK, LoopInv, RunEnds, fired' = {}
    PROVE  TypeOK' /\ LoopInv'
  <1>0. /\ phase \in {"run", "run delayed"} /\ ~failed /\ chosen = 0 /\ core \in Cores
        /\ UNCHANGED timerVars /\ UNCHANGED <<chosen, delay, failed>>
    BY DEF RunEnds, LoopInv
  <1>1. LoopVarsOK
    BY TypeParts
  <1>2. CASE phase = "run"
    <2>1. core' = core + 1 /\ phase' = "slice" /\ max_slice' = Elapsed(core)
      BY <1>2 DEF RunEnds
    <2>2. core' \in 1 .. NumCores + 1
      <3> PICK n : n = core'
        OBVIOUS
      <3> QED BY <1>0, <2>1, After
    <2>3. Elapsed(core) \in Int
      <3>1. slice[core] \in Int /\ down[core] \in Int
        BY <1>0, Numbers
      <3> QED BY <3>1 DEF Elapsed
    <2>4. LoopVarsOK'
      BY <1>0, <1>1, <2>1, <2>2, <2>3 DEF LoopVarsOK
    <2>5. LoopInv'
      BY <1>0, <2>1 DEF LoopInv
    <2> QED BY <1>0, <2>4, <2>5, TimersSame, NextTypeParts
  <1>3. CASE phase # "run"
    <2>1. core' = 1 /\ phase' = "top" /\ max_slice' = max_slice
      BY <1>3 DEF RunEnds
    <2>2. 1 \in 1 .. NumCores + 1
      BY CoresFacts
    <2>3. LoopVarsOK'
      BY <1>0, <1>1, <2>1, <2>2 DEF LoopVarsOK
    <2>4. LoopInv'
      BY <1>0, <2>1 DEF LoopInv
    <2> QED BY <1>0, <2>3, <2>4, TimersSame, NextTypeParts
  <1> QED BY <1>2, <1>3

(* The loop of Timer::Advance touches no other core. *)
LEMMA FireFacts ==
    ASSUME TypeOK, NEW c \in Cores, NEW e \in Ids, Fire(c, e)
    PROVE  /\ ev' \in [Ids -> EventType] /\ \A f \in Ids : ev'[f].host => ev'[f].in = "ts_queue"
           /\ \A d : d # c =>
                \A f \in Ids : f \in InQueue(d)' => f \in InQueue(d) /\ ev'[f].due = ev[f].due
  <1>0. /\ ev \in [Ids -> EventType] /\ \A f \in Ids : ev[f].host => ev[f].in = "ts_queue"
    BY TimerTypes
  <1>1. e \in InQueue(c)
    BY DEF Fire, Due
  <1>2. ev[e].in = "event_queue" /\ ev[e].core = c /\ ev[e].host = FALSE /\ ev[e] \in EventType
    <2>1. ev[e].in = "event_queue" /\ ev[e].core = c
      BY <1>1 DEF InQueue
    <2>2. ev[e] \in EventType /\ ev[e].host \in BOOLEAN
      BY EventFields
    <2> QED BY <1>0, <2>1, <2>2
  <1> DEFINE t == ev[e].due + Interval
             w == IF e \in Periodic THEN Queued(c, t) ELSE Nowhere
  <1>3. ev' = [ev EXCEPT ![e] = w]
    BY DEF Fire
  <1>4. w \in EventType /\ w.host = FALSE /\ (w.core = c \/ w.in = "none")
    <2>1. CASE e \in Periodic
      <3>1. w = Queued(c, t)
        BY <2>1
      <3>2. t \in Int
        BY EventFields, TimingAssumption
      <3> HIDE DEF t, w
      <3> QED BY <3>1, <3>2 DEF Queued, EventType
    <2>2. CASE e \notin Periodic
      <3>1. w = Nowhere
        BY <2>2
      <3> HIDE DEF w
      <3> QED BY <3>1, CoresFacts DEF Nowhere, EventType
    <2> QED BY <2>1, <2>2
  <1> HIDE DEF w
  <1>5. ev' \in [Ids -> EventType]
    BY <1>0, <1>3, <1>4
  <1>6. \A f \in Ids : ev'[f].host => ev'[f].in = "ts_queue"
    BY <1>0, <1>3, <1>4
  <1>7. \A f \in Ids : ev[f].core # c \/ ev[f].in = "none" => ev'[f] = ev[f]
    BY <1>0, <1>2, <1>3
  <1>8. \A f \in Ids : ev[f].core = c => ev'[f].core = c \/ ev'[f].in = "none"
    BY <1>0, <1>3, <1>4
  <1>9. ASSUME NEW d, d # c
        PROVE  \A f \in Ids : f \in InQueue(d)' => f \in InQueue(d) /\ ev'[f].due = ev[f].due
    BY <1>7, <1>8, <1>9, OtherQueue
  <1> QED BY <1>5, <1>6, <1>9

LEMMA FireStep ==
    ASSUME TypeOK, LoopInv, phase \in {"catch up advance", "sync advance"},
           NEW e \in Ids, Fire(core, e)
    PROVE  TypeOK' /\ LoopInv'
  <1>0. /\ ~failed /\ core \in Cores
        /\ fired' = {e} /\ UNCHANGED <<slice, down, sane, lead, failed>> /\ UNCHANGED loopVars
    BY DEF LoopInv, Fire
  <1>1. TimersOK /\ LoopVarsOK
    BY TypeParts
  <1> PICK x : x = chosen
    OBVIOUS
  <1> PICK y : y = core
    OBVIOUS
  <1>2. /\ ev' \in [Ids -> EventType] /\ \A f \in Ids : ev'[f].host => ev'[f].in = "ts_queue"
        /\ \A d : d # y =>
             \A f \in Ids : f \in InQueue(d)' => f \in InQueue(d) /\ ev'[f].due = ev[f].due
    <2>1. y \in Cores /\ Fire(y, e)
      BY <1>0
    <2> QED BY <2>1, FireFacts
  <1>3. TimersOK'
    BY <1>0, <1>1, <1>2 DEF TimersOK
  <1>4. LoopVarsOK'
    BY <1>0, <1>1 DEF LoopVarsOK, loopVars
  <1>5. CASE phase = "catch up advance"
    <2>1. PickInv /\ delay[core] > 0
      BY <1>5 DEF LoopInv
    <2>2. ASSUME x # 0 PROVE SliceSafe(chosen)'
      <3>1. x \in 1 .. core - 1 /\ SliceSafe(x)
        BY <2>1, <2>2, PickedWasSafe DEF PickInv
      <3>2. x \in Cores /\ x # y
        BY <3>1, Before
      <3>3. slice'[x] = slice[x]
        BY <1>0
      <3>4. \A f \in Ids : f \in InQueue(x)' => f \in InQueue(x) /\ ev'[f].due = ev[f].due
        BY <1>2, <3>2
      <3>5. SliceSafe(x)'
        BY <3>1, <3>3, <3>4, SliceSafeSame
      <3> QED BY <1>0, <3>5, PickedSafe DEF loopVars
    <2>3. chosen' = chosen /\ core' = core /\ delay' = delay /\ phase' = phase
      BY <1>0 DEF loopVars
    <2>4. PickInv'
      BY <2>1, <2>2, <2>3 DEF PickInv
    <2>5. LoopInv'
      BY <1>0, <1>5, <2>1, <2>3, <2>4 DEF LoopInv
    <2> QED BY <1>3, <1>4, <2>5, NextTypeParts
  <1>6. CASE phase = "sync advance"
    <2>1. LoopInv'
      BY <1>0, <1>6 DEF LoopInv, loopVars
    <2> QED BY <1>3, <1>4, <2>1, NextTypeParts
  <1> QED BY <1>5, <1>6

(* What another host thread, or a system call for another core, schedules   *)
(* is in no event queue.                                                    *)
LEMMA ScheduledAside ==
    ASSUME TypeOK, NEW c \in Cores, NEW e \in Ids, NEW t \in Int, NEW h \in BOOLEAN,
           NEW w, w = InTsQueue(c, t, h) \/ w = OnHost(c, t), ev' = [ev EXCEPT ![e] = w]
    PROVE  /\ ev' \in [Ids -> EventType] /\ \A f \in Ids : ev'[f].host => ev'[f].in = "ts_queue"
           /\ \A d : \A f \in Ids : f \in InQueue(d)' => f \in InQueue(d) /\ ev'[f].due = ev[f].due
  <1>0. /\ ev \in [Ids -> EventType] /\ \A f \in Ids : ev[f].host => ev[f].in = "ts_queue"
    BY TimerTypes
  <1>1. w \in EventType /\ w.in # "event_queue" /\ (w.host => w.in = "ts_queue")
    <2>1. CASE w = InTsQueue(c, t, h)
      BY <2>1 DEF InTsQueue, EventType
    <2>2. CASE w = OnHost(c, t)
      BY <2>2 DEF OnHost, EventType
    <2> QED BY <2>1, <2>2
  <1>3. ev'[e] = w /\ \A f \in Ids \ {e} : ev'[f] = ev[f]
    BY <1>0
  <1>4. ev' \in [Ids -> EventType]
    BY <1>0, <1>1
  <1>5. \A f \in Ids : ev'[f].host => ev'[f].in = "ts_queue"
    BY <1>0, <1>1, <1>3
  <1>6. \A d : \A f \in Ids : f \in InQueue(d)' => f \in InQueue(d) /\ ev'[f].due = ev[f].due
    BY <1>1, <1>3 DEF InQueue
  <1> QED BY <1>4, <1>5, <1>6

(* Events that are taken out of a queue leave the slices as safe. *)
LEMMA Unscheduled ==
    ASSUME TypeOK, NEW e \in Ids, ev' = [ev EXCEPT ![e] = Nowhere]
    PROVE  /\ ev' \in [Ids -> EventType] /\ \A f \in Ids : ev'[f].host => ev'[f].in = "ts_queue"
           /\ \A d : \A f \in Ids : f \in InQueue(d)' => f \in InQueue(d) /\ ev'[f].due = ev[f].due
  <1>0. /\ ev \in [Ids -> EventType] /\ \A f \in Ids : ev[f].host => ev[f].in = "ts_queue"
    BY TimerTypes
  <1>1. Nowhere \in EventType /\ Nowhere.in = "none" /\ Nowhere.host = FALSE
    BY CoresFacts DEF Nowhere, EventType
  <1>3. ev'[e] = Nowhere /\ \A f \in Ids \ {e} : ev'[f] = ev[f]
    BY <1>0
  <1>4. ev' \in [Ids -> EventType]
    BY <1>0, <1>1
  <1>5. \A f \in Ids : ev'[f].host => ev'[f].in = "ts_queue"
    BY <1>0, <1>1, <1>3
  <1>6. \A d : \A f \in Ids : f \in InQueue(d)' => f \in InQueue(d) /\ ev'[f].due = ev[f].due
    BY <1>1, <1>3 DEF InQueue
  <1> QED BY <1>4, <1>5, <1>6

(* ScheduleEvent on the core that runs cuts its slice to end where the new  *)
(* event begins (ForceExceptionCheck).                                      *)
LEMMA ScheduleEventFacts ==
    ASSUME TypeOK, NEW c \in Cores, SliceSafe(c), NEW left \in Int, NEW e \in Ids, NEW t \in Int,
           ScheduleEvent(c, left, e, t)
    PROVE  /\ ev' \in [Ids -> EventType] /\ \A f \in Ids : ev'[f].host => ev'[f].in = "ts_queue"
           /\ slice' \in [Cores -> Int] /\ down' \in [Cores -> Int]
           /\ SliceSafe(c)'
  <1>0. /\ ev \in [Ids -> EventType] /\ \A f \in Ids : ev[f].host => ev[f].in = "ts_queue"
        /\ slice \in [Cores -> Int] /\ down \in [Cores -> Int]
    BY TimerTypes
  <1> DEFINE s == slice[c]
             due == s - left + t
             w == Queued(c, due)
  <1>1. s \in Int /\ due \in Int
    BY <1>0
  <1>2. ev' = [ev EXCEPT ![e] = w] /\ ForceExceptionCheck(c, left, t)
    BY DEF ScheduleEvent
  <1>3. w \in EventType /\ w.host = FALSE /\ w.due = due
    <2> HIDE DEF due
    <2> QED BY <1>1 DEF Queued, EventType
  <1> HIDE DEF w
  <1>4. ev'[e] = w /\ \A f \in Ids \ {e} : ev'[f] = ev[f]
    BY <1>0, <1>2
  <1>5. ev' \in [Ids -> EventType]
    BY <1>0, <1>2, <1>3
  <1>6. \A f \in Ids : ev'[f].host => ev'[f].in = "ts_queue"
    BY <1>0, <1>3, <1>4
  <1>7. \A f \in Ids \ {e} : f \in InQueue(c)' => ev'[f].due \in Int /\ ev'[f].due >= s
    <2>1. ASSUME NEW f \in Ids \ {e}, f \in InQueue(c)' PROVE ev'[f].due \in Int /\ ev'[f].due >= s
      <3>1. f \in InQueue(c) /\ ev'[f].due = ev[f].due
        BY <1>4, <2>1 DEF InQueue
      <3>2. ev[f].due >= s
        BY <3>1 DEF SliceSafe
      <3>3. ev[f].due \in Int
        BY EventFields
      <3> QED BY <3>1, <3>2, <3>3
    <2> QED BY <2>1
  <1>8. CASE left > t
    <2> DEFINE n == s - (left - t)
    <2>1. slice' = [slice EXCEPT ![c] = n] /\ down' = [down EXCEPT ![c] = t]
      BY <1>2, <1>8 DEF ForceExceptionCheck
    <2>2. n \in Int /\ n <= s /\ due >= n
      BY <1>1, <1>8
    <2> HIDE DEF s, n, due
    <2>3. slice'[c] = n /\ slice' \in [Cores -> Int] /\ down' \in [Cores -> Int]
      BY <1>0, <2>1, <2>2
    <2>4. ASSUME NEW f \in InQueue(c)' PROVE ev'[f].due >= n
      <3>1. f \in Ids
        BY DEF InQueue
      <3>2. CASE f = e
        BY <1>3, <1>4, <2>2, <3>2
      <3>3. CASE f # e
        <4>1. ev'[f].due \in Int /\ ev'[f].due >= s
          BY <1>7, <3>1, <3>3
        <4> QED BY <1>1, <2>2, <4>1
      <3> QED BY <3>2, <3>3
    <2>5. SliceSafe(c)'
      BY <2>3, <2>4 DEF SliceSafe
    <2> QED BY <1>5, <1>6, <2>3, <2>5
  <1>9. CASE ~(left > t)
    <2>1. slice' = slice /\ down' = [down EXCEPT ![c] = left]
      BY <1>2, <1>9 DEF ForceExceptionCheck
    <2>2. due >= s
      BY <1>1, <1>9
    <2>3. slice'[c] = s /\ slice' \in [Cores -> Int] /\ down' \in [Cores -> Int]
      BY <1>0, <2>1
    <2> HIDE DEF s, due
    <2>4. ASSUME NEW f \in InQueue(c)' PROVE ev'[f].due >= s
      <3>1. f \in Ids
        BY DEF InQueue
      <3>2. CASE f = e
        BY <1>3, <1>4, <2>2, <3>2
      <3>3. CASE f # e
        BY <1>7, <3>1, <3>3
      <3> QED BY <3>2, <3>3
    <2>5. SliceSafe(c)'
      BY <2>3, <2>4 DEF SliceSafe
    <2> QED BY <1>5, <1>6, <2>3, <2>5
  <1> QED BY <1>8, <1>9

LEMMA CallStep ==
    ASSUME TypeOK, LoopInv, Call, fired' = {}
    PROVE  TypeOK' /\ LoopInv'
  <1> DEFINE left == down[core] - 1
  <1>0. /\ phase \in {"run", "run delayed"} /\ ~failed /\ chosen = 0 /\ core \in Cores
        /\ SliceSafe(core)
        /\ UNCHANGED <<sane, lead, failed>> /\ UNCHANGED loopVars
    BY DEF Call, Running, LoopInv
  <1>1. TimersOK /\ LoopVarsOK
    BY TypeParts
  <1> PICK y : y = core
    OBVIOUS
  <1>2. y \in Cores /\ SliceSafe(y)
    BY <1>0, PickedWasSafe
  <1>3. left \in Int
    <2>1. down[core] \in Int
      BY <1>0, Numbers
    <2> QED BY <2>1
  <1>4. PICK e \in Events :
              \/ \E d \in Delays : ScheduleEvent(core, left, e, d)
              \/ /\ \/ \E d \in Delays, c \in Cores \ {core} : ScheduleOther(c, e, d)
                    \/ UnscheduleEvent(e)
                 /\ down' = [down EXCEPT ![core] = left]
                 /\ UNCHANGED slice
    BY DEF Call
  <1> PICK l : l = left
    OBVIOUS
  <1> HIDE DEF left
  <1>5. e \in Ids /\ l \in Int /\ Delays \subseteq Int
    BY <1>3, TimingAssumption DEF Ids
  <1>6. /\ ev' \in [Ids -> EventType] /\ \A f \in Ids : ev'[f].host => ev'[f].in = "ts_queue"
        /\ slice' \in [Cores -> Int] /\ down' \in [Cores -> Int]
        /\ SliceSafe(y)'
    <2>1. CASE \E d \in Delays : ScheduleEvent(core, left, e, d)
      <3>1. PICK d \in Delays : ScheduleEvent(y, l, e, d)
        BY <2>1
      <3>2. d \in Int
        BY <1>5, <3>1
      <3> QED BY <1>2, <1>5, <3>1, <3>2, ScheduleEventFacts
    <2>2. ASSUME down' = [down EXCEPT ![core] = left], slice' = slice,
                 \A f \in Ids : f \in InQueue(y)' => f \in InQueue(y) /\ ev'[f].due = ev[f].due
          PROVE  slice' \in [Cores -> Int] /\ down' \in [Cores -> Int] /\ SliceSafe(y)'
      <3>1. slice \in [Cores -> Int] /\ down \in [Cores -> Int]
        BY <1>1 DEF TimersOK
      <3>2. SliceSafe(y)'
        BY <1>2, <2>2, SliceSafeSame
      <3> QED BY <1>3, <2>2, <3>1, <3>2
    <2>3. CASE /\ \E d \in Delays, c \in Cores \ {core} : ScheduleOther(c, e, d)
               /\ down' = [down EXCEPT ![core] = left] /\ UNCHANGED slice
      <3>1. PICK d \in Delays, c \in Cores : ScheduleOther(c, e, d)
        BY <2>3
      <3> PICK t : t = Elapsed(c) + d
        OBVIOUS
      <3>2. t \in Int
        <4>1. slice[c] \in Int /\ down[c] \in Int /\ d \in Int
          BY <1>5, Numbers
        <4> QED BY <4>1 DEF Elapsed
      <3>3. ev' = [ev EXCEPT ![e] = InTsQueue(c, t, FALSE)]
        BY <3>1 DEF ScheduleOther
      <3>4. /\ ev' \in [Ids -> EventType] /\ \A f \in Ids : ev'[f].host => ev'[f].in = "ts_queue"
            /\ \A d1 : \A f \in Ids : f \in InQueue(d1)' => f \in InQueue(d1) /\ ev'[f].due = ev[f].due
        BY <1>5, <3>2, <3>3, ScheduledAside
      <3> QED BY <2>2, <2>3, <3>4
    <2>4. CASE /\ UnscheduleEvent(e)
               /\ down' = [down EXCEPT ![core] = left] /\ UNCHANGED slice
      <3>1. ev' = [ev EXCEPT ![e] = Nowhere]
        BY <2>4 DEF UnscheduleEvent
      <3>2. /\ ev' \in [Ids -> EventType] /\ \A f \in Ids : ev'[f].host => ev'[f].in = "ts_queue"
            /\ \A d1 : \A f \in Ids : f \in InQueue(d1)' => f \in InQueue(d1) /\ ev'[f].due = ev[f].due
        BY <1>5, <3>1, Unscheduled
      <3> QED BY <2>2, <2>4, <3>2
    <2> QED BY <1>4, <2>1, <2>3, <2>4
  <1>7. TimersOK'
    BY <1>0, <1>1, <1>6 DEF TimersOK
  <1>8. LoopVarsOK'
    BY <1>0, <1>1 DEF LoopVarsOK, loopVars
  <1>9. SliceSafe(core)' /\ core' \in Cores
    BY <1>0, <1>6, PickedSafe DEF loopVars
  <1>10. LoopInv'
    BY <1>0, <1>9 DEF LoopInv, loopVars
  <1> QED BY <1>7, <1>8, <1>10, NextTypeParts

(* A step that adds no event to a queue and leaves the loop where it is. *)
LEMMA QuietStep ==
    ASSUME TypeOK, LoopInv, TimersOK', UNCHANGED loopVars, failed' = failed, slice' = slice,
           fired' \in SUBSET Ids,
           \A d : \A f \in Ids : f \in InQueue(d)' => f \in InQueue(d) /\ ev'[f].due = ev[f].due
    PROVE  TypeOK' /\ LoopInv'
  <1>1. LoopVarsOK'
    BY TypeParts DEF LoopVarsOK, loopVars
  <1>2. \A d : SliceSafe(d) => SliceSafe(d)'
    BY SliceSafeSame
  <1> PICK x : x = chosen
    OBVIOUS
  <1> PICK y : y = core
    OBVIOUS
  <1>3. UNCHANGED <<phase, core, chosen, delay>>
    BY DEF loopVars
  <1>4. SliceSafe(chosen) => SliceSafe(chosen)'
    BY <1>2, <1>3, PickedSafe, PickedWasSafe
  <1>5. SliceSafe(core) => SliceSafe(core)'
    BY <1>2, <1>3, PickedSafe, PickedWasSafe
  <1>6. PickInv => PickInv'
    BY <1>3, <1>4 DEF PickInv
  <1>7. LoopInv'
    BY <1>3, <1>5, <1>6 DEF LoopInv
  <1> QED BY <1>1, <1>7, NextTypeParts

(* A host thread that has read the clock, and one that pushes its event. *)
LEMMA HostStep ==
    ASSUME TypeOK, LoopInv, HostThreads
    PROVE  TypeOK' /\ LoopInv'
  <1>1. ASSUME NEW c \in Cores, NEW e \in Ids, NEW t \in Int, NEW h \in BOOLEAN,
               ev' = [ev EXCEPT ![e] = InTsQueue(c, t, h)] \/ ev' = [ev EXCEPT ![e] = OnHost(c, t)],
               fired' = {}, UNCHANGED <<slice, down, sane, lead, failed>>, UNCHANGED loopVars
        PROVE  TypeOK' /\ LoopInv'
    <2>1. /\ ev' \in [Ids -> EventType] /\ \A f \in Ids : ev'[f].host => ev'[f].in = "ts_queue"
          /\ \A d : \A f \in Ids : f \in InQueue(d)' => f \in InQueue(d) /\ ev'[f].due = ev[f].due
      BY <1>1, ScheduledAside
    <2>2. TimersOK'
      BY <1>1, <2>1, TypeParts DEF TimersOK
    <2> QED BY <1>1, <2>1, <2>2, QuietStep
  <1>2. ASSUME NEW c \in Cores, NEW e \in Events, NEW d \in Delays, ScheduleThreadSafe(c, e, d)
        PROVE  TypeOK' /\ LoopInv'
    <2> DEFINE late == Max({MinThreadSafe, d})
    <2>1. /\ ev' = [ev EXCEPT ![e] = OnHost(c, Elapsed(c) + late)]
          /\ fired' = {} /\ UNCHANGED <<slice, down, sane, lead, failed>> /\ UNCHANGED loopVars
      BY <1>2 DEF ScheduleThreadSafe
    <2>2. late \in Int
      <3>1. MinThreadSafe \in Int /\ d \in Int
        BY TimingAssumption DEF MinThreadSafe
      <3> QED BY <3>1, MaxOfTwo
    <2> HIDE DEF late
    <2>3. Elapsed(c) + late \in Int
      <3>1. slice[c] \in Int /\ down[c] \in Int
        BY Numbers
      <3>2. Elapsed(c) \in Int
        BY <3>1 DEF Elapsed
      <3> QED BY <2>2, <3>2
    <2>4. e \in Ids
      BY DEF Ids
    <2> PICK t : t = Elapsed(c) + late
      OBVIOUS
    <2> QED BY <1>1, <2>1, <2>3, <2>4
  <1>3. ASSUME NEW e \in Events, PushThreadSafe(e) PROVE TypeOK' /\ LoopInv'
    <2>1. e \in Ids
      BY DEF Ids
    <2>2. ev[e].core \in Cores /\ ev[e].due \in Int
      BY <2>1, EventFields
    <2> PICK h : h = (ev[e].due - Elapsed(ev[e].core) >= MinThreadSafe)
      OBVIOUS
    <2>3. h \in BOOLEAN
      OBVIOUS
    <2>4. /\ ev' = [ev EXCEPT ![e] = InTsQueue(ev[e].core, ev[e].due, h)]
          /\ fired' = {} /\ UNCHANGED <<slice, down, sane, lead, failed>> /\ UNCHANGED loopVars
      BY <1>3 DEF PushThreadSafe
    <2> QED BY <1>1, <2>1, <2>2, <2>3, <2>4
  <1> QED BY <1>2, <1>3 DEF HostThreads

-----------------------------------------------------------------------------
(* The top of RunLoop *)

(* A step that ends at the top or stops the emulation. *)
LEMMA TopStep ==
    ASSUME TypeOK, LoopInv, TimersOK', phase \in {"top", "stopped"}, phase' \in {"top", "stopped"},
           UNCHANGED <<core, max_slice, chosen, delay, fired, failed>>
    PROVE  TypeOK' /\ LoopInv'
  <1>1. LoopVarsOK'
    BY TypeParts DEF LoopVarsOK
  <1>2. core = 1 /\ chosen = 0 /\ ~failed
    BY DEF LoopInv
  <1>3. LoopInv'
    BY <1>2 DEF LoopInv
  <1> QED BY <1>1, <1>3, NextTypeParts

LEMMA ProceedStep ==
    ASSUME TypeOK, LoopInv, Top, fired' = {}
    PROVE  TypeOK' /\ LoopInv'
  <1>0. /\ phase = "top" /\ phase' = "catch up" /\ core = 1 /\ chosen = 0 /\ ~failed
        /\ delay' = [c \in Cores |-> GlobalTicks - Ticks(c)]
        /\ UNCHANGED timerVars /\ UNCHANGED <<core, chosen, max_slice, failed>>
    BY DEF Top, LoopInv
  <1>1. delay' \in [Cores -> Nat]
    BY <1>0, GlobalTicksFacts
  <1>2. LoopVarsOK'
    BY <1>0, <1>1, TypeParts DEF LoopVarsOK
  <1>3. ~ \E c \in 1 .. core' - 1 : delay'[c] > 0
    <2>1. core' = 1
      BY <1>0
    <2>2. core' - 1 = 0
      BY <2>1
    <2> QED BY <2>2
  <1>4. LoopInv'
    BY <1>0, <1>3 DEF LoopInv, PickInv
  <1> QED BY <1>0, <1>2, <1>4, TimersSame, NextTypeParts

(* New timers. *)
LEMMA NewTimers ==
    /\ NewEvents \in [Ids -> EventType] /\ \A e \in Ids : NewEvents[e].host = FALSE
    /\ NewSlice \in [Cores -> Int] /\ AllSane \in [Cores -> BOOLEAN]
    /\ [c \in Cores |-> 0] \in [Cores -> Nat]
  <1> PICK w : w = Queued(1, Interval)
    OBVIOUS
  <1>1. w \in EventType /\ w.host = FALSE
    BY CoresFacts, TimingAssumption DEF Queued, EventType
  <1>2. Nowhere \in EventType /\ Nowhere.host = FALSE
    BY CoresFacts DEF Nowhere, EventType
  <1>3. NewEvents = [e \in Ids |-> IF e \in Periodic THEN w ELSE Nowhere]
    BY DEF NewEvents
  <1>4. NewEvents \in [Ids -> EventType] /\ \A e \in Ids : NewEvents[e].host = FALSE
    BY <1>1, <1>2, <1>3
  <1>5. NewSlice \in [Cores -> Int] /\ AllSane \in [Cores -> BOOLEAN]
    BY TimingAssumption DEF NewSlice, AllSane
  <1> QED BY <1>4, <1>5

LEMMA LoadedStep ==
    ASSUME TypeOK, LoopInv, Loaded, phase \in {"top", "stopped"}
    PROVE  TypeOK' /\ LoopInv'
  <1>1. TimersOK'
    BY NewTimers DEF Loaded, TimersOK
  <1> QED BY <1>1, TopStep DEF Loaded

LEMMA StoppedStep ==
    ASSUME TypeOK, LoopInv, Stopped, phase \in {"top", "stopped"}
    PROVE  TypeOK' /\ LoopInv'
  <1>0. Nowhere \in EventType /\ Nowhere.host = FALSE
    BY CoresFacts DEF Nowhere, EventType
  <1>1. ev' = [e \in Ids |-> Nowhere] /\ UNCHANGED <<slice, down, sane, lead>>
    BY DEF Stopped
  <1>2. ev' \in [Ids -> EventType] /\ \A e \in Ids : ev'[e].host => ev'[e].in = "ts_queue"
    BY <1>0, <1>1
  <1>3. TimersOK'
    BY <1>1, <1>2, TypeParts DEF TimersOK
  <1> QED BY <1>3, TopStep DEF Stopped

LEMMA MoveAllFacts ==
    ASSUME TypeOK, MoveAll
    PROVE  ev' \in [Ids -> EventType] /\ \A e \in Ids : ev'[e].host => ev'[e].in = "ts_queue"
  <1>1. ASSUME NEW e \in Ids
        PROVE  ev'[e] \in EventType /\ (ev'[e].host => ev'[e].in = "ts_queue")
    <2>1. ev[e] \in EventType /\ ev[e].core \in Cores /\ ev[e].due \in Int
      BY EventFields
    <2>2. CASE ev[e].in = "ts_queue"
      <3> PICK w : w = Queued(ev[e].core, ev[e].due)
        OBVIOUS
      <3>1. ev'[e] = w
        BY <2>2 DEF MoveAll
      <3>2. w \in EventType /\ w.host = FALSE
        BY <2>1 DEF Queued, EventType
      <3> QED BY <3>1, <3>2
    <2>3. CASE ev[e].in # "ts_queue"
      <3>1. ev'[e] = ev[e]
        BY <2>3 DEF MoveAll
      <3> QED BY <2>1, <3>1, TimerTypes
    <2> QED BY <2>2, <2>3
  <1>2. ev' = [e \in Ids |-> ev'[e]]
    BY DEF MoveAll
  <1> QED BY <1>1, <1>2

(* The signals and the pending operation *)

LEMMA PendingType ==
    ASSUME SignalsTypeOK
    PROVE  PendingRequest \in {NoRequest} \cup [status : {"LOADING", "SAVING"}, slot : Slots, late : BOOLEAN]
  <1>1. CASE current_signal.kind \in {"Load", "Save"}
    <2>1. current_signal \in Savestates
      BY <1>1 DEF SignalsTypeOK, Signals, NoSignal
    <2>2. current_signal.param \in Slots
      BY <2>1 DEF Savestates
    <2>3. StatusOf[current_signal.kind] \in {"LOADING", "SAVING"}
      BY <1>1 DEF StatusOf
    <2> QED BY <1>1, <2>2, <2>3 DEF PendingRequest
  <1>2. CASE current_signal.kind \notin {"Load", "Save"}
    BY <1>2 DEF PendingRequest, SignalsTypeOK
  <1> QED BY <1>1, <1>2

(* The steps at the top of RunLoop leave signals and requests of their types. *)
LEMMA SignalsStep ==
    ASSUME SignalsTypeOK, Take,
           request' = request \/ request' = NoRequest \/ request' = PendingRequest
    PROVE  SignalsTypeOK'
  BY PendingType DEF SignalsTypeOK, Take

LEMMA SavestateStep ==
    ASSUME IInv, Savestate, phase = "top"
    PROVE  IInv'
  <1>0. TypeOK /\ LoopInv /\ SignalsTypeOK /\ loads \in 0 .. MaxLoads /\ MaxLoads \in Nat
    BY LoadsAssumption DEF IInv, LoopTypeOK
  <1>1. SignalsTypeOK'
    BY <1>0, SignalsStep DEF Savestate
  <1>2. CASE UNCHANGED vars /\ UNCHANGED loads
    <2>1. UNCHANGED timerVars /\ UNCHANGED loopVars /\ fired' = fired /\ failed' = failed
      BY <1>2 DEF vars
    <2>2. TypeOK' /\ LoopInv'
      BY <1>0, <2>1, TimersSame, TopStep DEF loopVars
    <2> QED BY <1>0, <1>1, <1>2, <2>2 DEF IInv, LoopTypeOK
  <1>3. CASE /\ MoveAll
             /\ UNCHANGED <<slice, down, sane, lead, fired, failed, loads>> /\ UNCHANGED loopVars
    <2>1. TimersOK'
      BY <1>0, <1>3, MoveAllFacts, TypeParts DEF TimersOK
    <2>2. TypeOK' /\ LoopInv'
      BY <1>0, <1>3, <2>1, TopStep DEF loopVars
    <2> QED BY <1>0, <1>1, <1>3, <2>2 DEF IInv, LoopTypeOK
  <1>4. CASE /\ loads < MaxLoads /\ MoveAll /\ sane' = AllSane /\ loads' = loads + 1
             /\ UNCHANGED <<slice, down, lead, fired, failed>> /\ UNCHANGED loopVars
    <2>1. TimersOK'
      BY <1>0, <1>4, MoveAllFacts, TypeParts, NewTimers DEF TimersOK
    <2>2. TypeOK' /\ LoopInv'
      BY <1>0, <1>4, <2>1, TopStep DEF loopVars
    <2>3. loads' \in 0 .. MaxLoads
      BY <1>0, <1>4
    <2> QED BY <1>1, <2>2, <2>3 DEF IInv, LoopTypeOK
  <1> QED BY <1>2, <1>3, <1>4 DEF Savestate

(* The other steps at the top. *)
LEMMA TopSteps ==
    ASSUME IInv, phase = "top", Reset \/ Shutdown \/ Refuse \/ GiveUp \/ Proceed, UNCHANGED loads
    PROVE  IInv'
  <1>0. TypeOK /\ LoopInv /\ SignalsTypeOK /\ loads \in 0 .. MaxLoads
    BY DEF IInv, LoopTypeOK
  <1>1. SignalsTypeOK'
    <2>1. Take /\ (request' = request \/ request' = NoRequest \/ request' = PendingRequest)
      BY DEF Reset, Shutdown, Refuse, GiveUp, Proceed
    <2> QED BY <1>0, <2>1, SignalsStep
  <1>2. TypeOK' /\ LoopInv'
    <2>1. CASE Reset \/ Shutdown
      <3>1. Stopped \/ Loaded
        BY <2>1 DEF Reset, Shutdown
      <3> QED BY <1>0, <3>1, StoppedStep, LoadedStep
    <2>2. CASE Refuse \/ GiveUp
      <3>1. UNCHANGED timerVars /\ UNCHANGED loopVars /\ fired' = fired /\ failed' = failed
        BY <2>2 DEF Refuse, GiveUp, vars
      <3> QED BY <1>0, <3>1, TimersSame, TopStep DEF loopVars
    <2>3. CASE Proceed
      BY <1>0, <2>3, ProceedStep DEF Proceed
    <2> QED BY <2>1, <2>2, <2>3
  <1> QED BY <1>0, <1>1, <1>2 DEF IInv, LoopTypeOK

-----------------------------------------------------------------------------
(* The theorems *)

LEMMA InitInv == LoopInit => IInv
  <1> SUFFICES ASSUME LoopInit PROVE IInv
    OBVIOUS
  <1>0. Init /\ SignalsInit /\ loads = 0
    BY DEF LoopInit
  <1>1. TimersOK
    BY <1>0, NewTimers DEF Init, TimersOK
  <1>2. LoopVarsOK
    <2>1. NoDelay \in [Cores -> Nat] /\ 1 \in 1 .. NumCores + 1 /\ 0 \in 0 .. NumCores
      BY CoresFacts DEF NoDelay
    <2>2. /\ phase = "top" /\ core = 1 /\ max_slice = 0 /\ chosen = 0 /\ delay = NoDelay
          /\ fired = {} /\ failed = FALSE
      BY <1>0 DEF Init
    <2>3. core \in 1 .. NumCores + 1 /\ chosen \in 0 .. NumCores /\ delay \in [Cores -> Nat]
      BY <2>1, <2>2
    <2>4. max_slice \in Int
      BY <2>2
    <2>5. fired \in SUBSET Ids
      BY <2>2
    <2>6. failed \in BOOLEAN
      BY <2>2, Zenon
    <2> QED BY <2>2, <2>3, <2>4, <2>5, <2>6 DEF LoopVarsOK
  <1>3. LoopInv
    BY <1>0 DEF Init, LoopInv
  <1>4. SignalsTypeOK
    BY <1>0 DEF SignalsInit, SignalsTypeOK
  <1>5. loads \in 0 .. MaxLoads
    BY <1>0, LoadsAssumption
  <1> QED BY <1>1, <1>2, <1>3, <1>4, <1>5, TypeParts DEF IInv, LoopTypeOK

LEMMA PassStep ==
    ASSUME TypeOK, LoopInv, Pass
    PROVE  TypeOK' /\ LoopInv'
  <1>1. CASE /\ CatchUp \/ CaughtUp \/ Decide \/ Sync \/ Synced \/ Slice
                \/ LoopEnds \/ Execute \/ Call \/ RunEnds
             /\ fired' = {}
    BY <1>1, CatchUpStep, CaughtUpStep, DecideStep, SyncStep, SyncedStep, SliceStep,
       LoopEndsStep, ExecuteStep, CallStep, RunEndsStep
  <1>2. CASE phase \in {"catch up advance", "sync advance"} /\ \E e \in Ids : Fire(core, e)
    BY <1>2, FireStep
  <1> QED BY <1>1, <1>2 DEF Pass

LEMMA NextInv == IInv /\ [LoopNext]_allVars => IInv'
  <1> SUFFICES ASSUME IInv, [LoopNext]_allVars PROVE IInv'
    OBVIOUS
  <1>0. TypeOK /\ LoopInv /\ SignalsTypeOK /\ loads \in 0 .. MaxLoads
    BY DEF IInv, LoopTypeOK
  <1>1. CASE RunLoop
    <2>1. CASE phase = "top" /\ Savestate
      BY <2>1, SavestateStep
    <2>2. CASE /\ phase = "top" /\ (Reset \/ Shutdown \/ Refuse \/ GiveUp \/ Proceed)
               /\ UNCHANGED loads
      BY <2>2, TopSteps
    <2>3. CASE Pass /\ UNCHANGED signalVars /\ UNCHANGED loads
      <3>1. TypeOK' /\ LoopInv'
        BY <1>0, <2>3, PassStep
      <3> QED BY <1>0, <2>3, <3>1 DEF IInv, LoopTypeOK, SignalsTypeOK, signalVars
    <2> QED BY <1>1, <2>1, <2>2, <2>3 DEF RunLoop
  <1>2. CASE Others
    <2>0. UNCHANGED loads
      BY <1>2 DEF Others
    <2>1. CASE phase = "top" /\ (\E s \in Signals : SendSignal(s)) /\ UNCHANGED vars
      <3>1. UNCHANGED timerVars /\ UNCHANGED loopVars /\ fired' = fired /\ failed' = failed
        BY <2>1 DEF vars
      <3>2. TypeOK' /\ LoopInv'
        BY <1>0, <2>1, <3>1, TimersSame, TopStep DEF loopVars
      <3>3. SignalsTypeOK'
        BY <1>0, <2>1 DEF SendSignal, SignalsTypeOK
      <3> QED BY <1>0, <2>0, <3>2, <3>3 DEF IInv, LoopTypeOK
    <2>2. CASE HostThreads /\ UNCHANGED signalVars
      <3>1. TypeOK' /\ LoopInv'
        BY <1>0, <2>2, HostStep
      <3> QED BY <1>0, <2>0, <2>2, <3>1 DEF IInv, LoopTypeOK, SignalsTypeOK, signalVars
    <2>3. CASE Restart
      <3>1. TypeOK' /\ LoopInv'
        BY <1>0, <2>3, LoadedStep DEF Restart
      <3> QED BY <1>0, <2>0, <2>3, <3>1 DEF IInv, LoopTypeOK, SignalsTypeOK, signalVars, Restart
    <2> QED BY <1>2, <2>1, <2>2, <2>3 DEF Others
  <1>3. CASE Clock
    <2>0. phase = "top" /\ TimePasses /\ UNCHANGED vars /\ UNCHANGED loads
      BY <1>3 DEF Clock
    <2>1. UNCHANGED timerVars /\ UNCHANGED loopVars /\ fired' = fired /\ failed' = failed
      BY <2>0 DEF vars
    <2>2. TypeOK' /\ LoopInv'
      BY <1>0, <2>0, <2>1, TimersSame, TopStep DEF loopVars
    <2>3. SignalsTypeOK'
      <3>1. request \in [status : {"LOADING", "SAVING"}, slot : Slots, late : BOOLEAN]
        BY <1>0, <2>0 DEF SignalsTypeOK, TimePasses, NoRequest
      <3>2. request' \in [status : {"LOADING", "SAVING"}, slot : Slots, late : BOOLEAN]
        BY <2>0, <3>1 DEF TimePasses
      <3> QED BY <1>0, <2>0, <3>2 DEF SignalsTypeOK, TimePasses
    <2> QED BY <1>0, <2>0, <2>2, <2>3 DEF IInv, LoopTypeOK
  <1>4. CASE UNCHANGED allVars
    <2>1. UNCHANGED vars /\ UNCHANGED signalVars /\ loads' = loads
      BY <1>4 DEF allVars
    <2>2. UNCHANGED timerVars /\ UNCHANGED loopVars /\ fired' = fired /\ failed' = failed
      BY <2>1 DEF vars
    <2>3. TimersOK' /\ ev' = ev /\ slice' = slice
      BY <1>0, <2>2, TimersSame DEF timerVars
    <2>4. \A d : \A f \in Ids : f \in InQueue(d)' => f \in InQueue(d) /\ ev'[f].due = ev[f].due
      BY <2>3 DEF InQueue
    <2>5. fired \in SUBSET Ids
      BY <1>0, TimerTypes
    <2>6. TypeOK' /\ LoopInv'
      BY <1>0, <2>2, <2>3, <2>4, <2>5, QuietStep
    <2> QED BY <1>0, <2>1, <2>6 DEF IInv, LoopTypeOK, SignalsTypeOK, signalVars
  <1> QED BY <1>1, <1>2, <1>3, <1>4 DEF LoopNext

(* The inductive invariant holds in every state RunLoop can reach. *)
THEOREM Invariant == LoopSpec => []IInv
  BY InitInv, NextInv, PTL DEF LoopSpec

(* Event queues, timers, the signal slot and the pending operation keep     *)
(* their types: the loop never works on a core that does not exist.         *)
THEOREM TypeCorrect == LoopSpec => []LoopTypeOK
  <1>1. IInv => LoopTypeOK
    BY DEF IInv
  <1> QED BY <1>1, Invariant, PTL

(* No core runs past an event of its own, whether the event was pending     *)
(* when the slice began, was scheduled in the middle of it, or the slice    *)
(* was cut while other cores still advanced (ForceExceptionCheck and        *)
(* SetNextSlice); and the ASSERT of GetMaxSliceLength holds.                *)
THEOREM EventsInTime == LoopSpec => []NoEventInsideSlice
  <1>1. IInv => NoEventInsideSlice
    BY DEF IInv, LoopInv, NoEventInsideSlice, Running, SliceSafe
  <1> QED BY <1>1, Invariant, PTL
=============================================================================
