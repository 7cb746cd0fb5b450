------------------------- MODULE HandleTableProofs -------------------------
(***************************************************************************)
(* Proofs about HandleTable, for a table of any size and any number of     *)
(* generations.  The free list is followed through the history variable    *)
(* `free'; the reuse of handles through the position each remembered       *)
(* handle has in the turn of the generation counter (WindowExact), which   *)
(* is the strengthening NoEarlyReuse needs.                                *)
(***************************************************************************)
EXTENDS HandleTable, QueueLemmas, FiniteSetTheorems

-----------------------------------------------------------------------------
(* The packing of handles *)

(* GetSlot of any 32-bit value is a slot number of SlotWidth. *)
LEMMA GetSlotType ==
    ASSUME NEW handle \in Handles
    PROVE  GetSlot(handle) \in Nat
  BY MaxGenAssumption, SlotWidthAssumption DEF GetSlot, Handles

(* A packed handle gives its generation back. *)
LEMMA PackedGeneration ==
    ASSUME NEW slot \in Nat, NEW g \in Generations
    PROVE  /\ MakeHandle(slot, g) \in Nat
           /\ GetGeneration(MakeHandle(slot, g)) = g
  <1>1. slot * MaxGen \in Nat
    BY MaxGenAssumption
  <1>2. (g + slot * MaxGen) % MaxGen = g
    BY MaxGenAssumption DEF Generations
  <1> QED BY <1>1, <1>2 DEF MakeHandle, GetGeneration, Generations

(* A valid handle names a slot with an object in it. *)
LEMMA ValidSlot ==
    ASSUME TypeOK, NEW handle \in Handles, IsValid(handle)
    PROVE  /\ GetSlot(handle) \in Slots
           /\ objects[GetSlot(handle)] \in Objects
  BY GetSlotType, MaxCountAssumption DEF TypeOK, IsValid, Slots

-----------------------------------------------------------------------------
(* The free list *)

FreeSlots == {s \in Slots : objects[s] = Null}

(* The list that starts at `head', runs through `links' and ends at         *)
(* MaxCount visits the slots of q in order.                                 *)
Threaded(head, links, q) ==
    /\ head = IF q = << >> THEN MaxCount ELSE q[1]
    /\ \A i \in 1 .. Len(q) : links[q[i]] = IF i = Len(q) THEN MaxCount ELSE q[i + 1]

(* FreeListExact in the form the lemmas about queues speak of. *)
LEMMA FreeListForm ==
    ASSUME free \in Seq(Slots)
    PROVE  FreeListExact <=> /\ Threaded(next_free_slot, generations, free)
                             /\ Holds(free, Slots, FreeSlots)
  <1>1. Elements(free) \subseteq Slots
    BY DEF Elements
  <1>2. (\A s \in Slots : objects[s] = Null <=> \E i \in 1 .. Len(free) : free[i] = s)
          <=> Elements(free) = FreeSlots
    BY <1>1 DEF Elements, FreeSlots
  <1> QED BY <1>2 DEF FreeListExact, Threaded, Holds

(* Popping the head leaves the rest threaded, whatever is written into its  *)
(* slot.                                                                    *)
LEMMA PopThreaded ==
    ASSUME NEW q, NEW S, Holds(q, Slots, S), NEW head \in 0 .. MaxCount, head < MaxCount,
           NEW links \in [Slots -> Nat], Threaded(head, links, q), NEW g \in Nat
    PROVE  /\ head \in S /\ head \in Slots
           /\ Holds(Tail(q), Slots, S \ {head})
           /\ Threaded(links[head], [links EXCEPT ![head] = g], Tail(q))
  <1> USE MaxCountAssumption
  <1>1. q \in Seq(Slots) /\ q # << >> /\ Len(q) \in Nat \ {0} /\ q[1] = head
    BY DEF Holds, Threaded
  <1>2. head \in S /\ head \in Slots
    <2>1. q[1] \in Elements(q)
      BY <1>1 DEF Elements
    <2> QED BY <1>1, <2>1 DEF Holds
  <1>3. /\ Tail(q) \in Seq(Slots)
        /\ Len(Tail(q)) = Len(q) - 1
        /\ \A i \in 1 .. Len(q) - 1 : Tail(q)[i] = q[i + 1]
    BY <1>1
  <1>4. Holds(Tail(q), Slots, S \ {head})
    <2>1. ASSUME NEW i \in 1 .. Len(Tail(q)), NEW j \in 1 .. Len(Tail(q)), Tail(q)[i] = Tail(q)[j]
          PROVE  i = j
      <3>1. i + 1 \in 1 .. Len(q) /\ j + 1 \in 1 .. Len(q) /\ q[i + 1] = q[j + 1]
        BY <1>1, <1>3, <2>1
      <3>2. i + 1 = j + 1
        BY <3>1 DEF Holds
      <3> QED BY <3>2
    <2>2. ASSUME NEW x \in Elements(Tail(q)) PROVE x \in S \ {head}
      <3>1. PICK i \in 1 .. Len(Tail(q)) : Tail(q)[i] = x
        BY DEF Elements
      <3>2. i + 1 \in 1 .. Len(q) /\ q[i + 1] = x
        BY <1>1, <1>3, <3>1
      <3>3. x \in S
        BY <3>2 DEF Holds, Elements
      <3>4. x # head
        BY <1>1, <3>1, <3>2 DEF Holds
      <3> QED BY <3>3, <3>4
    <2>3. ASSUME NEW x \in S \ {head} PROVE x \in Elements(Tail(q))
      <3>1. PICK i \in 1 .. Len(q) : q[i] = x
        BY DEF Holds, Elements
      <3>2. i # 1
        BY <1>1, <2>3, <3>1
      <3>3. i - 1 \in 1 .. Len(Tail(q)) /\ Tail(q)[i - 1] = x
        BY <1>1, <1>3, <3>1, <3>2
      <3> QED BY <3>3 DEF Elements
    <2> QED BY <1>3, <2>1, <2>2, <2>3 DEF Holds
  <1>5. links[head] = IF Tail(q) = << >> THEN MaxCount ELSE Tail(q)[1]
    <2>1. links[head] = IF Len(q) = 1 THEN MaxCount ELSE q[2]
      BY <1>1 DEF Threaded
    <2>2. Tail(q) = << >> <=> Len(q) = 1
      <3>1. Tail(q) = << >> <=> Len(Tail(q)) = 0
        BY <1>3, EmptySeq
      <3> QED BY <1>1, <1>3, <3>1
    <2>3. Len(q) # 1 => Tail(q)[1] = q[2]
      BY <1>1, <1>3
    <2> QED BY <2>1, <2>2, <2>3
  <1>6. ASSUME NEW i \in 1 .. Len(Tail(q))
        PROVE  [links EXCEPT ![head] = g][Tail(q)[i]]
                  = IF i = Len(Tail(q)) THEN MaxCount ELSE Tail(q)[i + 1]
    <2>1. i + 1 \in 1 .. Len(q) /\ Tail(q)[i] = q[i + 1]
      BY <1>1, <1>3
    <2>2. q[i + 1] # head /\ q[i + 1] \in Slots
      BY <1>1, <2>1 DEF Holds
    <2>3. links[q[i + 1]] = IF i + 1 = Len(q) THEN MaxCount ELSE q[i + 2]
      BY <2>1, <1>1 DEF Threaded
    <2>4. i + 1 # Len(q) => Tail(q)[i + 1] = q[i + 2]
      <3>1. i + 1 # Len(q) => i + 1 \in 1 .. Len(q) - 1 /\ (i + 1) + 1 = i + 2
        BY <1>1, <2>1
      <3> QED BY <1>3, <3>1
    <2>5. [links EXCEPT ![head] = g][Tail(q)[i]] = links[q[i + 1]]
      BY <2>1, <2>2
    <2>6. i = Len(Tail(q)) <=> i + 1 = Len(q)
      BY <1>1, <1>3
    <2> QED BY <2>3, <2>4, <2>5, <2>6
  <1> QED BY <1>2, <1>4, <1>5, <1>6 DEF Threaded

(* Pushing a slot that is not on the list keeps it threaded. *)
LEMMA PushThreaded ==
    ASSUME NEW q, NEW S, Holds(q, Slots, S), NEW head \in 0 .. MaxCount,
           NEW links \in [Slots -> Nat], Threaded(head, links, q), NEW s \in Slots, s \notin S
    PROVE  /\ Holds(<<s>> \o q, Slots, S \cup {s})
           /\ Threaded(s, [links EXCEPT ![s] = head], <<s>> \o q)
  <1> DEFINE r == <<s>> \o q
  <1>1. q \in Seq(Slots) /\ Len(q) \in Nat /\ \A i \in 1 .. Len(q) : q[i] \in S /\ q[i] \in Slots
    BY DEF Holds, Elements
  <1>2. /\ r \in Seq(Slots) /\ Len(r) = Len(q) + 1
        /\ \A i \in 1 .. Len(q) + 1 : r[i] = IF i = 1 THEN s ELSE q[i - 1]
    BY <1>1, ConcatProperties
  <1>3. Holds(r, Slots, S \cup {s})
    BY PrependHolds
  <1> HIDE DEF r
  <1>4. s = IF r = << >> THEN MaxCount ELSE r[1]
    BY <1>1, <1>2
  <1>5. ASSUME NEW i \in 1 .. Len(r)
        PROVE  [links EXCEPT ![s] = head][r[i]] = IF i = Len(r) THEN MaxCount ELSE r[i + 1]
    <2>1. CASE i = 1
      <3>1. r[i] = s /\ [links EXCEPT ![s] = head][s] = head
        BY <1>1, <1>2, <2>1
      <3>2. head = IF Len(q) = 0 THEN MaxCount ELSE q[1]
        BY <1>1 DEF Threaded
      <3>3. Len(q) # 0 => r[2] = q[1]
        BY <1>1, <1>2
      <3> QED BY <1>1, <1>2, <2>1, <3>1, <3>2, <3>3
    <2>2. CASE i # 1
      <3>1. i - 1 \in 1 .. Len(q) /\ r[i] = q[i - 1] /\ r[i] # s /\ r[i] \in Slots
        BY <1>1, <1>2, <2>2
      <3>2. links[q[i - 1]] = IF i - 1 = Len(q) THEN MaxCount ELSE q[i]
        BY <3>1, <1>1 DEF Threaded
      <3>3. i - 1 # Len(q) => r[i + 1] = q[i]
        <4>1. i - 1 # Len(q) => i + 1 \in 1 .. Len(q) + 1 /\ i + 1 # 1 /\ (i + 1) - 1 = i
          BY <1>1, <3>1
        <4> QED BY <1>2, <4>1
      <3> QED BY <1>1, <1>2, <3>1, <3>2, <3>3
    <2> QED BY <2>1, <2>2
  <1> QED BY <1>3, <1>4, <1>5 DEF Threaded, r

(* The list that Clear builds runs through all slots. *)
LEMMA ClearedThreaded ==
    LET all == [i \in 1 .. MaxCount |-> i - 1]
    IN  Holds(all, Slots, Slots) /\ Threaded(0, ClearedGenerations, all)
  <1> DEFINE all == [i \in 1 .. MaxCount |-> i - 1]
  <1> USE MaxCountAssumption
  <1>1. all \in Seq(Slots) /\ Len(all) = MaxCount /\ \A i \in 1 .. MaxCount : all[i] = i - 1
    BY DEF Slots
  <1> HIDE DEF all
  <1>2. Elements(all) = Slots
    <2>1. ASSUME NEW s \in Slots PROVE s \in Elements(all)
      <3>1. s + 1 \in 1 .. Len(all) /\ all[s + 1] = s
        BY <1>1 DEF Slots
      <3> QED BY <3>1 DEF Elements
    <2>2. Elements(all) \subseteq Slots
      BY <1>1 DEF Elements, Slots
    <2> QED BY <2>1, <2>2
  <1>3. Holds(all, Slots, Slots)
    BY <1>1, <1>2 DEF Holds
  <1>4. all # << >>
    BY <1>1
  <1>5. Threaded(0, ClearedGenerations, all)
    BY <1>1, <1>4 DEF Threaded, ClearedGenerations, Slots
  <1> QED BY <1>3, <1>5 DEF all

-----------------------------------------------------------------------------
(* The window of issued handles *)

(* The i-th remembered handle carries the generation the counter had       *)
(* Len(recent) - i + 1 creations ago, on a wheel of MaxGen - 1 values.      *)
GenerationAgo(g, n) == IF g - n >= 1 THEN g - n ELSE g - n + (MaxGen - 1)

WindowExact ==
    /\ recent \in Seq(Nat)
    /\ Len(recent) <= MaxGen - 1
    /\ \A i \in 1 .. Len(recent) :
          GetGeneration(recent[i]) = GenerationAgo(next_generation, Len(recent) - i + 1)

(* Within one turn of the wheel all generations differ. *)
LEMMA WindowMeaning ==
    ASSUME next_generation \in Generations, WindowExact
    PROVE  NoEarlyReuse
  <1> SUFFICES ASSUME NEW i \in 1 .. Len(recent), NEW j \in 1 .. Len(recent),
                      GetGeneration(recent[i]) = GetGeneration(recent[j])
               PROVE  i = j
    BY DEF NoEarlyReuse
  <1>1. GenerationAgo(next_generation, Len(recent) - i + 1)
          = GenerationAgo(next_generation, Len(recent) - j + 1)
    BY DEF WindowExact
  <1>2. Len(recent) \in Nat /\ Len(recent) <= MaxGen - 1
    BY DEF WindowExact
  <1> QED BY <1>1, <1>2, MaxGenAssumption DEF GenerationAgo, Generations

(* Remembering the handle that Create issues turns the wheel by one. *)
LEMMA RememberWindow ==
    ASSUME next_generation \in Generations, WindowExact, NEW slot \in Nat,
           next_generation' = NextGeneration(next_generation),
           recent' = Remember(MakeHandle(slot, next_generation))
    PROVE  next_generation' \in Generations /\ WindowExact'
  <1> DEFINE h == MakeHandle(slot, next_generation)
             a == Append(recent, h)
  <1> USE MaxGenAssumption
  <1>1. h \in Nat /\ GetGeneration(h) = next_generation
    BY PackedGeneration
  <1> HIDE DEF h
  <1>2. next_generation' \in Generations
    BY DEF NextGeneration, Generations
  <1>3. recent \in Seq(Nat) /\ Len(recent) \in Nat /\ Len(recent) <= MaxGen - 1
    BY DEF WindowExact
  <1>4. /\ a \in Seq(Nat) /\ Len(a) = Len(recent) + 1
        /\ \A i \in 1 .. Len(recent) : a[i] = recent[i]
        /\ a[Len(recent) + 1] = h
    BY <1>1, <1>3
  <1> HIDE DEF a
  <1>5. ASSUME NEW i \in 1 .. Len(a), Len(a) - i + 1 <= MaxGen - 1
        PROVE  GetGeneration(a[i]) = GenerationAgo(next_generation', Len(a) - i + 1)
    <2>1. CASE i = Len(recent) + 1
      <3>1. GetGeneration(a[i]) = next_generation
        BY <1>1, <1>4, <2>1
      <3>2. GenerationAgo(next_generation', 1) = next_generation
        BY DEF NextGeneration, Generations, GenerationAgo
      <3>3. Len(a) - i + 1 = 1
        BY <1>3, <1>4, <2>1
      <3> QED BY <3>1, <3>2, <3>3
    <2>2. CASE i # Len(recent) + 1
      <3> DEFINE n == Len(recent) - i + 1
      <3>0. Len(a) = Len(recent) + 1 /\ i \in 1 .. Len(a) /\ Len(a) - i + 1 <= MaxGen - 1
        BY <1>4, <1>5
      <3>1. i \in 1 .. Len(recent) /\ n \in Nat /\ n >= 1 /\ n + 1 <= MaxGen - 1
        BY <1>3, <2>2, <3>0
      <3>2. GetGeneration(a[i]) = GenerationAgo(next_generation, n)
        BY <1>4, <3>1 DEF WindowExact
      <3>3. Len(a) - i + 1 = n + 1
        BY <1>3, <1>4, <3>1
      <3> HIDE DEF n
      <3>4. GenerationAgo(next_generation, n) = GenerationAgo(next_generation', n + 1)
        BY <3>1 DEF NextGeneration, Generations, GenerationAgo
      <3> QED BY <3>2, <3>3, <3>4
    <2> QED BY <2>1, <2>2
  <1>6. CASE Len(a) <= MaxGen - 1
    <2>1. recent' = a
      BY <1>6 DEF Remember, a, h
    <2>2. ASSUME NEW i \in 1 .. Len(a)
          PROVE  GetGeneration(a[i]) = GenerationAgo(next_generation', Len(a) - i + 1)
      BY <1>3, <1>4, <1>5, <1>6
    <2> QED BY <1>2, <1>4, <1>6, <2>1, <2>2 DEF WindowExact
  <1>7. CASE ~(Len(a) <= MaxGen - 1)
    <2>1. recent' = Tail(a) /\ a # << >> /\ Len(a) = MaxGen
      <3>1. recent' = Tail(a)
        BY <1>7 DEF Remember, a, h
      <3>2. Len(a) = MaxGen
        BY <1>3, <1>4, <1>7
      <3>3. a # << >>
        BY <3>2, EmptySeq
      <3> QED BY <3>1, <3>2, <3>3
    <2>2. /\ Tail(a) \in Seq(Nat) /\ Len(Tail(a)) = Len(a) - 1
          /\ \A i \in 1 .. Len(a) - 1 : Tail(a)[i] = a[i + 1]
      BY <1>4, <2>1
    <2>3. ASSUME NEW i \in 1 .. Len(Tail(a))
          PROVE  GetGeneration(Tail(a)[i])
                    = GenerationAgo(next_generation', Len(Tail(a)) - i + 1)
      <3>1. /\ i + 1 \in 1 .. Len(a) /\ Tail(a)[i] = a[i + 1]
            /\ Len(a) - (i + 1) + 1 = Len(Tail(a)) - i + 1
            /\ Len(a) - (i + 1) + 1 <= MaxGen - 1
        BY <1>3, <1>4, <2>1, <2>2
      <3> QED BY <1>5, <3>1
    <2> QED BY <1>2, <2>1, <2>2, <2>3 DEF WindowExact
  <1> QED BY <1>6, <1>7

-----------------------------------------------------------------------------
(* The inductive invariant *)

IInv ==
    /\ TypeOK
    /\ Threaded(next_free_slot, generations, free)
    /\ Holds(free, Slots, FreeSlots)
    /\ WindowExact

(* The types that TypeOK gives, without the cases of `generations'. *)
LEMMA PlainTypes ==
    ASSUME TypeOK
    PROVE  /\ generations \in [Slots -> Nat]
           /\ next_generation \in Nat
           /\ free \in Seq(Slots)
  BY MaxCountAssumption, MaxGenAssumption DEF TypeOK, Generations

(* The invariant holds for the table the constructor builds. *)
LEMMA InitIInv == Init => IInv
  <1> SUFFICES ASSUME Init PROVE IInv
    OBVIOUS
  <1> USE MaxCountAssumption, MaxGenAssumption
  <1>1. /\ Threaded(next_free_slot, generations, free)
        /\ Holds(free, Slots, Slots)
    BY ClearedThreaded DEF Init
  <1>2. FreeSlots = Slots
    BY DEF Init, FreeSlots, ClearedObjects
  <1>3. TypeOK
    <2>1. free \in Seq(Slots)
      BY <1>1 DEF Holds
    <2>2. objects \in [Slots -> Objects \cup {Null}]
      BY DEF Init, ClearedObjects
    <2>3. generations \in [Slots -> (0 .. MaxCount) \cup Generations]
      BY DEF Init, ClearedGenerations, Slots
    <2> QED BY <2>1, <2>2, <2>3 DEF Init, TypeOK, Generations
  <1>4. WindowExact
    BY DEF Init, WindowExact
  <1> QED BY <1>1, <1>2, <1>3, <1>4 DEF IInv

(* HandleTable::Create keeps the invariant. *)
LEMMA CreateStep ==
    ASSUME IInv, NEW obj \in Objects, Create(obj)
    PROVE  IInv'
  <1> DEFINE slot == next_free_slot
  <1>1. /\ slot \in 0 .. MaxCount /\ slot < MaxCount
        /\ next_free_slot' = generations[slot]
        /\ next_generation' = NextGeneration(next_generation)
        /\ generations' = [generations EXCEPT ![slot] = next_generation]
        /\ objects' = [objects EXCEPT ![slot] = obj]
        /\ free' = Tail(free)
        /\ recent' = Remember(MakeHandle(slot, next_generation))
    BY DEF Create, IInv, TypeOK
  <1>2. /\ slot \in FreeSlots /\ slot \in Slots
        /\ Holds(free', Slots, FreeSlots \ {slot})
        /\ Threaded(next_free_slot, generations, free)'
    BY <1>1, PlainTypes, PopThreaded DEF IInv
  <1>3. FreeSlots' = FreeSlots \ {slot}
    BY <1>1, <1>2, NullAssumption DEF FreeSlots, IInv, TypeOK
  <1>4. next_generation' \in Generations /\ WindowExact'
    <2>1. slot \in Nat
      BY <1>1, MaxCountAssumption
    <2> QED BY <1>1, <2>1, RememberWindow DEF IInv, TypeOK
  <1>5. TypeOK'
    <2>1. next_free_slot' \in 0 .. MaxCount
      <3>1. /\ free' \in Seq(Slots)
            /\ next_free_slot' = IF free' = << >> THEN MaxCount ELSE free'[1]
        BY <1>2 DEF Holds, Threaded
      <3>2. free' # << >> => free'[1] \in Slots
        BY <3>1, EmptySeq
      <3> QED BY <3>1, <3>2, MaxCountAssumption DEF Slots
    <2>2. generations' \in [Slots -> (0 .. MaxCount) \cup Generations]
      BY <1>1, <1>2 DEF IInv, TypeOK
    <2>3. objects' \in [Slots -> Objects \cup {Null}]
      BY <1>1, <1>2 DEF IInv, TypeOK
    <2>4. free' \in Seq(Slots) /\ recent' \in Seq(Nat)
      BY <1>2, <1>4 DEF Holds, WindowExact
    <2> QED BY <1>4, <2>1, <2>2, <2>3, <2>4 DEF TypeOK
  <1> QED BY <1>2, <1>3, <1>4, <1>5 DEF IInv

(* HandleTable::Close keeps the invariant. *)
LEMMA CloseStep ==
    ASSUME IInv, NEW handle \in Handles, Close(handle)
    PROVE  IInv'
  <1> DEFINE slot == GetSlot(handle)
  <1>1. /\ objects' = [objects EXCEPT ![slot] = Null]
        /\ generations' = [generations EXCEPT ![slot] = next_free_slot]
        /\ next_free_slot' = slot
        /\ free' = <<slot>> \o free
        /\ UNCHANGED <<next_generation, recent>>
    BY DEF Close
  <1>2. slot \in Slots /\ objects[slot] \in Objects
    BY ValidSlot DEF Close, IInv
  <1> HIDE DEF slot
  <1>3. slot \notin FreeSlots
    BY <1>2, NullAssumption DEF FreeSlots
  <1>4. /\ Holds(free', Slots, FreeSlots \cup {slot})
        /\ Threaded(next_free_slot, generations, free)'
    <2>1. next_free_slot \in 0 .. MaxCount
      BY DEF IInv, TypeOK
    <2> QED BY <1>1, <1>2, <1>3, <2>1, PlainTypes, PushThreaded DEF IInv
  <1>5. FreeSlots' = FreeSlots \cup {slot}
    BY <1>1, <1>2 DEF FreeSlots, IInv, TypeOK
  <1>6. WindowExact'
    BY <1>1 DEF IInv, WindowExact
  <1>7. TypeOK'
    <2>1. free' \in Seq(Slots)
      BY <1>4 DEF Holds
    <2>2. slot \in 0 .. MaxCount
      BY <1>2, MaxCountAssumption DEF Slots
    <2> QED BY <1>1, <1>2, <2>1, <2>2 DEF IInv, TypeOK
  <1> QED BY <1>4, <1>5, <1>6, <1>7 DEF IInv

(* HandleTable::Clear keeps the invariant. *)
LEMMA ClearStep ==
    ASSUME IInv, Clear
    PROVE  IInv'
  <1> USE MaxCountAssumption
  <1>1. /\ Threaded(next_free_slot, generations, free)'
        /\ Holds(free', Slots, Slots)
    BY ClearedThreaded DEF Clear
  <1>2. FreeSlots' = Slots
    BY DEF Clear, FreeSlots, ClearedObjects
  <1>3. TypeOK'
    <2>1. free' \in Seq(Slots)
      BY <1>1 DEF Holds
    <2>2. objects' \in [Slots -> Objects \cup {Null}]
      BY DEF Clear, ClearedObjects
    <2>3. generations' \in [Slots -> (0 .. MaxCount) \cup Generations]
      BY DEF Clear, ClearedGenerations, Slots
    <2> QED BY <2>1, <2>2, <2>3 DEF Clear, IInv, TypeOK
  <1>4. WindowExact'
    BY DEF Clear, IInv, WindowExact
  <1> QED BY <1>1, <1>2, <1>3, <1>4 DEF IInv

(* Every operation of the table keeps the invariant. *)
LEMMA NextIInv == IInv /\ [Next]_vars => IInv'
  <1> SUFFICES ASSUME IInv, [Next]_vars PROVE IInv'
    OBVIOUS
  <1>1. ASSUME NEW obj \in Objects, Create(obj) PROVE IInv'
    BY <1>1, CreateStep
  <1>2. ASSUME NEW handle \in Handles, Duplicate(handle) PROVE IInv'
    <2>1. IsValid(handle)
      BY <1>2 DEF Duplicate, GetGeneric
    <2>2. GetGeneric(handle) \in Objects
      BY <2>1, ValidSlot DEF GetGeneric, IInv
    <2> QED BY <1>2, <2>2, CreateStep DEF Duplicate
  <1>3. ASSUME NEW handle \in Handles, Close(handle) PROVE IInv'
    BY <1>3, CloseStep
  <1>4. CASE Clear
    BY <1>4, ClearStep
  <1>5. CASE UNCHANGED vars
    BY <1>5 DEF vars, IInv, TypeOK, FreeSlots, WindowExact
  <1> QED BY <1>1, <1>2, <1>3, <1>4, <1>5 DEF Next, CreateFails

(* IInv is an invariant of the handle table. *)
THEOREM Invariant == Spec => []IInv
  BY InitIInv, NextIInv, PTL DEF Spec

(* Every variable of the handle table keeps its type; next_generation never *)
(* leaves 1 .. MaxGen - 1, so no generation spills into the slot bits.      *)
THEOREM TypeCorrect == Spec => []TypeOK
  <1>1. IInv => TypeOK
    BY DEF IInv
  <1> QED BY <1>1, Invariant, PTL

(* The free list threaded through `generations' holds every free slot once  *)
(* and no allocated one, for a table of any size.                           *)
THEOREM FreeListCorrect == Spec => []FreeListExact
  <1>1. IInv => FreeListExact
    BY PlainTypes, FreeListForm DEF IInv
  <1> QED BY <1>1, Invariant, PTL

(* No handle is issued twice within MaxGen - 1 consecutive creations, even  *)
(* across Clear.                                                            *)
THEOREM NoEarlyReuseCorrect == Spec => []NoEarlyReuse
  <1>1. IInv => NoEarlyReuse
    BY WindowMeaning DEF IInv, TypeOK
  <1> QED BY <1>1, Invariant, PTL

-----------------------------------------------------------------------------
(* The table as a map from handles to objects *)

(* A handle that Create can return is its slot and its generation. *)
LEMMA IssuedUnpacked ==
    ASSUME NEW h \in IssuedHandles
    PROVE  /\ h \in Handles
           /\ GetSlot(h) \in Slots /\ GetGeneration(h) \in 0 .. MaxGen - 1
           /\ h = MakeHandle(GetSlot(h), GetGeneration(h))
  <1> USE MaxGenAssumption, MaxCountAssumption, SlotWidthAssumption
  <1> DEFINE q == h \div MaxGen
             r == h % MaxGen
  <1>1. h \in Nat /\ h < MaxCount * MaxGen
    BY DEF IssuedHandles
  <1>2. q \in Nat /\ r \in 0 .. MaxGen - 1 /\ h = q * MaxGen + r
    BY <1>1
  <1>3. q < MaxCount
    <2> HIDE DEF q, r
    <2> SUFFICES ASSUME q >= MaxCount PROVE FALSE
      BY <1>2
    <2>1. q * MaxGen >= MaxCount * MaxGen
      BY <1>2
    <2> QED BY <1>1, <1>2, <2>1
  <1>4. q % SlotWidth = q
    <2> HIDE DEF q
    <2> QED BY <1>2, <1>3
  <1>5. h \in Handles
    <2>1. MaxCount * MaxGen <= SlotWidth * MaxGen /\ SlotWidth * MaxGen \in Nat
      OBVIOUS
    <2>2. 2 * SlotWidth * MaxGen = SlotWidth * MaxGen + SlotWidth * MaxGen
      OBVIOUS
    <2> QED BY <1>1, <2>1, <2>2 DEF Handles
  <1> QED BY <1>2, <1>3, <1>4, <1>5 DEF GetSlot, GetGeneration, MakeHandle, Slots

(* A slot and a generation are packed into a handle that gives both back. *)
LEMMA PackedHandle ==
    ASSUME NEW slot \in Slots, NEW g \in 0 .. MaxGen - 1
    PROVE  /\ MakeHandle(slot, g) \in IssuedHandles
           /\ GetSlot(MakeHandle(slot, g)) = slot
           /\ GetGeneration(MakeHandle(slot, g)) = g
  <1> USE MaxGenAssumption, MaxCountAssumption, SlotWidthAssumption
  <1> DEFINE h == g + slot * MaxGen
  <1>1. slot \in Nat /\ slot <= MaxCount - 1 /\ slot * MaxGen \in Nat
    BY DEF Slots
  <1>2. h % MaxGen = g /\ h \div MaxGen = slot
    BY <1>1
  <1>3. h \in Nat /\ h < MaxCount * MaxGen
    <2>1. slot * MaxGen <= (MaxCount - 1) * MaxGen
      BY <1>1
    <2>2. (MaxCount - 1) * MaxGen = MaxCount * MaxGen - MaxGen
      OBVIOUS
    <2> QED BY <1>1, <2>1, <2>2
  <1>4. slot % SlotWidth = slot
    BY <1>1
  <1> QED BY <1>2, <1>3, <1>4 DEF GetSlot, GetGeneration, MakeHandle, IssuedHandles

(* Two handles with the same slot and generation are the same handle. *)
LEMMA SameHandle ==
    ASSUME NEW h \in IssuedHandles, NEW k \in IssuedHandles,
           GetSlot(h) = GetSlot(k), GetGeneration(h) = GetGeneration(k)
    PROVE  h = k
  BY IssuedUnpacked

(* IsValid, spelled out for a handle in the form Create returns it. *)
LEMMA LiveMeaning ==
    ASSUME NEW h
    PROVE  h \in LiveHandles <=> /\ h \in IssuedHandles
                                 /\ objects[GetSlot(h)] # Null
                                 /\ generations[GetSlot(h)] = GetGeneration(h)
  <1>1. h \in IssuedHandles => GetSlot(h) < MaxCount
    BY IssuedUnpacked, MaxCountAssumption DEF Slots
  <1> QED BY <1>1 DEF LiveHandles, IsValid

(* What the map holds for a handle is the object in its slot. *)
LEMMA MapMeaning ==
    /\ DOMAIN MapOfTable = LiveHandles
    /\ \A h \in LiveHandles : MapOfTable[h] = objects[GetSlot(h)]
  BY DEF MapOfTable, LiveHandles, GetGeneric

(* A table with a free slot has fewer than MaxCount live handles: each of   *)
(* them owns a slot of its own.                                             *)
LEMMA RoomLeft ==
    ASSUME NEW slot \in Slots, objects[slot] = Null
    PROVE  Map!Cardinality(LiveHandles) < MaxCount
  <1> DEFINE f == [h \in LiveHandles |-> GetSlot(h)]
             T == Slots \ {slot}
  <1>1. f \in [LiveHandles -> T]
    BY LiveMeaning, IssuedUnpacked
  <1>2. \A h, k \in LiveHandles : f[h] = f[k] => h = k
    BY LiveMeaning, SameHandle
  <1>3. f \in Injection(LiveHandles, T)
    BY <1>1, <1>2 DEF Injection, IsInjective
  <1>4. IsFiniteSet(Slots) /\ Cardinality(Slots) = MaxCount
    BY FS_Interval, MaxCountAssumption DEF Slots
  <1>5. IsFiniteSet(T) /\ Cardinality(T) = MaxCount - 1
    BY <1>4, FS_RemoveElement
  <1> HIDE DEF f, T
  <1>6. IsFiniteSet(LiveHandles) /\ Cardinality(LiveHandles) <= MaxCount - 1
    BY <1>3, <1>5, FS_Injection
  <1>7. Cardinality(LiveHandles) \in Nat
    BY <1>6, FS_CardinalityType
  <1>8. Map!Cardinality(LiveHandles) = Cardinality(LiveHandles)
    BY DEF Map!Cardinality, Cardinality
  <1> QED BY <1>6, <1>7, <1>8, MaxCountAssumption

(* HandleTable::Create adds one handle that denoted nothing. *)
LEMMA CreateRefines ==
    ASSUME IInv, NEW obj \in Objects, Create(obj)
    PROVE  \E h \in IssuedHandles : Map!Create(h, obj)
  <1> DEFINE slot == next_free_slot
             new == MakeHandle(slot, next_generation)
  <1>1. /\ slot \in 0 .. MaxCount /\ slot < MaxCount
        /\ generations' = [generations EXCEPT ![slot] = next_generation]
        /\ objects' = [objects EXCEPT ![slot] = obj]
        /\ objects \in [Slots -> Objects \cup {Null}]
        /\ generations \in [Slots -> (0 .. MaxCount) \cup Generations]
        /\ next_generation \in 0 .. MaxGen - 1
    BY MaxGenAssumption DEF Create, IInv, TypeOK, Generations
  <1>2. slot \in Slots /\ objects[slot] = Null
    <2>1. slot \in FreeSlots
      BY <1>1, PlainTypes, PopThreaded DEF IInv
    <2> QED BY <2>1 DEF FreeSlots
  <1> HIDE DEF slot
  <1>3. new \in IssuedHandles /\ GetSlot(new) = slot /\ GetGeneration(new) = next_generation
    BY <1>1, <1>2, PackedHandle
  <1> HIDE DEF new
  <1>4. new \notin LiveHandles
    BY <1>2, <1>3, LiveMeaning
  <1>5. ASSUME NEW h \in IssuedHandles
        PROVE  /\ h \in LiveHandles' <=> h \in LiveHandles \/ h = new
               /\ h \in LiveHandles /\ h # new => objects'[GetSlot(h)] = objects[GetSlot(h)]
    <2>1. h \in LiveHandles' <=> /\ objects'[GetSlot(h)] # Null
                                 /\ generations'[GetSlot(h)] = GetGeneration(h)
      <3>1. GetSlot(h) < MaxCount
        BY IssuedUnpacked, MaxCountAssumption DEF Slots
      <3> QED BY <3>1 DEF LiveHandles, IsValid
    <2>2. GetSlot(h) \in Slots
      BY IssuedUnpacked
    <2>3. CASE GetSlot(h) = slot
      <3>1. objects'[slot] = obj /\ obj # Null /\ generations'[slot] = next_generation
        BY <1>1, <1>2, NullAssumption
      <3>2. h \notin LiveHandles
        BY <1>2, <2>3, LiveMeaning
      <3>3. GetGeneration(h) = next_generation <=> h = new
        BY <1>3, <2>3, SameHandle
      <3> QED BY <2>1, <2>3, <3>1, <3>2, <3>3
    <2>4. CASE GetSlot(h) # slot
      <3>1. /\ objects'[GetSlot(h)] = objects[GetSlot(h)]
            /\ generations'[GetSlot(h)] = generations[GetSlot(h)]
        BY <1>1, <2>2, <2>4
      <3> QED BY <1>3, <2>1, <2>4, <3>1, LiveMeaning
    <2> QED BY <2>3, <2>4
  <1>6. LiveHandles' = LiveHandles \cup {new}
    BY <1>3, <1>5 DEF LiveHandles
  <1>7. MapOfTable' = [k \in LiveHandles \cup {new} |->
                          IF k = new THEN obj ELSE MapOfTable[k]]
    <2>1. MapOfTable' = [k \in LiveHandles' |-> objects'[GetSlot(k)]]
      BY DEF MapOfTable, LiveHandles, GetGeneric
    <2>2. objects'[GetSlot(new)] = obj
      BY <1>1, <1>2, <1>3
    <2>3. \A k \in LiveHandles : objects'[GetSlot(k)] = MapOfTable[k]
      BY <1>4, <1>5, MapMeaning DEF LiveHandles
    <2> QED BY <1>4, <1>6, <2>1, <2>2, <2>3
  <1>8. Map!Cardinality(DOMAIN MapOfTable) < MaxCount
    BY <1>2, RoomLeft, MapMeaning
  <1>9. Map!Create(new, obj)
    BY <1>3, <1>4, <1>7, <1>8, MapMeaning DEF Map!Create
  <1> QED BY <1>3, <1>9

(* HandleTable::Close forgets one handle and leaves the others alone. *)
LEMMA CloseRefines ==
    ASSUME IInv, NEW handle \in Handles, Close(handle)
    PROVE  \E h \in IssuedHandles : Map!Close(h)
  <1> DEFINE slot == GetSlot(handle)
             old == MakeHandle(slot, GetGeneration(handle))
  <1>1. /\ objects' = [objects EXCEPT ![slot] = Null]
        /\ generations' = [generations EXCEPT ![slot] = next_free_slot]
        /\ generations[slot] = GetGeneration(handle)
        /\ objects[slot] # Null
        /\ objects \in [Slots -> Objects \cup {Null}]
        /\ generations \in [Slots -> (0 .. MaxCount) \cup Generations]
    BY DEF Close, IsValid, IInv, TypeOK
  <1>2. slot \in Slots
    BY ValidSlot DEF Close, IInv
  <1>3. GetGeneration(handle) \in 0 .. MaxGen - 1
    BY MaxGenAssumption, SlotWidthAssumption DEF GetGeneration, Handles
  <1> HIDE DEF slot
  <1>4. old \in IssuedHandles /\ GetSlot(old) = slot /\ GetGeneration(old) = GetGeneration(handle)
    BY <1>2, <1>3, PackedHandle
  <1> HIDE DEF old
  <1>5. old \in LiveHandles
    BY <1>1, <1>4, LiveMeaning
  <1>6. ASSUME NEW h \in IssuedHandles
        PROVE  /\ h \in LiveHandles' <=> h \in LiveHandles /\ h # old
               /\ h \in LiveHandles' => objects'[GetSlot(h)] = objects[GetSlot(h)]
    <2>1. h \in LiveHandles' <=> /\ objects'[GetSlot(h)] # Null
                                 /\ generations'[GetSlot(h)] = GetGeneration(h)
      <3>1. GetSlot(h) < MaxCount
        BY IssuedUnpacked, MaxCountAssumption DEF Slots
      <3> QED BY <3>1 DEF LiveHandles, IsValid
    <2>2. GetSlot(h) \in Slots
      BY IssuedUnpacked
    <2>3. CASE GetSlot(h) = slot
      <3>1. h \notin LiveHandles'
        BY <1>1, <1>2, <2>1, <2>3
      <3>2. h \in LiveHandles => h = old
        BY <1>1, <1>4, <2>3, SameHandle, LiveMeaning
      <3> QED BY <3>1, <3>2
    <2>4. CASE GetSlot(h) # slot
      <3>1. /\ objects'[GetSlot(h)] = objects[GetSlot(h)]
            /\ generations'[GetSlot(h)] = generations[GetSlot(h)]
        BY <1>1, <2>2, <2>4
      <3> QED BY <1>4, <2>1, <2>4, <3>1, LiveMeaning
    <2> QED BY <2>3, <2>4
  <1>7. LiveHandles' = LiveHandles \ {old}
    BY <1>6 DEF LiveHandles
  <1>8. MapOfTable' = [k \in LiveHandles \ {old} |-> MapOfTable[k]]
    <2>1. MapOfTable' = [k \in LiveHandles' |-> objects'[GetSlot(k)]]
      BY DEF MapOfTable, LiveHandles, GetGeneric
    <2>2. \A k \in LiveHandles' : objects'[GetSlot(k)] = MapOfTable[k]
      BY <1>6, <1>7, MapMeaning DEF LiveHandles
    <2> QED BY <1>7, <2>1, <2>2
  <1>9. Map!Close(old)
    BY <1>5, <1>8, MapMeaning DEF Map!Close
  <1> QED BY <1>4, <1>9

(* A table without objects is the empty map. *)
LEMMA ClearedMap ==
    ASSUME objects = ClearedObjects
    PROVE  MapOfTable = << >>
  <1>1. LiveHandles = {}
    BY LiveMeaning, IssuedUnpacked DEF ClearedObjects
  <1> QED BY <1>1 DEF MapOfTable

(* Every operation of the table is an operation of the map or changes       *)
(* nothing in it.                                                           *)
LEMMA RefinementStep == IInv /\ [Next]_vars => Map!Next \/ MapOfTable' = MapOfTable
  <1> SUFFICES ASSUME IInv, [Next]_vars PROVE Map!Next \/ MapOfTable' = MapOfTable
    OBVIOUS
  <1>1. ASSUME NEW obj \in Objects, Create(obj) PROVE Map!Next
    BY <1>1, CreateRefines DEF Map!Next
  <1>2. ASSUME NEW handle \in Handles, Duplicate(handle) PROVE Map!Next
    <2>1. IsValid(handle)
      BY <1>2 DEF Duplicate, GetGeneric
    <2>2. GetGeneric(handle) \in Objects
      BY <2>1, ValidSlot DEF GetGeneric, IInv
    <2> QED BY <1>2, <2>2, CreateRefines DEF Duplicate, Map!Next
  <1>3. ASSUME NEW handle \in Handles, Close(handle) PROVE Map!Next
    BY <1>3, CloseRefines DEF Map!Next
  <1>4. CASE Clear
    <2>1. (objects = ClearedObjects)'
      BY <1>4 DEF Clear, ClearedObjects
    <2>2. (MapOfTable = << >>)'
      BY <2>1, ClearedMap, PTL
    <2> QED BY <2>2 DEF Map!Clear, Map!Next
  <1>5. CASE UNCHANGED vars
    BY <1>5 DEF vars, MapOfTable, LiveHandles, GetGeneric, IsValid
  <1> QED BY <1>1, <1>2, <1>3, <1>4, <1>5 DEF Next, CreateFails

(* The handle table implements the partial map of handle_table.h, for every *)
(* size of the table and of the generation counter: a new handle denotes    *)
(* nothing before, Close forgets exactly one, and no operation on a handle  *)
(* changes what another one denotes.                                        *)
THEOREM MapRefined == Spec => ImplementsMap
  <1>1. Init => Map!Init
    BY ClearedMap DEF Init, Map!Init
  <1>2. IInv /\ [Next]_vars => [Map!Next]_MapOfTable
    BY RefinementStep
  <1> QED BY <1>1, <1>2, Invariant, PTL DEF Spec, ImplementsMap, Map!Spec
=============================================================================
