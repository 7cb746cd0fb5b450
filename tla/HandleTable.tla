---------------------------- MODULE HandleTable ----------------------------
(***************************************************************************)
(* The per-process handle table of the HLE kernel                          *)
(* (src/src/core/hle/kernel/handle_table.cpp and .h).                      *)
(*                                                                         *)
(* A handle is an integer that packs a slot number and a generation.  The  *)
(* array `generations' does two jobs: for an allocated slot it holds the   *)
(* generation of the handle that names it, for a free slot it holds the    *)
(* index of the next free slot.  next_free_slot is the head of that list.  *)
(*                                                                         *)
(* Two history variables, written and never read by the operations, say    *)
(* what the table promises: `free' is the free list in order and `recent'  *)
(* is the window of the last MaxGen - 1 handles that were issued.          *)
(***************************************************************************)
EXTENDS Integers, Sequences

CONSTANTS
    Objects,   \* kernel objects a handle can denote
    Null,      \* the null shared_ptr
    MaxCount,  \* HandleTable::MAX_COUNT, 4096 in the code
    MaxGen,    \* 1 << 15 in the code: generations are 1 .. MaxGen - 1
    SlotWidth  \* 1 << 16 in the code: GetSlot returns a u16

ASSUME MaxCountAssumption == MaxCount \in Nat \ {0}
ASSUME MaxGenAssumption == MaxGen \in Nat /\ MaxGen > 1
ASSUME SlotWidthAssumption == SlotWidth \in Nat /\ SlotWidth > MaxCount
ASSUME NullAssumption == Null \notin Objects

VARIABLES objects, generations, next_generation, next_free_slot, free, recent

vars == <<objects, generations, next_generation, next_free_slot, free, recent>>

Slots == 0 .. MaxCount - 1
Generations == 1 .. MaxGen - 1

-----------------------------------------------------------------------------
(* The packing of a handle: generation | (slot << 15).  A generation is     *)
(* always below 1 << 15, so the bitwise or is a sum.                        *)
MakeHandle(slot, generation) == generation + slot * MaxGen
GetGeneration(handle) == handle % MaxGen

(* handle >> 15 cut to 16 bits: bit 31 of a handle is ignored. *)
GetSlot(handle) == (handle \div MaxGen) % SlotWidth

(* Every 32-bit value a program may pass, and the ones Create can return. *)
Handles == 0 .. 2 * SlotWidth * MaxGen - 1
IssuedHandles == 0 .. MaxCount * MaxGen - 1

(* Faulty variant: the generation is not compared. *)
IsValidIgnoringGeneration(handle) ==
    /\ GetSlot(handle) < MaxCount
    /\ objects[GetSlot(handle)] # Null

(* HandleTable::IsValid *)
IsValid(handle) ==
    /\ GetSlot(handle) < MaxCount
    /\ objects[GetSlot(handle)] # Null
    /\ generations[GetSlot(handle)] = GetGeneration(handle)

(* HandleTable::GetGeneric.  The pseudo handles CurrentThread and           *)
(* CurrentProcess never reach the table and are left out.                   *)
GetGeneric(handle) == IF IsValid(handle) THEN objects[GetSlot(handle)] ELSE Null

(* Faulty variants: no wrap; a wrap one generation too early. *)
NextGenerationNoWrap(g) == g + 1
NextGenerationEarlyWrap(g) == IF g + 1 >= MaxGen - 1 THEN 1 ELSE g + 1

(* next_generation++ with its wrap: generation 0 is skipped. *)
NextGeneration(g) == IF g + 1 >= MaxGen THEN 1 ELSE g + 1

-----------------------------------------------------------------------------
(* HandleTable::Clear, as the constructor runs it. *)
ClearedGenerations == [i \in Slots |-> i + 1]
ClearedObjects == [i \in Slots |-> Null]

Init ==
    /\ objects = ClearedObjects
    /\ generations = ClearedGenerations
    /\ next_generation = 1
    /\ next_free_slot = 0
    /\ free = [i \in 1 .. MaxCount |-> i - 1]
    /\ recent = << >>

(* The window of issued handles, at most MaxGen - 1 of them. *)
Remember(handle) ==
    LET r == Append(recent, handle)
    IN  IF Len(r) <= MaxGen - 1 THEN r ELSE Tail(r)

(* HandleTable::Create(out_handle, obj) when a slot is free. *)
Create(obj) ==
    LET slot == next_free_slot
    IN  /\ slot < MaxCount
        /\ next_free_slot' = generations[slot]
        /\ next_generation' = NextGeneration(next_generation)
        /\ generations' = [generations EXCEPT ![slot] = next_generation]
        /\ objects' = [objects EXCEPT ![slot] = obj]
        /\ free' = Tail(free)
        /\ recent' = Remember(MakeHandle(slot, next_generation))

(* HandleTable::Create when the table is full: ResultOutOfHandles. *)
CreateFails ==
    /\ next_free_slot >= MaxCount
    /\ UNCHANGED vars

(* HandleTable::Duplicate: a second handle for the object of a valid one. *)
Duplicate(handle) ==
    /\ GetGeneric(handle) # Null
    /\ Create(GetGeneric(handle))

(* Faulty variant: the head of the list is moved before it is saved. *)
CloseSwapped(handle) ==
    /\ IsValid(handle)
    /\ objects' = [objects EXCEPT ![GetSlot(handle)] = Null]
    /\ generations' = [generations EXCEPT ![GetSlot(handle)] = GetSlot(handle)]
    /\ next_free_slot' = GetSlot(handle)
    /\ free' = <<GetSlot(handle)>> \o free
    /\ UNCHANGED <<next_generation, recent>>

(* HandleTable::Close of a valid handle.  An invalid one is refused with    *)
(* ResultInvalidHandle and changes nothing.                                 *)
Close(handle) ==
    /\ IsValid(handle)
    /\ objects' = [objects EXCEPT ![GetSlot(handle)] = Null]
    /\ generations' = [generations EXCEPT ![GetSlot(handle)] = next_free_slot]
    /\ next_free_slot' = GetSlot(handle)
    /\ free' = <<GetSlot(handle)>> \o free
    /\ UNCHANGED <<next_generation, recent>>

(* HandleTable::Clear, when the process exits.  next_generation survives. *)
Clear ==
    /\ generations' = ClearedGenerations
    /\ objects' = ClearedObjects
    /\ next_free_slot' = 0
    /\ free' = [i \in 1 .. MaxCount |-> i - 1]
    /\ UNCHANGED <<next_generation, recent>>

Next ==
    \/ \E obj \in Objects : Create(obj)
    \/ CreateFails
    \/ \E handle \in Handles : Duplicate(handle)
    \/ \E handle \in Handles : Close(handle)
    \/ Clear

Spec == Init /\ [][Next]_vars

-----------------------------------------------------------------------------
(* The type invariant. *)
TypeOK ==
    /\ objects \in [Slots -> Objects \cup {Null}]
    /\ generations \in [Slots -> (0 .. MaxCount) \cup Generations]
    /\ next_generation \in Generations
    /\ next_free_slot \in 0 .. MaxCount
    /\ free \in Seq(Slots)
    /\ recent \in Seq(Nat)

(* The list threaded through `generations' from next_free_slot holds every  *)
(* free slot exactly once, holds no allocated slot, and ends at MaxCount:   *)
(* whatever the order of Create, Duplicate, Close and Clear, no slot leaks  *)
(* and no slot is handed out while an object still lives in it.             *)
FreeListExact ==
    /\ next_free_slot = IF free = << >> THEN MaxCount ELSE free[1]
    /\ \A i \in 1 .. Len(free) :
          generations[free[i]] = IF i = Len(free) THEN MaxCount ELSE free[i + 1]
    /\ \A i, j \in 1 .. Len(free) : free[i] = free[j] => i = j
    /\ \A s \in Slots : objects[s] = Null <=> \E i \in 1 .. Len(free) : free[i] = s

(* "To prevent accidental use of a freed Handle whose slot has already been *)
(* reused" (handle_table.h) the generation counter must not hand the same   *)
(* handle out twice within MaxGen - 1 consecutive creations, the length of  *)
(* a full turn of the counter, even across Clear.                           *)
NoEarlyReuse ==
    \A i, j \in 1 .. Len(recent) :
        GetGeneration(recent[i]) = GetGeneration(recent[j]) => i = j

-----------------------------------------------------------------------------
(* The handles that denote something, in the form Create returned them. *)
LiveHandles == {h \in IssuedHandles : IsValid(h)}

(* Refinement mapping: the abstract map from the arrays of the table. *)
MapOfTable == [h \in LiveHandles |-> GetGeneric(h)]

Map == INSTANCE HandleMap WITH
           Handle <- IssuedHandles,
           Object <- Objects,
           Capacity <- MaxCount,
           map <- MapOfTable

(* The table implements the partial map of handle_table.h: Create and       *)
(* Duplicate add one handle that denoted nothing, Close removes one, and    *)
(* no operation on one handle changes what another one denotes, also while  *)
(* the generation counter wraps under handles that are still open.          *)
ImplementsMap == Map!Spec
=============================================================================
