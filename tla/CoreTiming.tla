----------------------------- MODULE CoreTiming -----------------------------
(***************************************************************************)
(* core_timing.cpp and the part of System::RunLoop that drives it: every   *)
(* emulated core has a timer with an event queue and runs in slices; after *)
(* a slice the timer advances and fires what is due.  One host thread runs *)
(* the cores in turn and keeps their clocks together; other host threads   *)
(* schedule events through a thread-safe queue.                            *)
(*                                                                         *)
(* Times are relative, so that the model has no clock that grows: due is   *)
(* the time of an event minus executed_ticks of its core, and lead[c] is   *)
(* executed_ticks of core c minus the smallest of all cores.  An event id  *)
(* is pending at most once; events due at the same tick fire in any order. *)
(* The locals of RunLoop are reset where their value is no longer used.    *)
(***************************************************************************)
EXTENDS Integers, FiniteSetsExt

CONSTANTS
    NumCores,
    MaxSlice,    \* MAX_SLICE_LENGTH
    MinDelay,    \* min_delay of RunLoop
    Overshoot,   \* how far the JIT or AddTicks runs past the end of a slice
    Events,      \* the one-shot events
    Periodic,    \* the events whose callback schedules them again
    Interval,    \* the interval of those
    Delays       \* the cycles_into_future events are scheduled with

Cores == 1 .. NumCores
Ids == Events \cup Periodic

ASSUME TimingAssumption ==
    /\ NumCores \in Nat \ {0} /\ MaxSlice \in Nat \ {0} /\ Interval \in Nat \ {0}
    /\ MinDelay \in Nat /\ Overshoot \in Nat /\ Delays \subseteq Nat
    /\ Events \cap Periodic = {} /\ IsFiniteSet(Events) /\ IsFiniteSet(Periodic)

VARIABLES
    ev,        \* ev[e]: where event e is pending, on which core, when it is due
    slice,     \* slice_length of each timer
    down,      \* downcount
    sane,      \* is_timer_sane: the timer is inside Advance
    lead,      \* executed_ticks, relative to the smallest
    phase,     \* where RunLoop is
    core,      \* the core it works on: running_core and current_timer
    max_slice, \* of RunLoop
    chosen,    \* current_core_to_execute, 0 for nullptr
    delay,     \* by how much each core is behind global_ticks, when the pass began
    fired,     \* the events fired in the last step
    failed     \* ASSERT(next_event->time - executed_ticks > 0) did not hold

timerVars == <<ev, slice, down, sane, lead>>
loopVars == <<phase, core, max_slice, chosen, delay>>
vars == <<timerVars, loopVars, fired, failed>>

Nowhere == [in |-> "none", core |-> 1, due |-> 0, host |-> FALSE]
Queued(c, due) == [in |-> "event_queue", core |-> c, due |-> due, host |-> FALSE]
OnHost(c, due) == [in |-> "host", core |-> c, due |-> due, host |-> FALSE]
InTsQueue(c, due, host) == [in |-> "ts_queue", core |-> c, due |-> due, host |-> host]
Pending(e) == ev[e].in # "none"
InQueue(c) == {e \in Ids : ev[e].in = "event_queue" /\ ev[e].core = c}

Due(c) == {e \in InQueue(c) : ev[e].due <= 0}

NoDelay == [c \in Cores |-> 0]

(* Timer::GetTicks, relative to executed_ticks and to the smallest clock. *)
Elapsed(c) == IF sane[c] THEN 0 ELSE slice[c] - down[c]
Ticks(c) == lead[c] + Elapsed(c)
GlobalTicks == Max({Ticks(c) : c \in Cores})

TypeOK ==
    /\ ev \in [Ids -> [in : {"none", "host", "ts_queue", "event_queue"}, core : Cores,
                        due : Int, host : BOOLEAN]]
    /\ \A e \in Ids : ev[e].host => ev[e].in = "ts_queue"
    /\ slice \in [Cores -> Int] /\ down \in [Cores -> Int]
    /\ sane \in [Cores -> BOOLEAN] /\ lead \in [Cores -> Nat]
    /\ phase \in {"top", "catch up", "catch up advance", "run delayed",
                  "sync", "sync advance", "slice", "run", "stopped"}
    /\ core \in 1 .. NumCores + 1
    /\ max_slice \in Int /\ delay \in [Cores -> Nat] /\ chosen \in 0 .. NumCores
    /\ fired \in SUBSET Ids /\ failed \in BOOLEAN

(* New timers, with the events that are always scheduled. *)
NewEvents == [e \in Ids |-> IF e \in Periodic THEN Queued(1, Interval) ELSE Nowhere]
NewSlice == [c \in Cores |-> MaxSlice]
AllSane == [c \in Cores |-> TRUE]

Init ==
    /\ ev = NewEvents /\ slice = NewSlice /\ down = NewSlice
    /\ sane = AllSane /\ lead = [c \in Cores |-> 0]
    /\ phase = "top" /\ core = 1
    /\ max_slice = 0 /\ chosen = 0 /\ delay = NoDelay
    /\ fired = {} /\ failed = FALSE

-----------------------------------------------------------------------------
(* Faulty variant: an event inside the slice does not shorten it. *)
ForceExceptionCheckNone(c, left, cycles) ==
    /\ down' = [down EXCEPT ![c] = left]
    /\ UNCHANGED slice

(* Timer::ForceExceptionCheck when the guest has left cycles to run. *)
ForceExceptionCheck(c, left, cycles) ==
    IF left > cycles
    THEN /\ slice' = [slice EXCEPT ![c] = @ - (left - cycles)]
         /\ down' = [down EXCEPT ![c] = cycles]
    ELSE /\ down' = [down EXCEPT ![c] = left]
         /\ UNCHANGED slice

(* ScheduleEvent on the current core, outside Advance. *)
ScheduleEvent(c, left, e, cycles) ==
    /\ ~Pending(e)
    /\ ev' = [ev EXCEPT ![e] = Queued(c, slice[c] - left + cycles)]
    /\ ForceExceptionCheck(c, left, cycles)

(* ScheduleEvent for another core than the current one. *)
ScheduleOther(c, e, cycles) ==
    /\ ~Pending(e)
    /\ ev' = [ev EXCEPT ![e] = InTsQueue(c, Elapsed(c) + cycles, FALSE)]

(* UnscheduleEvent; an event in a thread-safe queue is not found. *)
UnscheduleEvent(e) ==
    /\ ev[e].in = "event_queue"
    /\ ev' = [ev EXCEPT ![e] = Nowhere]

(* Faulty variant: thread-safe events come a slice later. *)
MinThreadSafeOne == MaxSlice

(* The least delay of a thread-safe event. *)
MinThreadSafe == 2 * MaxSlice

(* ScheduleEvent in thread-safe mode, on another host thread, up to the     *)
(* push.  GetTicks reads executed_ticks, slice_length and downcount while   *)
(* the emulation thread may change them: a torn sum is off by a slice at    *)
(* most, which is a clock read that much earlier or a longer delay.         *)
ScheduleThreadSafe(c, e, cycles) ==
    /\ ~Pending(e)
    /\ ev' = [ev EXCEPT ![e] = OnHost(c, Elapsed(c) + Max({MinThreadSafe, cycles}))]
    /\ fired' = {}
    /\ UNCHANGED <<slice, down, sane, lead, loopVars, failed>>

(* The push, any number of slices later.  The flag host remembers whether   *)
(* the event has its least delay still before it: the clock has not moved   *)
(* on since it was read.                                                    *)
PushThreadSafe(e) ==
    LET c == ev[e].core
        due == ev[e].due
    IN  /\ ev[e].in = "host"
        /\ ev' = [ev EXCEPT ![e] = InTsQueue(c, due, due - Elapsed(c) >= MinThreadSafe)]
        /\ fired' = {}
        /\ UNCHANGED <<slice, down, sane, lead, loopVars, failed>>

(* Timer::Advance adds the cycles of the slice of core c to executed_ticks; *)
(* the clocks are then relative to the one that is the smallest now.        *)
Cycles(c) == slice[c] - down[c]
NewTicks(c, d) == IF d = c THEN lead[d] + Cycles(c) ELSE lead[d]
LeastTicks(c) == Min({NewTicks(c, d) : d \in Cores})

(* Faulty variant: MoveEvents is left out. *)
BeginAdvanceNoMove(c) ==
    /\ ev' = [e \in Ids |-> IF e \in InQueue(c) THEN Queued(c, ev[e].due - Cycles(c))
                                                ELSE ev[e]]
    /\ lead' = [d \in Cores |-> NewTicks(c, d) - LeastTicks(c)]
    /\ slice' = [slice EXCEPT ![c] = 0]
    /\ down' = [down EXCEPT ![c] = 0]
    /\ sane' = [sane EXCEPT ![c] = TRUE]

(* The first half of Timer::Advance: MoveEvents, and everything pending is  *)
(* due sooner by the cycles of the slice.  An event that a host thread has  *)
(* not pushed yet stays there; once its time has come, how late it gets     *)
(* makes no difference.                                                     *)
BeginAdvance(c) ==
    /\ ev' = [e \in Ids |->
                 IF ~Pending(e) \/ ev[e].core # c THEN ev[e]
                 ELSE IF ev[e].in = "host"
                 THEN OnHost(c, Max({ev[e].due - Cycles(c), 0}))
                 ELSE Queued(c, ev[e].due - Cycles(c))]
    /\ lead' = [d \in Cores |-> NewTicks(c, d) - LeastTicks(c)]
    /\ slice' = [slice EXCEPT ![c] = 0]
    /\ down' = [down EXCEPT ![c] = 0]
    /\ sane' = [sane EXCEPT ![c] = TRUE]

(* The loop of Timer::Advance: the earliest event fires while it is due.    *)
(* The callback of a periodic event schedules it again, less what it is     *)
(* late; is_timer_sane makes GetTicks the start of the next slice.          *)
Fire(c, e) ==
    /\ e \in Due(c)
    /\ \A f \in InQueue(c) : ev[e].due <= ev[f].due
    /\ ev' = [ev EXCEPT ![e] = IF e \in Periodic THEN Queued(c, ev[e].due + Interval)
                                                 ELSE Nowhere]
    /\ fired' = {e}
    /\ UNCHANGED <<slice, down, sane, lead, loopVars, failed>>

(* Timer::SetNextSlice. *)
NextSlice(c, limit) == Min({limit} \cup {ev[e].due : e \in InQueue(c)})

SetNextSlice(c, limit) ==
    /\ slice' = [slice EXCEPT ![c] = NextSlice(c, limit)]
    /\ down' = [down EXCEPT ![c] = NextSlice(c, limit)]

(* Timer::GetMaxSliceLength. *)
MaxSliceLength(c) ==
    IF InQueue(c) = {} THEN MaxSlice ELSE Min({ev[e].due : e \in InQueue(c)})

-----------------------------------------------------------------------------
(* RunLoop: a new pass. *)
Top ==
    /\ phase = "top"
    /\ phase' = "catch up"
    /\ delay' = [c \in Cores |-> GlobalTicks - Ticks(c)]
    /\ UNCHANGED <<timerVars, core, chosen, max_slice, failed>>

(* The first loop: a core that is not behind is passed over. *)
CatchUp ==
    /\ phase = "catch up" /\ core \in Cores
    /\ IF delay[core] > 0
       THEN /\ BeginAdvance(core)
            /\ phase' = "catch up advance"
            /\ UNCHANGED core
       ELSE /\ core' = core + 1
            /\ UNCHANGED <<phase, timerVars>>
    /\ UNCHANGED <<max_slice, chosen, delay, failed>>

(* A core that is behind is given a slice up to the global time. *)
CaughtUp ==
    /\ phase = "catch up advance" /\ Due(core) = {}
    /\ sane' = [sane EXCEPT ![core] = FALSE]
    /\ SetNextSlice(core, delay[core])
    /\ chosen' = IF \A c \in 1 .. core - 1 : delay[c] < delay[core] THEN core ELSE chosen
    /\ phase' = "catch up" /\ core' = core + 1
    /\ UNCHANGED <<ev, lead, max_slice, delay, failed>>

(* Faulty variant: cores that are behind never run alone. *)
DecideNever ==
    /\ phase = "catch up" /\ core = NumCores + 1
    /\ phase' = "sync" /\ core' = 1 /\ max_slice' = MaxSlice
    /\ delay' = NoDelay /\ chosen' = 0
    /\ UNCHANGED <<timerVars, failed>>

(* Only the core that is furthest behind runs, if it is far enough. *)
Decide ==
    /\ phase = "catch up" /\ core = NumCores + 1
    /\ IF \E c \in Cores : delay[c] > MinDelay
       THEN phase' = "run delayed" /\ core' = chosen /\ UNCHANGED max_slice
       ELSE phase' = "sync" /\ core' = 1 /\ max_slice' = MaxSlice
    /\ delay' = NoDelay /\ chosen' = 0
    /\ UNCHANGED <<timerVars, failed>>

(* The second loop: all cores advance and agree on a slice. *)
Sync ==
    /\ phase = "sync"
    /\ IF core \in Cores
       THEN BeginAdvance(core) /\ phase' = "sync advance" /\ UNCHANGED core
       ELSE phase' = "slice" /\ core' = 1 /\ UNCHANGED timerVars
    /\ UNCHANGED <<max_slice, chosen, delay, failed>>

Synced ==
    /\ phase = "sync advance" /\ Due(core) = {}
    /\ sane' = [sane EXCEPT ![core] = FALSE]
    /\ failed' = (failed \/ MaxSliceLength(core) <= 0)
    /\ max_slice' = Min({max_slice, MaxSliceLength(core)})
    /\ phase' = "sync" /\ core' = core + 1
    /\ UNCHANGED <<ev, slice, down, lead, chosen, delay>>

(* The third loop: one core after the other runs its slice. *)
Slice ==
    /\ phase = "slice" /\ core \in Cores
    /\ SetNextSlice(core, max_slice)
    /\ phase' = "run"
    /\ UNCHANGED <<ev, sane, lead, core, max_slice, chosen, delay, failed>>

LoopEnds ==
    /\ phase = "slice" /\ core = NumCores + 1
    /\ phase' = "top" /\ core' = 1 /\ max_slice' = 0
    /\ UNCHANGED <<timerVars, chosen, delay, failed>>

(* The guest runs for some ticks, no further than the overshoot. *)
Running == phase \in {"run", "run delayed"} /\ down[core] > 0

Execute ==
    /\ Running
    /\ \E k \in 1 .. down[core] + Overshoot : down' = [down EXCEPT ![core] = @ - k]
    /\ UNCHANGED <<ev, slice, sane, lead, loopVars, failed>>

(* The guest runs for a tick and makes a system call that schedules or      *)
(* cancels an event.                                                        *)
Call ==
    LET left == down[core] - 1
    IN  /\ Running
        /\ \E e \in Events :
              \/ \E d \in Delays : ScheduleEvent(core, left, e, d)
              \/ /\ \/ \E d \in Delays, c \in Cores \ {core} : ScheduleOther(c, e, d)
                    \/ UnscheduleEvent(e)
                 /\ down' = [down EXCEPT ![core] = left]
                 /\ UNCHANGED slice
        /\ UNCHANGED <<sane, lead, loopVars, failed>>

(* The slice is used up, or a reschedule interrupts it (or the core idles,  *)
(* which uses it up at once); the next core runs as far as this one got.    *)
RunEnds ==
    /\ phase \in {"run", "run delayed"}
    /\ Elapsed(core) > 0
    /\ IF phase = "run"
       THEN core' = core + 1 /\ phase' = "slice" /\ max_slice' = Elapsed(core)
       ELSE phase' = "top" /\ core' = 1 /\ UNCHANGED max_slice
    /\ UNCHANGED <<timerVars, chosen, delay, failed>>

(* The rest of a pass of RunLoop. *)
Pass ==
    \/ /\ \/ CatchUp \/ CaughtUp \/ Decide \/ Sync \/ Synced \/ Slice
          \/ LoopEnds \/ Execute \/ Call \/ RunEnds
       /\ fired' = {}
    \/ /\ phase \in {"catch up advance", "sync advance"}
       /\ \E e \in Ids : Fire(core, e)

HostThreads ==
    \E e \in Events :
        \/ \E c \in Cores, d \in Delays : ScheduleThreadSafe(c, e, d)
        \/ PushThreadSafe(e)

-----------------------------------------------------------------------------
(* A core that runs never has an event of its own before the end of its     *)
(* slice, also when the event was scheduled in the middle of it: it fires   *)
(* at its tick, except for the overshoot (ForceExceptionCheck).  And when a *)
(* slice is measured nothing is overdue: the ASSERT of GetMaxSliceLength.   *)
NoEventInsideSlice ==
    /\ Running => \A e \in InQueue(core) : ev[e].due >= slice[core]
    /\ ~failed

(* The clocks of the cores stay within two slices of each other, whatever   *)
(* slices events cut short, although cores overshoot, and although the      *)
(* first pass after a load takes a core that has a slice behind it for one  *)
(* that has not.                                                            *)
ClocksTogether ==
    \A c, d \in Cores : Ticks(c) - Ticks(d) <= 2 * MaxSlice + MinDelay + Overshoot
=============================================================================
