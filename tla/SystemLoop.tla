---------------------------- MODULE SystemLoop ----------------------------
(***************************************************************************)
(* System::RunLoop as a whole (core.cpp): the signals and the savestate    *)
(* operation at its top, then a pass over the timers of the cores.         *)
(*                                                                         *)
(* RunLoop looks at signals and the clock at its top alone: they come in   *)
(* there.  Whether async operations are pending is left open (HleAsync).   *)
(* A loaded state does not depend on the state it replaces, and was itself *)
(* at the top of a pass: loading it is modelled in that state.             *)
(***************************************************************************)
EXTENDS CoreTiming, SystemSignals

CONSTANT MaxLoads   \* bound on the savestates loaded
VARIABLE loads      \* the number of them

ASSUME LoadsAssumption == MaxLoads \in Nat

allVars == <<vars, signalVars, loads>>

LoopTypeOK == TypeOK /\ SignalsTypeOK /\ loads \in 0 .. MaxLoads

LoopInit == Init /\ SignalsInit /\ loads = 0

-----------------------------------------------------------------------------
(* The kernel and the timers are gone. *)
Stopped ==
    /\ phase' = "stopped"
    /\ ev' = [e \in Ids |-> Nowhere]
    /\ UNCHANGED <<slice, down, sane, lead, core, max_slice, chosen, delay, fired, failed>>

(* System::Load of a program: new timers, all events registered again. *)
Loaded ==
    /\ ev' = NewEvents /\ slice' = NewSlice /\ down' = NewSlice
    /\ sane' = AllSane /\ lead' = [c \in Cores |-> 0]
    /\ phase' = "top"
    /\ UNCHANGED <<core, max_slice, chosen, delay, fired, failed>>

(* Signal::Reset; in the initial setup, or with a DS program to forward to, *)
(* it ends the emulation.  A pending savestate operation is not forgotten.  *)
Reset ==
    /\ current_signal.kind = "Reset"
    /\ Stopped \/ Loaded
    /\ UNCHANGED request
    /\ Take

Shutdown ==
    /\ current_signal.kind = "Shutdown"
    /\ Stopped
    /\ UNCHANGED request
    /\ Take

(* A front end starts the next program in the same System. *)
Restart ==
    /\ phase = "stopped"
    /\ Loaded
    /\ UNCHANGED signalVars

(* ErrorSavestate: an operation is pending already. *)
Refuse ==
    /\ Refused
    /\ UNCHANGED <<request, vars>>
    /\ Take

(* Timer::serialize moves the events of the thread-safe queues. *)
MoveAll ==
    ev' = [e \in Ids |-> IF ev[e].in = "ts_queue" THEN Queued(ev[e].core, ev[e].due) ELSE ev[e]]

(* A state is saved or loaded when no async operation is pending; either    *)
(* may fail before it begins.  is_timer_sane is not saved: it is true in    *)
(* the new timers although a slice has been begun.                          *)
Savestate ==
    /\ current_signal.kind \notin {"Reset", "Shutdown"} /\ ~Refused
    /\ \/ /\ PendingRequest.status # "NONE"
          /\ UNCHANGED <<vars, loads>>
       \/ /\ PendingRequest.status = "SAVING"
          /\ MoveAll
          /\ UNCHANGED <<slice, down, sane, lead, loopVars, fired, failed, loads>>
       \/ /\ PendingRequest.status = "LOADING" /\ loads < MaxLoads
          /\ MoveAll
          /\ sane' = AllSane
          /\ loads' = loads + 1
          /\ UNCHANGED <<slice, down, lead, loopVars, fired, failed>>
    /\ request' = NoRequest
    /\ Take

(* Async operations were pending for five seconds: ErrorSavestate. *)
GiveUp ==
    /\ current_signal.kind = "None" /\ request.late
    /\ request' = NoRequest
    /\ Take /\ UNCHANGED vars

(* Faulty variant: the time an operation waits is not looked at. *)
ProceedWaits ==
    /\ current_signal.kind \notin {"Reset", "Shutdown"} /\ ~Refused
    /\ request' = PendingRequest
    /\ Take
    /\ Top /\ fired' = {}

(* No signal ends the pass early: it goes on with the timers. *)
Proceed ==
    /\ current_signal.kind \notin {"Reset", "Shutdown"} /\ ~Refused
    /\ ~PendingRequest.late
    /\ request' = PendingRequest
    /\ Take
    /\ Top /\ fired' = {}

RunLoop ==
    /\ ~failed
    /\ \/ phase = "top" /\ Savestate
       \/ /\ \/ phase = "top" /\ (Reset \/ Shutdown \/ Refuse \/ GiveUp \/ Proceed)
             \/ Pass /\ UNCHANGED signalVars
          /\ UNCHANGED loads

(* The other host threads: the front end, workers, the clock. *)
Others ==
    /\ \/ phase = "top" /\ (\E s \in Signals : SendSignal(s)) /\ UNCHANGED vars
       \/ HostThreads /\ phase # "stopped" /\ UNCHANGED signalVars
       \/ Restart
    /\ UNCHANGED loads

Clock == phase = "top" /\ TimePasses /\ UNCHANGED <<vars, loads>>

LoopNext == RunLoop \/ Others \/ Clock

(* The emulation thread keeps calling RunLoop, and time passes. *)
LoopSpec ==
    /\ LoopInit /\ [][LoopNext]_allVars
    /\ WF_allVars(RunLoop)
    /\ SF_allVars(Clock)

-----------------------------------------------------------------------------
(* An event that a host thread scheduled is in the event queue before its   *)
(* time comes, as the comment at the least delay of two slices wants: the   *)
(* next advance() comes first, in whatever slice the core is, a catch-up    *)
(* and the overshoot included.  Only after a load, when the clocks of the   *)
(* cores have drifted apart, may a catch-up be longer than that, by         *)
(* min_delay and the overshoot.  This is what a host thread gets that       *)
(* pushes the event right after it has read the clock; one that was         *)
(* preempted in between, or read the clock torn, may push an event whose    *)
(* time has passed, which then fires at the next advance().                 *)
HostEventInTime ==
    \A e \in Ids : ev[e].host =>
        Elapsed(ev[e].core) <= ev[e].due + (IF loads = 0 THEN 0 ELSE MinDelay + Overshoot)

(* The front end stops sending signals: each ends the pass it is taken in. *)
Quiet == <>[](current_signal.kind = "None")

(* An operation that is pending is done, or given up with an error, even if *)
(* async operations are pending for ever.                                   *)
RequestAnswered ==
    Quiet => (request.status # "NONE" ~> (request.status = "NONE" \/ phase = "stopped"))

(* An event that is in a queue fires, unless it is cancelled: those of      *)
(* another core and of host threads are moved, also when they come late,    *)
(* and no slice, delay, catch-up or loaded state keeps a core from          *)
(* advancing for ever.                                                      *)
InSomeQueue(e) == ev[e].in \in {"ts_queue", "event_queue"}
EventsFire == Quiet => \A e \in Ids : InSomeQueue(e) ~> (e \in fired \/ ~InSomeQueue(e))
=============================================================================
