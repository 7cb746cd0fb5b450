--------------------------- MODULE SystemSignals ---------------------------
(***************************************************************************)
(* The signals a front end sends to the emulation thread (core.cpp): one   *)
(* slot for the next signal, one pending savestate operation.              *)
(***************************************************************************)
EXTENDS Naturals

CONSTANT Slots   \* the savestate slots

VARIABLES
    current_signal,  \* with signal_param
    request          \* save_state_request_status, save_state_slot, and whether
                     \* save_state_request_time is more than 5 seconds ago

signalVars == <<current_signal, request>>

Savestates == [kind : {"Load", "Save"}, param : Slots]
Signals == [kind : {"Reset", "Shutdown"}, param : {0}] \cup Savestates
NoSignal == [kind |-> "None", param |-> 0]
NoRequest == [status |-> "NONE", slot |-> 0, late |-> FALSE]
StatusOf == [Load |-> "LOADING", Save |-> "SAVING"]

SignalsTypeOK ==
    /\ current_signal \in Signals \cup {NoSignal}
    /\ request \in {NoRequest}
          \cup [status : {"LOADING", "SAVING"}, slot : Slots, late : BOOLEAN]

SignalsInit == current_signal = NoSignal /\ request = NoRequest

(* System::SendSignal, under signal_mutex: a different signal that waits is *)
(* kept, the same one gets the new parameter.                               *)
SendSignal(s) ==
    /\ current_signal' = IF current_signal.kind \in {"None", s.kind}
                         THEN s ELSE current_signal
    /\ UNCHANGED request

(* More than five seconds have passed since save_state_request_time. *)
TimePasses ==
    /\ request.status # "NONE"
    /\ request' = [request EXCEPT !.late = TRUE]
    /\ UNCHANGED current_signal

(* RunLoop takes the signal that waits. *)
Take == current_signal' = NoSignal

(* The savestate operation that is pending once the signal is taken, unless *)
(* the signal is refused.                                                   *)
PendingRequest ==
    IF current_signal.kind \in {"Load", "Save"}
    THEN [status |-> StatusOf[current_signal.kind], slot |-> current_signal.param,
          late |-> FALSE]
    ELSE request

(* A savestate signal is refused while an operation is pending. *)
Refused == current_signal.kind \in {"Load", "Save"} /\ request.status # "NONE"
=============================================================================
