---------------------------- MODULE StopOutcome ----------------------------
(***************************************************************************)
(* What Recorder._on_stop may rely on when it stops OBS: OBS may stop at    *)
(* any time while the handler is busy; the recorder lets go of the take     *)
(* only when it has; and the handler may give up, the recorder active and   *)
(* OBS rolling or not.  Module Recorder is written with these outcomes      *)
(* (ObsStops with StopReturns, ObsStopFails).                               *)
(***************************************************************************)
VARIABLES rolling, isRecording, busy

Init == rolling \in BOOLEAN /\ isRecording = TRUE /\ busy = TRUE

Stop == busy /\ rolling' = FALSE /\ UNCHANGED <<isRecording, busy>>

Release ==
    /\ busy /\ ~rolling
    /\ isRecording' = FALSE /\ busy' = FALSE
    /\ UNCHANGED rolling

GiveUp == busy /\ busy' = FALSE /\ UNCHANGED <<rolling, isRecording>>

Next == Stop \/ Release \/ GiveUp

Spec == Init /\ [][Next]_<<rolling, isRecording, busy>>
=============================================================================
