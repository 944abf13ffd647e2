-------------------------- MODULE RecordingState --------------------------
(***************************************************************************)
(* The pure part of bridge/recording_state.py: what the bridge knows of     *)
(* Ableton Live (three recording signals) and the two predicates that the   *)
(* edges STARTED and STOPPED are detected on.  The state machine itself     *)
(* (RecordingStateMachine) is in module Listener, one action per step of    *)
(* its methods, because two threads run them at the same time.              *)
(***************************************************************************)
EXTENDS Naturals

\* class RecordingSignals: an immutable snapshot.
SignalsOf(arrangements, sessions) ==
    [arrangement : arrangements, session : sessions, clip : BOOLEAN]

\* OscListener.__init__: nothing is known to record.
NoSignals == [arrangement |-> 0, session |-> 0, clip |-> FALSE]

\* RecordingSignals.start_active: the user has engaged record.
StartActive(s) == s.arrangement = 1 \/ s.session # 0

\* RecordingSignals.stop_active: Live is still writing audio.
StopActive(s) == s.arrangement = 1 \/ s.clip

\* class RecordingEdge.
Edge == {"STARTED", "STOPPED"}
=============================================================================
