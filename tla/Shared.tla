------------------------------ MODULE Shared ------------------------------
(***************************************************************************)
(* What the threads of one bridge process share: the FIFO queue of deferred *)
(* callbacks from the OSC listener to the recorder, and the four            *)
(* attributes one side writes and the other reads without a lock            *)
(* (Recorder._is_recording, read through is_obs_recording;                  *)
(* OscListener._counting_in, _count_in_osc_seen and _record_mode_on_at,     *)
(* read through fetch_counting_in, count_in_osc_available and               *)
(* ms_since_record_mode_on).                                                *)
(***************************************************************************)
EXTENDS RecordingState, Sequences

CONSTANTS
    Arrangements,   \* values of Live's record_mode that OSC messages carry
    Sessions,       \* values of Live's session_record_status
    CountIns,       \* values of Live's is_counting_in
    ClipScans,      \* results a clip scan may have
    MaxBacklog,     \* OSC messages and scans arrive while fewer callbacks wait
    Faults,         \* what may go wrong, a subset of FaultKinds
    BootRace        \* may OSC messages and scans interleave with the boot sync?

FaultKinds == {"crash", "startRefused", "startLate", "stopFails", "stopUnseen"}

ASSUME ConstantsAssumption ==
    /\ Arrangements \subseteq {0, 1} /\ 0 \in Arrangements
    /\ Sessions \subseteq Nat /\ 0 \in Sessions
    /\ CountIns \subseteq BOOLEAN
    /\ ClipScans \subseteq BOOLEAN
    /\ MaxBacklog \in Nat
    /\ Faults \subseteq FaultKinds
    /\ BootRace \in BOOLEAN

VARIABLES
    queue,          \* OscListener._callback_queue
    isRecording,    \* Recorder._is_recording
    countingIn,     \* OscListener._counting_in
    countInSeen,    \* OscListener._count_in_osc_seen
    recordModeOn    \* OscListener._record_mode_on_at is not None

attributes == <<countingIn, countInSeen, recordModeOn>>
sharedVars == <<queue, isRecording, attributes>>

Signals == SignalsOf(Arrangements, Sessions)

\* A queued closure: which handler of the recorder it calls, and what that
\* handler reads of the signals the closure captured: _on_live_start asks for
\* arrangement == 1, on_count_in_finished for start_active, _on_stop for nothing.
CallbackKind == Edge \cup {"COUNT_IN_FINISHED"}
Callback == [kind : CallbackKind, on : BOOLEAN]

EdgeCallback(edge, s) ==
    [kind |-> edge, on |-> edge = "STARTED" /\ s.arrangement = 1]

\* Mutant of CountInFinishedCallback: the handler does not ask whether record is
\* still engaged.
CountInFinishedAlways(s) == [kind |-> "COUNT_IN_FINISHED", on |-> TRUE]

CountInFinishedCallback(s) ==
    [kind |-> "COUNT_IN_FINISHED", on |-> StartActive(s)]

\* _dispatch_callback with defer_callbacks=True.
Put(callback) == queue' = Append(queue, callback)

\* Environment input is throttled by the model's bound on the backlog.
Room == Len(queue) < MaxBacklog

SharedTypeOK ==
    /\ queue \in Seq(Callback)
    /\ isRecording \in BOOLEAN
    /\ countingIn \in BOOLEAN
    /\ countInSeen \in BOOLEAN
    /\ recordModeOn \in BOOLEAN

SharedInit ==
    /\ queue = <<>>
    /\ isRecording = FALSE
    /\ countingIn = FALSE
    /\ countInSeen = FALSE
    /\ recordModeOn = FALSE
=============================================================================
