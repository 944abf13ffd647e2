----------------------------- MODULE Recorder -----------------------------
(***************************************************************************)
(* bridge/recorder.py, class Recorder, run by the one callback worker       *)
(* thread of OscListener (_callback_loop), and OBS Studio as its WebSocket  *)
(* requests see it.                                                         *)
(*                                                                          *)
(* Calls to OBS and reads of the listener's attributes are steps of their   *)
(* own; what only the worker reads and writes is merged into the step       *)
(* before it.  Stopping OBS (the retries of _stop_obs_with_retries over     *)
(* those of ObsClientReal.stop_record) is one step here, with the outcomes  *)
(* module ObsStop derives; publishing the file is the step Finalized here   *)
(* and module TakeFiles in detail.                                          *)
(***************************************************************************)
EXTENDS Shared

VARIABLES
    wpc,              \* where the worker is
    job,              \* the callback it runs
    counted,          \* counting_in of _on_live_start
    pendingObsStart,  \* _pending_obs_start
    hasStart,         \* _started_at is not None
    obs               \* is OBS recording, and on whose behalf

workerVars == <<wpc, job, counted>>
takeVars == <<pendingObsStart, hasStart>>
recorderVars == <<workerVars, takeVars, obs>>

WorkerPlace ==
    { "get", "run", "fetch", "decide", "lag", "start", "started",
      "stop", "stopped", "finalize" }

\* What OBS does, and what of it the bridge was told:
\*   "take"        it records, and has answered StartRecord;
\*   "unanswered"  it records, but the answer was lost;
\*   "orphan"      it records what a bridge started that has died since;
\*   "ended"       it does not record: it has stopped and the answer was lost;
\*   "idle"        it does not record.
ObsState == {"idle", "take", "unanswered", "orphan", "ended"}

Rolling == obs \in {"take", "unanswered", "orphan"}

NoJob == [kind |-> "STOPPED", on |-> FALSE]

RecorderTypeOK ==
    /\ wpc \in WorkerPlace
    /\ job \in Callback
    /\ counted \in BOOLEAN
    /\ pendingObsStart \in BOOLEAN
    /\ hasStart \in BOOLEAN
    /\ obs \in ObsState

RecorderInit ==
    /\ wpc = "get"
    /\ job = NoJob
    /\ counted = FALSE
    /\ pendingObsStart = FALSE
    /\ hasStart = FALSE

Step(from, to) == wpc = from /\ wpc' = to /\ UNCHANGED job

\* The callback returns; the worker asks the queue for the next one.
Done(from) == wpc = from /\ wpc' = "get" /\ job' = NoJob

Running(kind) == wpc = "run" /\ job.kind = kind

\* _clear_take_context (the track label it also drops is in module TrackLabel)
ClearTakeContext == hasStart' = FALSE

\* Mutant of BeginStart: the pending flag survives the start.
BeginStartStillPending(from) ==
    /\ Step(from, IF recordModeOn THEN "lag" ELSE "start")
    /\ pendingObsStart' = pendingObsStart
    /\ hasStart' = TRUE

\* _start_obs up to ms_since_record_mode_on's `is None`; its callers have
\* excluded is_recording.
BeginStart(from) ==
    /\ Step(from, IF recordModeOn THEN "lag" ELSE "start")
    /\ pendingObsStart' = FALSE
    /\ hasStart' = TRUE

-----------------------------------------------------------------------------
\* _callback_loop: callback = self._callback_queue.get()
GetCallback ==
    /\ wpc = "get"
    /\ queue # <<>>
    /\ job' = Head(queue)
    /\ queue' = Tail(queue)
    /\ wpc' = "run"
    /\ UNCHANGED <<counted, takeVars, obs, isRecording, attributes>>

\* _on_live_start while OBS is recording
IgnoreStart ==
    /\ Running("STARTED")
    /\ isRecording
    /\ Done("run")
    /\ UNCHANGED <<counted, takeVars, obs, sharedVars>>

\* _on_live_start, Path=arrangement_immediate
StartArrangement ==
    /\ Running("STARTED")
    /\ ~isRecording
    /\ job.on
    /\ BeginStart("run")
    /\ UNCHANGED <<counted, obs, sharedVars>>

\* _on_live_start, Path=session_start_probe: osc_ok = self._count_in_osc_available()
ProbeCountIn ==
    /\ Running("STARTED")
    /\ ~isRecording
    /\ ~job.on
    /\ Step("run", IF countInSeen THEN "fetch" ELSE "decide")
    /\ counted' = FALSE
    /\ UNCHANGED <<takeVars, obs, sharedVars>>

\* Mutant of FetchCountIn: any sign of a count-in counts.
FetchCountInSeen ==
    /\ Step("fetch", "decide")
    /\ counted' = countInSeen
    /\ UNCHANGED <<takeVars, obs, sharedVars>>

\* counting_in = fetch_counting_in(): a reply, or the timeout, ends the wait;
\* either way the attribute is read as it is then.
FetchCountIn ==
    /\ Step("fetch", "decide")
    /\ counted' = countingIn
    /\ UNCHANGED <<takeVars, obs, sharedVars>>

\* Path=session_defer_count_in, or session_defer_still_counting_in when the
\* start is pending already
DeferStart ==
    /\ counted
    /\ Done("decide")
    /\ pendingObsStart' = TRUE
    /\ counted' = FALSE
    /\ UNCHANGED <<hasStart, obs, sharedVars>>

\* Path=session_immediate_no_count_in, or session_pending_cleared_after_count_in
StartSession ==
    /\ ~counted
    /\ BeginStart("decide")
    /\ UNCHANGED <<counted, obs, sharedVars>>

-----------------------------------------------------------------------------
(* on_count_in_finished                                                     *)

IgnoreCountInFinished ==
    /\ Running("COUNT_IN_FINISHED")
    /\ ~pendingObsStart
    /\ Done("run")
    /\ UNCHANGED <<counted, takeVars, obs, sharedVars>>

\* Mutant of CancelPendingStart: returns before it clears the flag.
CancelPendingStartEarly ==
    /\ Running("COUNT_IN_FINISHED")
    /\ pendingObsStart
    /\ ~job.on
    /\ Done("run")
    /\ ClearTakeContext
    /\ UNCHANGED <<counted, pendingObsStart, obs, sharedVars>>

CancelPendingStart ==
    /\ Running("COUNT_IN_FINISHED")
    /\ pendingObsStart
    /\ ~job.on
    /\ Done("run")
    /\ pendingObsStart' = FALSE
    /\ ClearTakeContext
    /\ UNCHANGED <<counted, obs, sharedVars>>

StartAfterCountIn ==
    /\ Running("COUNT_IN_FINISHED")
    /\ pendingObsStart
    /\ job.on
    /\ IF isRecording
       THEN Done("run") /\ UNCHANGED takeVars
       ELSE BeginStart("run")
    /\ UNCHANGED <<counted, obs, sharedVars>>

-----------------------------------------------------------------------------
(* _start_obs, from the subtraction in ms_since_record_mode_on on           *)

MeasureLag ==
    /\ recordModeOn
    /\ Step("lag", "start")
    /\ UNCHANGED <<counted, takeVars, obs, sharedVars>>

\* Mutant of LagRaises: the start is put off, to be made up for later.
LagRaisesPending ==
    /\ ~recordModeOn
    /\ Done("lag")
    /\ pendingObsStart' = TRUE
    /\ UNCHANGED <<counted, hasStart, obs, sharedVars>>

\* The attribute has become None since it was compared: TypeError, caught by
\* _callback_loop only.  OBS is not started, and _started_at is kept.
LagRaises ==
    /\ ~recordModeOn
    /\ Done("lag")
    /\ UNCHANGED <<counted, takeVars, obs, sharedVars>>

\* ObsClientReal.start_record answered.
ObsStarts ==
    /\ obs = "idle"
    /\ Step("start", "started")
    /\ obs' = "take"
    /\ UNCHANGED <<counted, takeVars, sharedVars>>

\* Mutant of ObsStartFails: the take context is kept.
ObsStartFailsKept ==
    /\ Done("start")
    /\ obs' = obs /\ (obs # "idle" \/ "startRefused" \in Faults)
    /\ pendingObsStart' = FALSE
    /\ UNCHANGED <<counted, hasStart, sharedVars>>

\* It raised: OBS was recording already, refused, or rolls but the answer was lost.
ObsStartFails ==
    /\ Done("start")
    /\ \/ obs' = obs /\ (obs # "idle" \/ "startRefused" \in Faults)
       \/ obs = "idle" /\ obs' = "unanswered" /\ "startLate" \in Faults
    /\ ClearTakeContext
    /\ pendingObsStart' = FALSE
    /\ UNCHANGED <<counted, sharedVars>>

\* self._is_recording = True
StartReturns ==
    /\ Done("started")
    /\ isRecording' = TRUE
    /\ UNCHANGED <<counted, takeVars, obs, queue, attributes>>

-----------------------------------------------------------------------------
(* _on_stop                                                                 *)

\* Mutant of IgnoreStop: the take context is kept.
IgnoreStopKept ==
    /\ Running("STOPPED")
    /\ ~isRecording
    /\ Done("run")
    /\ pendingObsStart' = FALSE
    /\ UNCHANGED <<counted, hasStart, obs, sharedVars>>

IgnoreStop ==
    /\ Running("STOPPED")
    /\ ~isRecording
    /\ Done("run")
    /\ pendingObsStart' = FALSE
    /\ ClearTakeContext
    /\ UNCHANGED <<counted, obs, sharedVars>>

BeginStop ==
    /\ Running("STOPPED")
    /\ isRecording
    /\ Step("run", "stop")
    /\ pendingObsStart' = FALSE
    /\ UNCHANGED <<counted, hasStart, obs, sharedVars>>

\* _stop_obs_with_retries: OBS is not recording any more, and the worker knows.
ObsStops ==
    /\ Step("stop", "stopped")
    /\ obs' = "idle"
    /\ UNCHANGED <<counted, takeVars, sharedVars>>

\* Mutant of ObsStopFails: the recorder gives the take up.
ObsStopFailsReleased ==
    /\ Done("stop")
    /\ obs' = obs /\ "stopFails" \in Faults
    /\ isRecording' = FALSE
    /\ UNCHANGED <<counted, takeVars, queue, attributes>>

\* It gave up: "keeping recorder active for retry".  OBS may still roll, or have
\* stopped unseen: no status request was ever answered, or looking for the file
\* raised.
ObsStopFails ==
    /\ Done("stop")
    /\ \/ obs' = obs /\ "stopFails" \in Faults
       \/ obs' = "ended" /\ "stopUnseen" \in Faults
    /\ UNCHANGED <<counted, takeVars, sharedVars>>

\* self._is_recording = False
StopReturns ==
    /\ Step("stopped", "finalize")
    /\ isRecording' = FALSE
    /\ UNCHANGED <<counted, takeVars, obs, queue, attributes>>

\* The file is published or given up; the finally clause clears the take.
Finalized ==
    /\ Done("finalize")
    /\ ClearTakeContext
    /\ UNCHANGED <<counted, pendingObsStart, obs, sharedVars>>

-----------------------------------------------------------------------------
RecorderStep ==
    \/ GetCallback
    \/ IgnoreStart \/ StartArrangement \/ ProbeCountIn \/ FetchCountIn
    \/ DeferStart \/ StartSession
    \/ IgnoreCountInFinished \/ CancelPendingStart \/ StartAfterCountIn
    \/ MeasureLag \/ LagRaises \/ ObsStarts \/ ObsStartFails \/ StartReturns
    \/ IgnoreStop \/ BeginStop \/ ObsStops \/ ObsStopFails \/ StopReturns \/ Finalized
=============================================================================
