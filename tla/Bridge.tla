------------------------------ MODULE Bridge ------------------------------
(***************************************************************************)
(* The bridge process (bridge/__main__.py): the listener's threads and the  *)
(* callback worker around one queue, OBS Studio outside, and a process that *)
(* may die at any moment and be started again.                              *)
(***************************************************************************)
EXTENDS Listener, Recorder

CONSTANT
    Pace            \* what Live's next change waits for

ASSUME PaceAssumption == Pace \in {"nothing", "listener", "bridge"}

vars == <<sharedVars, listenerVars, recorderVars>>

TypeOK == SharedTypeOK /\ ListenerTypeOK /\ RecorderTypeOK

Init ==
    /\ SharedInit
    /\ ListenerInit
    /\ RecorderInit
    /\ obs \in {"idle", "orphan"}

-----------------------------------------------------------------------------
\* main(): obs.stop_orphan_recording() before listener.start().  A StopRecord
\* that fails is not noticed.
StopOrphan ==
    /\ Goto("main", "orphan", "scan")
    /\ \/ obs' = "idle"
       \/ obs' = obs /\ "stopFails" \in Faults
    /\ UNCHANGED <<workerVars, takeVars, seen, edges, after, signals, stateMachine,
                   sharedVars>>

\* The process dies - a crash, a kill, or the end of shutdown(), which does not
\* stop OBS and abandons the worker after 2 s - and the user starts it again.
\* OBS is another process and goes on recording.
CrashAndRestart ==
    /\ "crash" \in Faults
    /\ queue' = <<>>
    /\ isRecording' = FALSE
    /\ countingIn' = FALSE
    /\ countInSeen' = FALSE
    /\ recordModeOn' = FALSE
    /\ signals' = NoSignals
    /\ wasStart' = FALSE
    /\ wasStop' = FALSE
    /\ pc' = [t \in Thread |-> IF t = "main" THEN "orphan" ELSE "rest"]
    /\ seen' = [t \in Thread |-> NoSignals]
    /\ edges' = [t \in Thread |-> <<>>]
    /\ after' = [t \in Thread |-> "rest"]
    /\ wpc' = "get"
    /\ job' = NoJob
    /\ counted' = FALSE
    /\ pendingObsStart' = FALSE
    /\ hasStart' = FALSE
    /\ obs' = IF Rolling THEN "orphan" ELSE "idle"

\* The listener's threads have finished what they began.
ListenerAtRest == pc = [t \in Thread |-> IF t = "main" THEN "up" ELSE "rest"]

\* So has the worker: the bridge has caught up with Live.
Settled == ListenerAtRest /\ queue = <<>> /\ wpc = "get"

\* Live does as it likes, but a run may look at slow users only.
LiveNext ==
    /\ LiveInput
    /\ Pace = "listener" => ListenerAtRest
    /\ Pace = "bridge" => Settled
    /\ UNCHANGED recorderVars

ListenerNext == ListenerStep /\ UNCHANGED recorderVars

RecorderNext == RecorderStep /\ UNCHANGED listenerVars

Next ==
    \/ LiveNext
    \/ ListenerNext
    \/ RecorderNext
    \/ StopOrphan
    \/ CrashAndRestart

Spec == Init /\ [][Next]_vars

\* Every thread goes on with what it has begun: its waits are bounded by
\* timeouts, and the interpreter schedules every runnable thread.  Live and
\* crashes owe nothing.
Fairness ==
    /\ WF_vars(StopOrphan)
    /\ WF_vars(BootStep /\ UNCHANGED recorderVars)
    /\ WF_vars(OscStep /\ UNCHANGED recorderVars)
    /\ WF_vars(PollStep /\ UNCHANGED recorderVars)
    /\ \A t \in Thread : WF_vars(DispatchStep(t) /\ UNCHANGED recorderVars)
    /\ WF_vars(RecorderNext)

FairSpec == Spec /\ Fairness

-----------------------------------------------------------------------------
(* Safety                                                                   *)

CountInFinishedComing ==
    \/ countingIn
    \/ pc["osc"] = "countInDone"
    \/ \E i \in 1..Len(queue) : queue[i].kind = "COUNT_IN_FINISHED"

\* A start deferred for the count-in is never forgotten: while it is pending -
\* or the worker has just been told that Live counts in and is about to defer -
\* Live still counts in, or the end of the count-in is on its way to the
\* worker (recorder.py _on_live_start, on_count_in_finished; the handler that
\* reports the end runs on another thread than the one that defers).
CountInHandover ==
    pendingObsStart \/ (wpc = "decide" /\ counted) =>
        CountInFinishedComing \/ Running("COUNT_IN_FINISHED")

\* The recorder believes in a recording exactly when OBS makes one on its
\* request, but for the step between OBS's answer and the assignment, and for
\* answers that were lost - and what such an answer leaves behind is never taken
\* for a take: a recording it knows nothing of ("unanswered", "orphan") never
\* becomes its own, and one that ended unseen is held until a stop is answered
\* (recorder.py _start_obs, _on_stop, _stop_obs_with_retries).
RecorderMatchesObs ==
    /\ isRecording => obs \in {"take", "ended"} \/ wpc = "stopped"
    /\ obs = "take" => isRecording \/ wpc = "started"
    /\ obs = "ended" => isRecording

\* _started_at is left over from a take that is canceled, failed or finished;
\* _start_obs (`if self._started_at is None`) would keep it.
StaleStartTime ==
    hasStart /\ ~isRecording /\ wpc \notin {"lag", "start", "started", "finalize"}

\* A start time survives its take only if ms_since_record_mode_on raised: not a
\* canceled start, a refused one, a stop of nothing, or a take that failed or was
\* published (recorder.py: _clear_take_context in all of them, not at :149).
StartTimeOfThisTake ==
    [][~StaleStartTime /\ StaleStartTime' => wpc = "lag" /\ ~recordModeOn]_vars

StartBegins == wpc \in {"run", "decide"} /\ wpc' \in {"lag", "start"}

\* recorded_start in the sidecar belongs to the take it is written for: a start
\* never finds the time of an older one (recorder.py:147).
FreshStartTime == [][StartBegins => ~hasStart]_vars

\* README.md:3, "Start/stop OBS when Live starts/stops arrangement [...]
\* recording": once the bridge has caught up, OBS records exactly while the
\* arrangement record button is on.
SettledMatchesLive == Settled => (Rolling <=> signals.arrangement = 1)

\* Its first half: an arrangement recording is filmed.
ArrangementFilmed == Settled /\ signals.arrangement = 1 => obs = "take"

\* README.md:3 for session recording, DESIGN.md:101 (true -> false: stop OBS):
\* OBS does not roll on with Live idle.
IdleLiveStopsObs ==
    Settled /\ ~StartActive(signals) /\ ~StopActive(signals) => ~Rolling

\* SYNC.md:112: "OBS keeps recording while any clip has is_recording true".
RecordingClipFilmed ==
    Settled /\ signals.session # 0 /\ signals.clip => obs = "take" \/ pendingObsStart

-----------------------------------------------------------------------------
(* The inductive invariant behind the first three.                          *)

\* What the worker's place tells: it asks OBS to start only when it believes
\* OBS idle and has taken the pending start over, and after OBS has answered,
\* OBS does what the answer said until the recorder has noted it.
WorkerPlaces ==
    /\ wpc \in {"fetch", "decide", "lag", "start", "started", "finalize"} => ~isRecording
    /\ wpc \in {"lag", "start", "started", "stop", "stopped", "finalize"} => ~pendingObsStart
    /\ wpc \in {"stop", "stopped"} => isRecording
    /\ wpc = "started" => obs = "take"
    /\ wpc = "stopped" => obs = "idle"
    /\ pendingObsStart => ~isRecording

\* While main checks OBS for an orphaned recording nothing else has begun.
OrphanCheckFirst ==
    pc["main"] = "orphan" =>
        /\ pc["osc"] = "rest" /\ pc["poll"] = "rest"
        /\ queue = <<>> /\ wpc = "get" /\ ~isRecording

\* OBS and the recorder drift apart only by a fault of that kind.
DriftNeedsFault ==
    /\ obs = "unanswered" => "startLate" \in Faults
    /\ obs = "ended" => "stopUnseen" \in Faults
    /\ obs = "orphan" => pc["main"] = "orphan" \/ "stopFails" \in Faults

IInv ==
    /\ TypeOK
    /\ WorkerPlaces
    /\ OrphanCheckFirst
    /\ CountInHandover
    /\ RecorderMatchesObs
    /\ DriftNeedsFault

-----------------------------------------------------------------------------
(* Liveness                                                                 *)

\* Arrangement record switched on for good is eventually filmed for good, and
\* switched off for good eventually not.
ArrangementEventuallyFilmed ==
    /\ <>[](signals.arrangement = 1) => <>[](obs = "take")
    /\ <>[](signals.arrangement = 0) => <>[]~Rolling

\* The record switch not yet compared with what apply() saw last.
Unseen ==
    IF \/ /\ signals.arrangement = 1 /\ ~wasStop
          /\ pc["osc"] \in {"modeOn", "snapshot", "compareStart"}
       \/ /\ signals.arrangement = 0 /\ wasStop
          /\ pc["osc"] \in {"modeOff", "snapshot", "compareStart", "setStart", "compareStop"}
    THEN <<signals.arrangement = 1>>
    ELSE <<>>

\* The edge the worker is at, until OBS has done as told.
InWork ==
    IF \/ job.kind = "STARTED" /\ wpc \in {"run", "fetch", "decide", "lag", "start"}
       \/ job.kind = "STOPPED" /\ wpc \in {"run", "stop"}
    THEN <<job.kind>>
    ELSE <<>>

\* The edges among callbacks, in their order.
WithEdge(found, callback) ==
    IF callback.kind \in Edge THEN Append(found, callback.kind) ELSE found

EdgesAmong(callbacks) ==
    LET found[n \in 0..Len(callbacks)] ==
            IF n = 0 THEN <<>> ELSE WithEdge(found[n - 1], callbacks[n])
    IN  found[Len(callbacks)]

\* Every edge on its way, the oldest first.
OnTheirWay == InWork \o EdgesAmong(queue) \o edges["osc"]

SwitchedTo(found) == [i \in 1..Len(found) |-> found[i] = "STARTED"]

Switch == INSTANCE DelayedSwitch WITH
    switch <- signals.arrangement = 1,
    pending <- SwitchedTo(OnTheirWay) \o Unseen,
    rolling <- obs = "take"

\* README.md:3 again, in full: with arrangement record alone, OBS is a delayed
\* copy of the record switch, take by take, from which only a switch-on that has
\* been switched off again may be missing (listener, queue and recorder together;
\* osc_client.py:132 and 199, recorder.py:96, 149 and 167).
CopiesSwitch == Switch!Safety

\* And it follows in the end.
ImplementsSwitch == Switch!Spec

\* A deferred start does not hang: if Live stops counting in again and again,
\* every pending start is eventually carried out or canceled.
DeferredStartResolves ==
    []<>~countingIn => (pendingObsStart ~> ~pendingObsStart)
=============================================================================
