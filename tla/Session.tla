------------------------------ MODULE Session ------------------------------
(***************************************************************************)
(* Session recording by a user slower than the bridge: the inductive        *)
(* invariant behind RecordingClipFilmed and IdleLiveStopsObs of module      *)
(* Bridge.  Live changes only when the bridge has caught up, so what the    *)
(* threads and the queue hold was all found under the signals of now.       *)
(***************************************************************************)
EXTENDS Bridge

\* Arrangement record is not used, Live waits for the bridge, and nothing goes
\* wrong but that the bridge may die.
SlowSessions ==
    /\ Arrangements = {0}
    /\ Pace = "bridge"
    /\ ~BootRace
    /\ Faults \subseteq {"crash"}

Engaged == signals.session # 0

InDispatch(t) ==
    pc[t] \in {"modeOff", "snapshot", "compareStart", "setStart", "compareStop",
               "setStop", "emit"}

\* One thread of the listener at a time, and main first.
TakingTurns ==
    /\ signals.arrangement = 0
    /\ ~recordModeOn /\ wpc # "lag"
    /\ obs = "orphan" => pc["main"] = "orphan"
    /\ pc["osc"] # "modeOn" /\ (pc["osc"] = "rest" \/ pc["poll"] = "rest")
    /\ pc["main"] \in {"orphan", "scan", "bootSnapshot", "bootCompare", "bootStop", "up"}
    /\ edges["main"] = <<>>
    /\ pc["main"] # "up" =>
          /\ pc["osc"] = "rest" /\ pc["poll"] = "rest"
          /\ queue = <<>> /\ wpc = "get" /\ ~isRecording /\ ~Engaged

\* apply() works on the signals of now, and its flag is behind them only until
\* it is written.
ApplyFollows ==
    /\ \A t \in Thread :
          pc[t] \in {"compareStart", "setStart", "compareStop", "setStop",
                     "bootCompare", "bootStop"} => seen[t] = signals
    /\ wasStart /\ ~Engaged =>
          \E t \in {"osc", "poll"} : pc[t] \in {"modeOff", "snapshot", "compareStart", "setStart"}

\* A start is on its way only while the session is engaged, a stop only while
\* no clip records, and the end of a count-in says which it is.
EdgeFits(edge) ==
    /\ edge = "STARTED" => Engaged
    /\ edge = "STOPPED" => ~signals.clip

CallbackFits(callback) ==
    /\ callback.kind \in Edge => EdgeFits(callback.kind)
    /\ callback.kind = "COUNT_IN_FINISHED" => (callback.on <=> Engaged)

EverythingFits ==
    /\ \A i \in 1..Len(queue) : CallbackFits(queue[i])
    /\ wpc = "run" => CallbackFits(job)
    /\ wpc \in {"fetch", "decide", "start", "started"} => Engaged
    /\ wpc \in {"stop", "stopped", "finalize"} => ~signals.clip
    /\ \A t \in Thread : pc[t] \in {"setStart", "compareStop", "setStop", "emit"} =>
          \A i \in 1..Len(edges[t]) : EdgeFits(edges[t][i])
    /\ pc["poll"] \in {"obsRolling", "startTake"} => Engaged
    /\ \A t \in Thread : pc[t] \in {"rolling", "disarm", "forceStop"} => ~signals.clip

Queued(kind) == \E i \in 1..Len(queue) : queue[i].kind = kind

\* Where a start can be before OBS records: with the recorder, in the queue, an
\* edge of the osc thread, or the check that follows a scan.
StartComing ==
    \/ pendingObsStart \/ wpc \in {"fetch", "decide", "start", "started"}
    \/ Running("STARTED") \/ Queued("STARTED")
    \/ pc["osc"] \in {"setStart", "compareStop", "setStop", "emit"} /\ edges["osc"] # <<>>
    \/ pc["osc"] \in {"modeOff", "snapshot", "compareStart"} /\ ~wasStart
    \/ pc["poll"] \in {"sessionOn", "obsRolling", "startTake"}
    \/ InDispatch("poll") /\ after["poll"] = "sessionOn"

\* Where a stop can be.
StopComing ==
    \/ wpc \in {"stop", "stopped"} \/ Running("STOPPED") \/ Queued("STOPPED")
    \/ \E t \in {"osc", "poll"} :
          \/ pc[t] \in {"liveIdle", "rolling", "disarm", "forceStop"}
          \/ InDispatch(t) /\ after[t] = "liveIdle"

StartNotLost == Engaged /\ signals.clip => isRecording \/ StartComing

StopNotLost == ~Engaged /\ ~signals.clip => ~isRecording \/ StopComing

\* While Live waits for the bridge, a start that a recording clip calls for and
\* a stop that an idle Live calls for are always somewhere on their way
\* (osc_client.py _dispatch_edges, _stop_obs_if_idle and
\* _start_obs_if_session_recording against the worker).
SessionInv ==
    /\ IInv
    /\ TakingTurns
    /\ ApplyFollows
    /\ EverythingFits
    /\ StartNotLost
    /\ StopNotLost
=============================================================================
