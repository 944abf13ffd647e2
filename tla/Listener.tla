----------------------------- MODULE Listener -----------------------------
(***************************************************************************)
(* bridge/osc_client.py, class OscListener, with the RecordingStateMachine  *)
(* it owns: Live's OSC notifications and the clip scans become STARTED,     *)
(* STOPPED and count-in-finished callbacks on the queue.                    *)
(*                                                                          *)
(* Three threads run this code and none of them takes a lock around it:     *)
(*   osc    the OSC server thread, one handler at a time;                   *)
(*   poll   the clip poll thread;                                           *)
(*   main   start(): first clip scan, boot sync.                            *)
(* A step of a thread touches at most one attribute the threads share;      *)
(* seen, edges and after are the thread's local variables.                  *)
(***************************************************************************)
EXTENDS Shared

Thread == {"osc", "poll", "main"}

VARIABLES
    signals,    \* _arrangement, _session_status, _clip_recording
    wasStart,   \* _state.was_start_active
    wasStop,    \* _state.was_stop_active
    pc,         \* where each thread is
    seen,       \* the snapshot of the signals that apply() works on
    edges,      \* the edges apply() found and the loop has not emitted yet
    after       \* where the thread goes after _dispatch_edges

localVars == <<pc, seen, edges, after>>
stateMachine == <<wasStart, wasStop>>
listenerVars == <<signals, stateMachine, localVars>>

AfterDispatch == {"rest", "liveIdle", "sessionOn", "up"}

\* main while it runs apply_boot_sync and emits its edges
BootSync == {"bootSnapshot", "bootCompare", "bootSet", "bootStop"}

Place ==
    AfterDispatch \cup BootSync \cup
    { "orphan", "scan",                                        \* main
      "snapshot", "compareStart", "setStart",                  \* apply()
      "compareStop", "setStop", "emit",
      "rolling", "disarm", "forceStop",                        \* _stop_obs_if_idle
      "obsRolling", "startTake",                               \* _start_obs_if_...
      "countInDone",                                           \* _on_counting_in
      "modeOn", "modeOff" }                                    \* _on_record_mode

ListenerTypeOK ==
    /\ signals \in Signals
    /\ wasStart \in BOOLEAN
    /\ wasStop \in BOOLEAN
    /\ pc \in [Thread -> Place]
    /\ seen \in [Thread -> Signals]
    /\ edges \in [Thread -> Seq(Edge)]
    /\ after \in [Thread -> AfterDispatch]

ListenerInit ==
    /\ signals = NoSignals
    /\ wasStart = FALSE
    /\ wasStop = FALSE
    /\ pc = [t \in Thread |-> IF t = "main" THEN "orphan" ELSE "rest"]
    /\ seen = [t \in Thread |-> NoSignals]
    /\ edges = [t \in Thread |-> <<>>]
    /\ after = [t \in Thread |-> "rest"]

Goto(t, from, to) == pc[t] = from /\ pc' = [pc EXCEPT ![t] = to]

\* Call _dispatch_edges, then go to cont.
CallDispatch(t, from, cont) ==
    /\ Goto(t, from, "snapshot")
    /\ after' = [after EXCEPT ![t] = cont]
    /\ UNCHANGED <<seen, edges>>

-----------------------------------------------------------------------------
(* Input: OSC notifications and replies, clip scans.                        *)

\* The server thread runs once start() has bound the port; with BootRace =
\* FALSE no message is handled while main is in the boot sync.
Listening ==
    /\ pc["main"] # "orphan"
    /\ BootRace \/ pc["main"] \in {"scan", "bootSnapshot", "up"}
    /\ Room

\* _on_record_mode, the value: a message may repeat the one it had.
OscRecordMode(value) ==
    /\ Listening
    /\ signals' = [signals EXCEPT !.arrangement = value]
    /\ Goto("osc", "rest",
            IF value = 0 THEN "modeOff"
            ELSE IF signals.arrangement = 0 THEN "modeOn" ELSE "snapshot")
    /\ after' = [after EXCEPT !["osc"] = "rest"]
    /\ UNCHANGED <<seen, edges, stateMachine, sharedVars>>

\* _on_record_mode, the time: set when record goes on, forgotten when it is off.
StampRecordMode ==
    /\ pc["osc"] \in {"modeOn", "modeOff"}
    /\ Goto("osc", pc["osc"], "snapshot")
    /\ recordModeOn' = (pc["osc"] = "modeOn")
    /\ UNCHANGED <<seen, edges, after, signals, stateMachine, queue, isRecording,
                   countingIn, countInSeen>>

\* _on_session_status: when the session disengages, _stop_obs_if_idle follows.
OscSessionStatus(value) ==
    /\ Listening
    /\ signals' = [signals EXCEPT !.session = value]
    /\ CallDispatch("osc", "rest",
                    IF value = 0 /\ signals.session # 0 THEN "liveIdle" ELSE "rest")
    /\ UNCHANGED <<stateMachine, sharedVars>>

\* _on_counting_in, up to the assignment; only 1 -> 0 is announced.
OscCountingIn(value) ==
    /\ Listening
    /\ countInSeen' = TRUE
    /\ countingIn' = value
    /\ Goto("osc", "rest", IF countingIn /\ ~value THEN "countInDone" ELSE "rest")
    /\ UNCHANGED <<seen, edges, after, signals, stateMachine, queue, isRecording,
                   recordModeOn>>

\* _on_counting_in, the end: _emit_count_in_finished(self.signals).
EmitCountInFinished ==
    /\ Goto("osc", "countInDone", "rest")
    /\ Put(CountInFinishedCallback(signals))
    /\ UNCHANGED <<seen, edges, after, signals, stateMachine, attributes, isRecording>>

\* _clip_poll_loop: a scan that finds no change does nothing.
PollScan(clip) ==
    /\ Listening
    /\ pc["main"] # "scan"
    /\ clip # signals.clip
    /\ signals' = [signals EXCEPT !.clip = clip]
    /\ CallDispatch("poll", "rest", IF clip THEN "sessionOn" ELSE "liveIdle")
    /\ UNCHANGED <<stateMachine, sharedVars>>

-----------------------------------------------------------------------------
(* _dispatch_edges: RecordingStateMachine.apply(self.signals), then one     *)
(* callback per edge.                                                       *)

Snapshot(t) ==
    /\ Goto(t, "snapshot", "compareStart")
    /\ seen' = [seen EXCEPT ![t] = signals]
    /\ UNCHANGED <<edges, after, signals, stateMachine, sharedVars>>

CompareStart(t) ==
    /\ Goto(t, "compareStart", "setStart")
    /\ edges' = [edges EXCEPT ![t] =
                    IF StartActive(seen[t]) /\ ~wasStart THEN <<"STARTED">> ELSE <<>>]
    /\ UNCHANGED <<seen, after, signals, stateMachine, sharedVars>>

\* Mutant of SetStart: the flag latches.
SetStartLatched(t) ==
    /\ Goto(t, "setStart", "compareStop")
    /\ wasStart' = (wasStart \/ StartActive(seen[t]))
    /\ UNCHANGED <<wasStop, seen, edges, after, signals, sharedVars>>

SetStart(t) ==
    /\ Goto(t, "setStart", "compareStop")
    /\ wasStart' = StartActive(seen[t])
    /\ UNCHANGED <<wasStop, seen, edges, after, signals, sharedVars>>

CompareStop(t) ==
    /\ Goto(t, "compareStop", "setStop")
    /\ edges' = [edges EXCEPT ![t] =
                    IF ~StopActive(seen[t]) /\ wasStop THEN Append(@, "STOPPED") ELSE @]
    /\ UNCHANGED <<seen, after, signals, stateMachine, sharedVars>>

\* Mutant of SetStop: the flag is not brought up to date.
SetStopForgotten(t) ==
    /\ Goto(t, "setStop", IF edges[t] = <<>> THEN after[t] ELSE "emit")
    /\ seen' = [seen EXCEPT ![t] = NoSignals]
    /\ UNCHANGED <<stateMachine, edges, after, signals, sharedVars>>

SetStop(t) ==
    /\ Goto(t, "setStop", IF edges[t] = <<>> THEN after[t] ELSE "emit")
    /\ wasStop' = StopActive(seen[t])
    /\ seen' = [seen EXCEPT ![t] = NoSignals]
    /\ UNCHANGED <<wasStart, edges, after, signals, sharedVars>>

\* Mutant of EmitEdge: a queue of one place, put without blocking.
EmitEdgeDropping(t) ==
    /\ edges[t] # <<>>
    /\ Goto(t, "emit", IF Tail(edges[t]) = <<>> THEN after[t] ELSE "emit")
    /\ IF queue = <<>> THEN Put(EdgeCallback(Head(edges[t]), signals)) ELSE queue' = queue
    /\ edges' = [edges EXCEPT ![t] = Tail(@)]
    /\ UNCHANGED <<seen, after, signals, stateMachine, attributes, isRecording>>

\* _emit_edge: the closure captures the signals of now, not the snapshot.
EmitEdge(t) ==
    /\ edges[t] # <<>>
    /\ Goto(t, "emit", IF Tail(edges[t]) = <<>> THEN after[t] ELSE "emit")
    /\ Put(EdgeCallback(Head(edges[t]), signals))
    /\ edges' = [edges EXCEPT ![t] = Tail(@)]
    /\ UNCHANGED <<seen, after, signals, stateMachine, attributes, isRecording>>

-----------------------------------------------------------------------------
(* _stop_obs_if_idle                                                        *)

CheckLiveIdle(t) ==
    /\ Goto(t, "liveIdle", IF StopActive(signals) THEN "rest" ELSE "rolling")
    /\ UNCHANGED <<seen, edges, after, signals, stateMachine, sharedVars>>

CheckStillRolling(t) ==
    /\ Goto(t, "rolling", IF isRecording THEN "disarm" ELSE "rest")
    /\ UNCHANGED <<seen, edges, after, signals, stateMachine, sharedVars>>

Disarm(t) ==
    /\ Goto(t, "disarm", "forceStop")
    /\ wasStop' = FALSE
    /\ UNCHANGED <<wasStart, seen, edges, after, signals, sharedVars>>

ForceStop(t) ==
    /\ Goto(t, "forceStop", "rest")
    /\ Put(EdgeCallback("STOPPED", signals))
    /\ UNCHANGED <<seen, edges, after, signals, stateMachine, attributes, isRecording>>

-----------------------------------------------------------------------------
(* _start_obs_if_session_recording, on the poll thread only.                *)

\* Mutant of CheckSessionOn: a clip that begins starts nothing.
CheckSessionOnNever ==
    /\ Goto("poll", "sessionOn", "rest")
    /\ UNCHANGED <<seen, edges, after, signals, stateMachine, sharedVars>>

CheckSessionOn ==
    /\ Goto("poll", "sessionOn", IF signals.session = 0 THEN "rest" ELSE "obsRolling")
    /\ UNCHANGED <<seen, edges, after, signals, stateMachine, sharedVars>>

CheckNotRolling ==
    /\ Goto("poll", "obsRolling", IF isRecording THEN "rest" ELSE "startTake")
    /\ UNCHANGED <<seen, edges, after, signals, stateMachine, sharedVars>>

StartTake ==
    /\ Goto("poll", "startTake", "rest")
    /\ Put(EdgeCallback("STARTED", signals))
    /\ UNCHANGED <<seen, edges, after, signals, stateMachine, attributes, isRecording>>

-----------------------------------------------------------------------------
(* OscListener.start() on the main thread: subscribe() only sends, then the *)
(* initial scan of start_clip_poll, then apply_boot_sync, one step per      *)
(* shared attribute, then the emission of its edge.                         *)

BootScan(clip) ==
    /\ Goto("main", "scan", "bootSnapshot")
    /\ signals' = [signals EXCEPT !.clip = clip]
    /\ UNCHANGED <<seen, edges, after, stateMachine, sharedVars>>

BootSnapshot ==
    /\ BootRace \/ (pc["osc"] = "rest" /\ pc["poll"] = "rest")
    /\ Goto("main", "bootSnapshot", "bootCompare")
    /\ seen' = [seen EXCEPT !["main"] = signals]
    /\ after' = [after EXCEPT !["main"] = "up"]
    /\ UNCHANGED <<edges, signals, stateMachine, sharedVars>>

BootCompare ==
    LET started == StartActive(seen["main"]) /\ ~wasStart
    IN  /\ Goto("main", "bootCompare", IF started THEN "bootSet" ELSE "bootStop")
        /\ edges' = [edges EXCEPT !["main"] = IF started THEN <<"STARTED">> ELSE <<>>]
        /\ UNCHANGED <<seen, after, signals, stateMachine, sharedVars>>

BootSetStart ==
    /\ Goto("main", "bootSet", "bootStop")
    /\ wasStart' = TRUE
    /\ UNCHANGED <<wasStop, seen, edges, after, signals, sharedVars>>

BootSetStop ==
    /\ Goto("main", "bootStop", IF edges["main"] = <<>> THEN "up" ELSE "emit")
    /\ wasStop' = StopActive(seen["main"])
    /\ seen' = [seen EXCEPT !["main"] = NoSignals]
    /\ UNCHANGED <<wasStart, edges, after, signals, sharedVars>>

-----------------------------------------------------------------------------
OscStep ==
    \/ StampRecordMode \/ EmitCountInFinished
    \/ CheckLiveIdle("osc") \/ CheckStillRolling("osc") \/ Disarm("osc") \/ ForceStop("osc")

PollStep ==
    \/ CheckLiveIdle("poll") \/ CheckStillRolling("poll") \/ Disarm("poll") \/ ForceStop("poll")
    \/ CheckSessionOn \/ CheckNotRolling \/ StartTake

DispatchStep(t) ==
    \/ Snapshot(t) \/ CompareStart(t) \/ SetStart(t)
    \/ CompareStop(t) \/ SetStop(t) \/ EmitEdge(t)

BootStep ==
    \/ \E clip \in ClipScans : BootScan(clip)
    \/ BootSnapshot \/ BootCompare \/ BootSetStart \/ BootSetStop

\* What Live does: nothing obliges it to.
LiveInput ==
    \/ \E value \in Arrangements : OscRecordMode(value)
    \/ \E value \in Sessions : OscSessionStatus(value)
    \/ \E value \in CountIns : OscCountingIn(value)
    \/ \E clip \in ClipScans : PollScan(clip)

\* What the listener's threads do next once they have begun.
ListenerStep ==
    \/ OscStep \/ PollStep \/ BootStep
    \/ \E t \in Thread : DispatchStep(t)
=============================================================================
