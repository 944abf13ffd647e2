----------------------------- MODULE TrackQuery -----------------------------
(***************************************************************************)
(* How a resolver thread finds the name of the track that is recorded:      *)
(* resolve_track_label (bridge/metadata.py) asking Live through the         *)
(* fetch_... methods of OscListener.  Armed tracks come first, then a track *)
(* with a recording session clip, then the selected track.                  *)
(*                                                                          *)
(* Replies are kept by kind and track, but all of them, and notifications   *)
(* of record_mode and is_playing, set one event, _meta_event, and whatever  *)
(* sets it ends the wait of the fetch that runs.  The fetch then takes its  *)
(* default, and its own reply ends the wait of the next fetch.              *)
(*                                                                          *)
(* Fetches of other threads come between two of these (_query_lock is held  *)
(* for one fetch); all that is left of them is replies still to come, the   *)
(* noise here.  get_recording_track_index is the scan of module ClipScan    *)
(* and one step here, with any result.  A track is its own name.            *)
(***************************************************************************)
EXTENDS Integers, Sequences, FiniteSets

CONSTANTS
    NumTracks,      \* tracks of the Live set
    MaxLate,        \* bound: replies still to come when their fetch gave up
    QueryFaults     \* what may go wrong, a subset of QueryFaultKinds

QueryFaultKinds == {"lost", "late", "noise"}

ASSUME TrackQueryAssumption ==
    /\ NumTracks \in Nat \ {0}
    /\ MaxLate \in Nat
    /\ QueryFaults \subseteq QueryFaultKinds

Track == 0..(NumTracks - 1)
NoTrack == -1

\* What is asked; the arm and the name of a track, the rest of the set.
Key ==
    [query : {"tracks", "selected"}, track : {NoTrack}]
    \cup [query : {"arm", "name"}, track : Track]

Yes == 1
No == 0
None == -2          \* no reply was stored

Value(query) ==
    CASE query = "tracks" -> {NumTracks}
      [] query = "selected" -> Track \cup {NoTrack}
      [] query = "arm" -> {No, Yes}
      [] query = "name" -> {Yes}

Answer == {a \in [key : Key, value : Int] : a.value \in Value(a.key.query)}

\* What a fetch returns without a reply: no tracks, -1, not armed, "".
Default(query) == IF query = "selected" THEN NoTrack ELSE No

VARIABLES
    armed, selected,    \* Live: the armed tracks, the selected one
    requests,           \* sent and not answered by Live, the oldest first
    answers,            \* sent by Live and not handled by the server thread
    reply,              \* what the running fetch reads: _num_tracks, _arms[track],
                        \*   _names[track] or _selected_track
    event,              \* _meta_event
    pc,                 \* where resolve_track_label is
    phase,              \* of the fetch it is in
    track, numTracks, armedNames, recording, label,     \* its locals and result
    touched,            \* auxiliary: tracks armed or selected since it began or, if
                        \*   replies were still to come then, since an earlier one
    steady,             \* auxiliary: has Live not changed since it began?
    disturbed           \* auxiliary: was a reply of it lost, late, or mistaken?

live == <<armed, selected>>
wire == <<requests, answers>>
fetch == <<reply, event, phase>>
locals == <<pc, track, numTracks, armedNames, recording, label>>
aux == <<touched, steady, disturbed>>
vars == <<live, wire, fetch, locals, aux>>

Fetching == {"tracks", "arm", "armName", "recordingName", "selected", "selectedName"}

\* The request of each place.
Asked ==
    CASE pc = "tracks" -> [query |-> "tracks", track |-> NoTrack]
      [] pc = "selected" -> [query |-> "selected", track |-> NoTrack]
      [] pc = "arm" -> [query |-> "arm", track |-> track]
      [] pc \in {"armName", "recordingName", "selectedName"} ->
            [query |-> "name", track |-> track]

TypeOK ==
    /\ armed \subseteq Track
    /\ selected \in Track \cup {NoTrack}
    /\ requests \in Seq(Key)
    /\ answers \in Seq(Answer)
    /\ reply # None => pc \in Fetching /\ reply \in Value(Asked.query)
    /\ event \in BOOLEAN
    /\ pc \in Fetching \cup {"rest", "recording"}
    /\ phase \in {"ask", "wait", "read"}
    /\ track \in Track \cup {NoTrack}
    /\ numTracks \in {0, NumTracks}
    /\ armedNames \subseteq Track
    /\ recording \in Track \cup {NoTrack}
    /\ label \subseteq Track
    /\ touched \subseteq Track
    /\ steady \in BOOLEAN
    /\ disturbed \in BOOLEAN

Init ==
    /\ armed = {}
    /\ selected = NoTrack
    /\ requests = <<>>
    /\ answers = <<>>
    /\ reply = None
    /\ event = FALSE
    /\ pc = "rest"
    /\ phase = "ask"
    /\ track = NoTrack
    /\ numTracks = 0
    /\ armedNames = {}
    /\ recording = NoTrack
    /\ label = {}
    /\ touched = {}
    /\ steady = FALSE
    /\ disturbed = FALSE

StillToCome == Len(requests) + Len(answers)

\* Selecting the master or a return track counts as none.
Noticed == armed \cup ({selected} \ {NoTrack})

-----------------------------------------------------------------------------
(* Live, and the server thread                                              *)

Arm(tracks) ==
    /\ armed' = tracks
    /\ touched' = touched \cup tracks
    /\ steady' = FALSE
    /\ UNCHANGED <<selected, wire, fetch, locals, disturbed>>

Select(t) ==
    /\ selected' = t
    /\ touched' = touched \cup ({t} \ {NoTrack})
    /\ steady' = FALSE
    /\ UNCHANGED <<armed, wire, fetch, locals, disturbed>>

AnswerTo(key) ==
    CASE key.query = "tracks" -> NumTracks
      [] key.query = "selected" -> selected
      [] key.query = "arm" -> IF key.track \in armed THEN Yes ELSE No
      [] key.query = "name" -> Yes

LiveAnswers ==
    /\ requests # <<>>
    /\ answers' = Append(answers, [key |-> Head(requests), value |-> AnswerTo(Head(requests))])
    /\ requests' = Tail(requests)
    /\ UNCHANGED <<live, fetch, locals, aux>>

\* A fetch is between its clear and its return.  What the others would read is not
\* kept: their next fetch drops it, as it clears the event.
Reading == pc \in Fetching /\ phase # "ask"

\* Mutant of OnReply: whatever track it is about, as with playing and fired slots.
OnReplyOfAnyTrack ==
    /\ answers # <<>>
    /\ reply' = IF Reading /\ Head(answers).key.query = Asked.query
                THEN Head(answers).value
                ELSE reply
    /\ event' = (event \/ (Reading /\ phase = "wait"))
    /\ answers' = Tail(answers)
    /\ UNCHANGED <<live, requests, phase, locals, aux>>

\* _on_num_tracks, _on_arm, _on_name, _on_selected_track
OnReply ==
    /\ answers # <<>>
    /\ reply' = IF Reading /\ Head(answers).key = Asked THEN Head(answers).value ELSE reply
    /\ event' = (event \/ (Reading /\ phase = "wait"))
    /\ answers' = Tail(answers)
    /\ UNCHANGED <<live, requests, phase, locals, aux>>

\* handle_record_mode or _on_is_playing, or a late reply to another thread.
OnOtherMeta ==
    /\ "noise" \in QueryFaults /\ StillToCome <= MaxLate
    /\ pc \in Fetching /\ phase = "wait" /\ ~event
    /\ event' = TRUE
    /\ disturbed' = TRUE
    /\ UNCHANGED <<live, wire, reply, phase, locals, touched, steady>>

-----------------------------------------------------------------------------
(* fetch_num_tracks, fetch_arm, fetch_track_name, fetch_selected_track      *)

Ask ==
    /\ pc \in Fetching /\ phase = "ask"
    /\ reply' = None
    /\ event' = FALSE
    /\ requests' = Append(requests, Asked)
    /\ phase' = "wait"
    /\ UNCHANGED <<live, answers, locals, aux>>

\* _wait_meta: whatever set the event.
Wake ==
    /\ pc \in Fetching /\ phase = "wait"
    /\ event
    /\ event' = FALSE
    /\ phase' = "read"
    /\ UNCHANGED <<live, wire, reply, locals, aux>>

\* The request or its answer, the newest under way, was lost.
Loses ==
    /\ "lost" \in QueryFaults
    /\ StillToCome > 0
    /\ IF requests # <<>>
       THEN requests' = SubSeq(requests, 1, Len(requests) - 1) /\ UNCHANGED answers
       ELSE answers' = SubSeq(answers, 1, Len(answers) - 1) /\ UNCHANGED requests

\* The answer will come when nobody waits for it.
Delays == "late" \in QueryFaults /\ StillToCome <= MaxLate /\ UNCHANGED wire

\* Mutant of Timeout: the wait has no deadline.
TimeoutNever == FALSE /\ UNCHANGED vars

Timeout ==
    /\ pc \in Fetching /\ phase = "wait"
    /\ ~event
    /\ Loses \/ Delays
    /\ phase' = "read"
    /\ disturbed' = TRUE
    /\ UNCHANGED <<live, reply, event, locals, touched, steady>>

-----------------------------------------------------------------------------
(* resolve_track_label, each step on what a fetch got                       *)

Got(place) == pc = place /\ phase = "read"

\* Mutant of Reply: a fetch without a reply returns what is stored, None.
ReplyAsStored == reply

Reply == IF reply = None THEN Default(Asked.query) ELSE reply

\* The fetch has returned.
Goto(place) == pc' = place /\ phase' = "ask" /\ reply' = None

Return(tracks) ==
    /\ Goto("rest")
    /\ label' = tracks
    /\ track' = NoTrack /\ numTracks' = 0 /\ armedNames' = {}

Begin ==
    /\ pc = "rest"
    /\ Goto("tracks")
    /\ recording' = NoTrack
    /\ label' = {}
    /\ touched' = Noticed \cup (IF StillToCome > 0 THEN touched ELSE {})
    /\ steady' = TRUE
    /\ disturbed' = (StillToCome > 0)
    /\ UNCHANGED <<live, wire, event, track, numTracks, armedNames>>

\* After the loop over the tracks: the armed ones name the take, if any.
AfterLoop(names) ==
    IF names # {}
    THEN Return(names)
    ELSE Goto("recording") /\ track' = NoTrack /\ UNCHANGED <<armedNames, label>>

GotTracks ==
    /\ Got("tracks")
    /\ numTracks' = Reply
    /\ IF Reply = 0
       THEN Goto("recording") /\ UNCHANGED track
       ELSE Goto("arm") /\ track' = 0
    /\ UNCHANGED <<live, wire, event, aux, armedNames, recording, label>>

\* On to the next track of the loop, or behind the loop.
NextTrack(names) ==
    IF track + 1 < numTracks
    THEN /\ Goto("arm")
         /\ track' = track + 1
         /\ armedNames' = names
         /\ UNCHANGED <<numTracks, label>>
    ELSE AfterLoop(names) /\ (names = {} => UNCHANGED numTracks)

GotArm ==
    /\ Got("arm")
    /\ IF Reply = Yes
       THEN Goto("armName") /\ UNCHANGED <<track, numTracks, armedNames, label>>
       ELSE NextTrack(armedNames)
    /\ UNCHANGED <<live, wire, event, aux, recording>>

\* Mutant of GotArmName: the first armed track names the take.
GotFirstArmName ==
    /\ Got("armName")
    /\ IF Reply = Yes THEN Return({track}) ELSE NextTrack(armedNames)
    /\ UNCHANGED <<live, wire, event, aux, recording>>

GotArmName ==
    /\ Got("armName")
    /\ NextTrack(IF Reply = Yes THEN armedNames \cup {track} ELSE armedNames)
    /\ UNCHANGED <<live, wire, event, aux, recording>>

\* get_recording_track_index; meanwhile late replies may have come.
GotRecordingTrack ==
    /\ pc = "recording"
    /\ recording' \in Track \cup {NoTrack}
    /\ IF recording' \in 0..(numTracks - 1)
       THEN Goto("recordingName") /\ track' = recording'
       ELSE Goto("selected") /\ UNCHANGED track
    /\ UNCHANGED <<live, wire, event, aux, numTracks, armedNames, label>>

GotRecordingName ==
    /\ Got("recordingName")
    /\ IF Reply = Yes
       THEN Return({track})
       ELSE Goto("selected") /\ track' = NoTrack /\ UNCHANGED <<numTracks, armedNames, label>>
    /\ UNCHANGED <<live, wire, event, aux, recording>>

GotSelected ==
    /\ Got("selected")
    /\ IF Reply \in 0..(numTracks - 1)
       THEN Goto("selectedName") /\ track' = Reply /\ UNCHANGED <<numTracks, armedNames, label>>
       ELSE Return({})
    /\ UNCHANGED <<live, wire, event, aux, recording>>

\* "UnknownTrack" is the label without tracks.
GotSelectedName ==
    /\ Got("selectedName")
    /\ Return(IF Reply = Yes THEN {track} ELSE {})
    /\ UNCHANGED <<live, wire, event, aux, recording>>

-----------------------------------------------------------------------------
ResolveStep ==
    \/ Ask \/ Wake \/ Timeout
    \/ GotTracks \/ GotArm \/ GotArmName \/ GotRecordingTrack \/ GotRecordingName
    \/ GotSelected \/ GotSelectedName

Next ==
    \/ \E tracks \in SUBSET Track \ {armed} : Arm(tracks)
    \/ \E t \in (Track \cup {NoTrack}) \ {selected} : Select(t)
    \/ LiveAnswers \/ OnReply \/ OnOtherMeta
    \/ Begin
    \/ ResolveStep

Spec == Init /\ [][Next]_vars

\* The resolver thread runs and its waits have deadlines; Live owes no answer.
FairSpec == Spec /\ WF_vars(ResolveStep)

-----------------------------------------------------------------------------
\* DESIGN.md:118-122 and CAPTURE_MIDI.md:135, "armed, recording clip, selected".
RuleLabel ==
    IF armed # {} THEN armed
    ELSE IF recording # NoTrack THEN {recording}
    ELSE {selected} \ {NoTrack}

\* A resolution whose replies all came in time, and none out of turn, names the
\* take by the rule, all armed tracks joined (metadata.py:27).
RuleFollowed == pc = "rest" /\ steady /\ ~disturbed => label = RuleLabel

\* Whatever replies were lost, late or mistaken for others, a take is named only
\* after tracks that were armed or selected while the resolution ran - or since
\* the replies were asked for that an older one left open - or that the clip
\* scan named (osc_client.py:536, each fetch drops what the one before it stored).
NoStrangeTrack == label \subseteq touched \cup {recording}

\* The resolution ends though Live may answer nothing (osc_client.py:519).
ResolutionEnds == pc # "rest" ~> pc = "rest"

\* DESIGN.md:119, "If exactly one armed track -> use its name".
OneArmedTrackNamed ==
    pc = "rest" /\ steady /\ Cardinality(armed) = 1 => label = armed
=============================================================================
