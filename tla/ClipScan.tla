----------------------------- MODULE ClipScan -----------------------------
(***************************************************************************)
(* One scan of the clip poll thread: any_clip_recording                    *)
(* (bridge/clip_recording.py) asking Live through the fetch_... methods of *)
(* OscListener.  A fetch empties its reply slot and its event, sends a UDP *)
(* request and waits for the event or for its timeout.                     *)
(*                                                                         *)
(* The event carries no identity.  A reply that comes after the timeout of *)
(* its own fetch wakes a later one, and record_mode, is_playing and the    *)
(* replies about arms and names wake a fetch of the number of tracks.      *)
(*                                                                         *)
(* Live answers requests in the order they were sent; an answer may wait   *)
(* for the server thread while Live changes.  Module Listener takes a scan *)
(* as one step with any result; this module shows which results it may     *)
(* have.                                                                   *)
(***************************************************************************)
EXTENDS Integers, Sequences

CONSTANTS
    NumTracks,      \* tracks of the Live set
    Slots,          \* clip slots of a track
    MaxLate,        \* bound: replies that are still to come when their fetch gave up
    QueryFaults     \* what may go wrong, a subset of QueryFaultKinds

QueryFaultKinds == {"lost", "late", "noise"}

ASSUME ClipScanAssumption ==
    /\ NumTracks \in Nat \ {0}
    /\ Slots \subseteq Nat
    /\ MaxLate \in Nat
    /\ QueryFaults \subseteq QueryFaultKinds

Track == 0..(NumTracks - 1)
NoSlot == -1
Yes == 1
No == 0

\* What the poll thread asks, in this order for each track.
Query == {"tracks", "playing", "fired", "hasClip", "clip"}

\* Reply slot and event of a query: both slot indices share theirs, and so does
\* the number of tracks with other metadata.
Group == {"meta", "slot", "hasClip", "clip"}

\* Mutant of GroupOf: has_clip and is_recording share a reply slot too.
GroupOfShared(query) ==
    CASE query = "tracks" -> "meta"
      [] query \in {"playing", "fired"} -> "slot"
      [] query \in {"hasClip", "clip"} -> "clip"

GroupOf(query) ==
    CASE query = "tracks" -> "meta"
      [] query \in {"playing", "fired"} -> "slot"
      [] query = "hasClip" -> "hasClip"
      [] query = "clip" -> "clip"

\* What a fetch returns when no reply was stored: no tracks, no slot, no.
Default(group) == IF group = "slot" THEN NoSlot ELSE 0

Value(group) ==
    CASE group = "meta" -> {0, NumTracks}
      [] group = "slot" -> Slots \cup {NoSlot}
      [] group \in {"hasClip", "clip"} -> {No, Yes}

\* A track as Live reports it: the slot that plays, the slot launched and
\* waiting for the bar, the slot that records.  In the tail after session record
\* is off a slot may record while Live reports neither.
NoClip == [playing |-> NoSlot, fired |-> NoSlot, recording |-> NoSlot]
TrackState ==
    {NoClip}
    \cup [playing : {NoSlot}, fired : Slots, recording : {NoSlot}]
    \cup [playing : Slots, fired : {NoSlot}, recording : {NoSlot}]
    \cup {s \in [playing : Slots, fired : Slots \cup {NoSlot}, recording : Slots] :
            s.recording = s.playing /\ s.fired # s.playing}
    \cup [playing : {NoSlot}, fired : {NoSlot}, recording : Slots]

Request == [query : Query, track : Track, slot : Slots \cup {NoSlot}]
Answer == {a \in [group : Group, value : Int] : a.value \in Value(a.group)}

VARIABLES
    live,           \* Live's tracks
    requests,       \* sent and not answered by Live, the oldest first
    answers,        \* sent by Live and not handled by the server thread
    reply,          \* reply slot of the fetch that runs: _num_tracks, _slot_reply_value, ...
    event,          \* its event: _meta_event, _slot_reply_event, ...
    pc,             \* which query the scan is at, or "slots", or "rest"
    phase,          \* of the fetch
    track, slots, slot,   \* locals of any_clip_recording
    lastSlots,      \* _last_recording_slots; NoSlot: no entry
    found,          \* what the last scan returned
    sounded,        \* auxiliary: has a clip recorded since the scan began or, if
                    \* replies were still to come then, since an earlier one began?
    steady,         \* auxiliary: tracks that record unchanged since the scan began
    disturbed       \* auxiliary: was a reply of it lost, late, or mistaken?

wire == <<requests, answers>>
fetch == <<reply, event, phase>>
locals == <<pc, track, slots, slot, lastSlots, found>>
aux == <<sounded, steady, disturbed>>
vars == <<live, wire, fetch, locals, aux>>

StillToCome == Len(requests) + Len(answers)

TypeOK ==
    /\ live \in [Track -> TrackState]
    /\ requests \in Seq(Request)
    /\ answers \in Seq(Answer)
    /\ pc \in Query \cup {"rest", "slots"}
    /\ phase \in {"ask", "wait", "read"}
    /\ pc \in Query /\ phase # "ask" => reply \in Value(GroupOf(pc))
    /\ event \in BOOLEAN
    /\ track \in Track
    /\ slots \subseteq Slots
    /\ slot \in Slots \cup {NoSlot}
    /\ lastSlots \in [Track -> Slots \cup {NoSlot}]
    /\ found \in BOOLEAN
    /\ sounded \in BOOLEAN
    /\ steady \subseteq Track
    /\ disturbed \in BOOLEAN

Init ==
    /\ live = [t \in Track |-> NoClip]
    /\ requests = <<>>
    /\ answers = <<>>
    /\ reply = NoSlot
    /\ event = FALSE
    /\ phase = "ask"
    /\ pc = "rest"
    /\ track = 0
    /\ slots = {}
    /\ slot = NoSlot
    /\ lastSlots = [t \in Track |-> NoSlot]
    /\ found = FALSE
    /\ sounded = FALSE
    /\ steady = {}
    /\ disturbed = FALSE

Records(t) == live[t].recording # NoSlot

\* The scan can find what track t records: Live reports the slot, or reports
\* none and the scan before saw it record.
Visible(t) ==
    /\ Records(t)
    /\ \/ live[t].recording \in {live[t].playing, live[t].fired}
       \/ live[t].playing = NoSlot /\ live[t].fired = NoSlot /\ lastSlots[t] = live[t].recording

-----------------------------------------------------------------------------
(* Live, and the server thread.                                             *)

LiveChanges(t, state) ==
    /\ state # live[t]
    /\ live' = [live EXCEPT ![t] = state]
    /\ sounded' = (sounded \/ state.recording # NoSlot)
    /\ steady' = steady \ {t}
    /\ UNCHANGED <<wire, fetch, locals, disturbed>>

AsBit(b) == IF b THEN Yes ELSE No

AnswerTo(r) ==
    CASE r.query = "tracks" -> NumTracks
      [] r.query = "playing" -> live[r.track].playing
      [] r.query = "fired" -> live[r.track].fired
      [] r.query = "hasClip" ->
            AsBit(r.slot # NoSlot /\ r.slot \in {live[r.track].playing, live[r.track].recording})
      [] r.query = "clip" -> AsBit(r.slot # NoSlot /\ r.slot = live[r.track].recording)

LiveAnswers ==
    /\ requests # <<>>
    /\ LET r == Head(requests)
       IN  answers' = Append(answers, [group |-> GroupOf(r.query), value |-> AnswerTo(r)])
    /\ requests' = Tail(requests)
    /\ UNCHANGED <<live, fetch, locals, aux>>

\* A fetch of this group is between its clear and its return.  The other reply
\* slots and events hold nothing that is read: their next fetch empties them.
FetchOf(group) == pc \in Query /\ GroupOf(pc) = group /\ phase # "ask"

\* _on_num_tracks, _on_playing_slot, _on_fired_slot, _on_has_clip,
\* _on_clip_is_recording: the track and slot in the reply are not looked at.
OnReply ==
    /\ answers # <<>>
    /\ IF FetchOf(Head(answers).group)
       THEN reply' = Head(answers).value /\ event' = TRUE
       ELSE UNCHANGED <<reply, event>>
    /\ answers' = Tail(answers)
    /\ UNCHANGED <<live, requests, phase, locals, aux>>

\* record_mode, is_playing, an arm, a name or the selected track arrives.
OnOtherMeta ==
    /\ "noise" \in QueryFaults /\ StillToCome <= MaxLate
    /\ FetchOf("meta") /\ phase = "wait" /\ ~event
    /\ event' = TRUE
    /\ disturbed' = TRUE
    /\ UNCHANGED <<live, wire, reply, phase, locals, sounded, steady>>

-----------------------------------------------------------------------------
(* fetch_num_tracks, fetch_playing_slot_index, ..., one at a time.          *)

Ask ==
    /\ pc \in Query /\ phase = "ask"
    /\ reply' = Default(GroupOf(pc))
    /\ event' = FALSE
    /\ requests' = Append(requests, [query |-> pc, track |-> track, slot |-> slot])
    /\ phase' = "wait"
    /\ UNCHANGED <<live, answers, locals, aux>>

Wake ==
    /\ pc \in Query /\ phase = "wait"
    /\ event
    /\ event' = FALSE
    /\ phase' = "read"
    /\ UNCHANGED <<live, wire, reply, locals, aux>>

\* The request or its answer was lost.  It is the newest of its kind.
Loses ==
    /\ "lost" \in QueryFaults
    /\ IF requests # <<>>
       THEN requests' = SubSeq(requests, 1, Len(requests) - 1) /\ UNCHANGED answers
       ELSE answers' = SubSeq(answers, 1, Len(answers) - 1) /\ UNCHANGED requests

\* The answer will come when nobody waits for it.
Delays == "late" \in QueryFaults /\ StillToCome <= MaxLate /\ UNCHANGED wire

\* Mutant of Timeout: the wait has no deadline.
TimeoutNever == FALSE /\ UNCHANGED vars

Timeout ==
    /\ pc \in Query /\ phase = "wait"
    /\ ~event
    /\ Loses \/ Delays
    /\ phase' = "read"
    /\ disturbed' = TRUE
    /\ UNCHANGED <<live, reply, event, locals, sounded, steady>>

-----------------------------------------------------------------------------
(* any_clip_recording and _slots_to_check, each step on what a fetch got.   *)

Got(query) == pc = query /\ phase = "read"

NextQuery(query) == pc' = query /\ phase' = "ask"

Finish(recording) == NextQuery("rest") /\ found' = recording /\ slots' = {} /\ slot' = NoSlot

BeginScan ==
    /\ pc = "rest"
    /\ NextQuery("tracks")
    /\ track' = 0
    /\ sounded' = \/ \E t \in Track : Records(t)
                  \/ sounded /\ StillToCome > 0
    /\ steady' = {t \in Track : Visible(t)}
    /\ disturbed' = (StillToCome > 0)
    /\ UNCHANGED <<live, wire, reply, event, slots, slot, lastSlots, found>>

GotTracks ==
    /\ Got("tracks")
    /\ IF reply = 0
       THEN Finish(FALSE)
       ELSE NextQuery("playing") /\ UNCHANGED <<slots, slot, found>>
    /\ UNCHANGED <<live, wire, reply, event, aux, track, lastSlots>>

\* Mutant of GotPlaying: -1 counts as a slot.
GotPlayingAny ==
    /\ Got("playing")
    /\ slots' = {reply}
    /\ NextQuery("fired")
    /\ UNCHANGED <<live, wire, reply, event, aux, track, slot, lastSlots, found>>

GotPlaying ==
    /\ Got("playing")
    /\ slots' = {reply} \ {NoSlot}
    /\ NextQuery("fired")
    /\ UNCHANGED <<live, wire, reply, event, aux, track, slot, lastSlots, found>>

\* Mutant of GotFired: the slot that recorded last is not looked at.
GotFiredOnly ==
    /\ Got("fired")
    /\ slots' = slots \cup ({reply} \ {NoSlot})
    /\ NextQuery("slots")
    /\ UNCHANGED <<live, wire, reply, event, aux, track, slot, lastSlots, found>>

GotFired ==
    /\ Got("fired")
    /\ LET shown == slots \cup ({reply} \ {NoSlot})
       IN  slots' = IF shown = {} THEN {lastSlots[track]} \ {NoSlot} ELSE shown
    /\ NextQuery("slots")
    /\ UNCHANGED <<live, wire, reply, event, aux, track, slot, lastSlots, found>>

NextSlot ==
    /\ pc = "slots"
    /\ slot' \in slots
    /\ slots' = slots \ {slot'}
    /\ NextQuery("hasClip")
    /\ UNCHANGED <<live, wire, reply, event, aux, track, lastSlots, found>>

NextTrack ==
    /\ pc = "slots" /\ slots = {}
    /\ lastSlots' = [lastSlots EXCEPT ![track] = NoSlot]
    /\ IF track + 1 < NumTracks
       THEN NextQuery("playing") /\ track' = track + 1 /\ slot' = NoSlot /\ UNCHANGED <<slots, found>>
       ELSE Finish(FALSE) /\ UNCHANGED track
    /\ UNCHANGED <<live, wire, reply, event, aux>>

GotHasClip ==
    /\ Got("hasClip")
    /\ NextQuery(IF reply = Yes THEN "clip" ELSE "slots")
    /\ UNCHANGED <<live, wire, reply, event, aux, track, slots, slot, lastSlots, found>>

GotRecording ==
    /\ Got("clip")
    /\ IF reply = Yes
       THEN Finish(TRUE) /\ lastSlots' = [lastSlots EXCEPT ![track] = slot]
       ELSE NextQuery("slots") /\ UNCHANGED <<slots, slot, lastSlots, found>>
    /\ UNCHANGED <<live, wire, reply, event, aux, track>>

-----------------------------------------------------------------------------
Fetch == Ask \/ Wake \/ Timeout

ScanStep ==
    \/ Fetch
    \/ GotTracks \/ GotPlaying \/ GotFired \/ NextSlot \/ NextTrack
    \/ GotHasClip \/ GotRecording

Next ==
    \/ \E t \in Track, state \in TrackState : LiveChanges(t, state)
    \/ LiveAnswers \/ OnReply \/ OnOtherMeta
    \/ BeginScan
    \/ ScanStep

Spec == Init /\ [][Next]_vars

\* The poll thread runs and its waits have deadlines; Live owes no answer.
FairSpec == Spec /\ WF_vars(ScanStep)

-----------------------------------------------------------------------------
\* A scan in which every reply came in time finds a clip that recorded
\* throughout it, also in the tail in which Live reports no slot
\* (clip_recording.py:32, _last_recording_slots).
ScanSeesRecording == pc = "rest" /\ ~disturbed /\ steady # {} => found

\* Whatever replies were lost, late or mistaken for others: a scan reports a
\* recording only if some clip recorded while it ran, or since the replies
\* were asked for that an older scan left open (osc_client.py:368, every fetch
\* drops the value of the one before).  So OBS is not started for nothing.
NoPhantomRecording == pc = "rest" /\ found => sounded

\* Every scan ends, whatever is lost and although Live may answer nothing: no
\* fetch waits without a deadline (osc_client.py:319, :519).  The first scan
\* runs on the main thread, so the bridge would not start.
ScanEnds == pc # "rest" ~> pc = "rest"
=============================================================================
