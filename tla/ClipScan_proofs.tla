-------------------------- MODULE ClipScan_proofs --------------------------
(***************************************************************************)
(* A clip scan reports a recording only if one sounded, whatever replies   *)
(* are lost, late or mistaken for others, for every number of tracks and   *)
(* slots.  The argument: a "yes" about is_recording is true when Live says *)
(* it, and from then on it can only be in an answer on its way or in the   *)
(* reply slot of a fetch of is_recording, for no other query shares that   *)
(* slot.                                                                   *)
(*                                                                         *)
(* And a scan that nothing disturbs misses no clip: each fetch then is one *)
(* request, its answer and one wake-up, and what it reads of a track that  *)
(* records unchanged leads to the slot that records.                       *)
(*                                                                         *)
(* And every scan is over after three steps for each of at most six        *)
(* fetches per track and one more: no step of it leads back.               *)
(***************************************************************************)
EXTENDS ClipScan, FiniteSetTheorems, TLAPS

\* What holds of every yes, wherever it is.
Truthful ==
    /\ \A t \in Track : Records(t) => sounded
    /\ \A i \in 1..Len(answers) :
          answers[i].group = "clip" /\ answers[i].value = Yes => sounded
    /\ FetchOf("clip") /\ reply = Yes => sounded
    /\ NoPhantomRecording

-----------------------------------------------------------------------------
\* The fields of a track's state are slots or NoSlot (Live's clip slots).
LEMMA TrackStateFields ==
    ASSUME NEW s \in TrackState
    PROVE  /\ s.playing \in Slots \cup {NoSlot}
           /\ s.fired \in Slots \cup {NoSlot}
           /\ s.recording \in Slots \cup {NoSlot}
  BY DEF TrackState, NoClip

\* Live's answer fits the reply slot it is for.
LEMMA AnswerFits ==
    ASSUME TypeOK, NEW r \in Request
    PROVE  [group |-> GroupOf(r.query), value |-> AnswerTo(r)] \in Answer
  <1>1. GroupOf(r.query) \in Group
    BY DEF Request, Query, GroupOf, Group
  <1>2. /\ live[r.track].playing \in Slots \cup {NoSlot}
        /\ live[r.track].fired \in Slots \cup {NoSlot}
    BY TrackStateFields DEF TypeOK, Request
  <1>3. AnswerTo(r) \in Value(GroupOf(r.query))
    BY <1>2 DEF AnswerTo, Value, GroupOf, Request, Query, AsBit, Yes, No
  <1>4. Value(GroupOf(r.query)) \subseteq Int
    BY <1>1, ClipScanAssumption DEF Value, Group, Yes, No, NoSlot
  <1> QED BY <1>1, <1>3, <1>4 DEF Answer

\* What a fetch returns without a reply fits too.
LEMMA DefaultFits ==
    ASSUME NEW query \in Query
    PROVE  Default(GroupOf(query)) \in Value(GroupOf(query))
  BY DEF Query, GroupOf, Default, Value, No, Yes, NoSlot

\* Taking the newest message off the wire.
LEMMA DropLast ==
    ASSUME NEW S, NEW q \in Seq(S)
    PROVE  /\ SubSeq(q, 1, Len(q) - 1) \in Seq(S)
           /\ \A i \in 1..Len(SubSeq(q, 1, Len(q) - 1)) :
                 i \in 1..Len(q) /\ SubSeq(q, 1, Len(q) - 1)[i] = q[i]
  <1>1. CASE q = <<>>
    BY <1>1
  <1>2. CASE q # <<>>
    <2>1. Len(q) \in Nat /\ Len(q) > 0
      BY <1>2
    <2> QED BY <2>1
  <1> QED BY <1>1, <1>2

-----------------------------------------------------------------------------
\* Every variable keeps its type.
THEOREM ClipScanTypeCorrect == Spec => []TypeOK
  <1>1. Init => TypeOK
    <2>1. 0 \in Track
      BY ClipScanAssumption DEF Track
    <2>2. NoClip \in TrackState
      BY DEF TrackState
    <2>3. <<>> \in Seq(Request) /\ <<>> \in Seq(Answer)
      OBVIOUS
    <2> QED BY <2>1, <2>2, <2>3 DEF Init, TypeOK, Query
  <1>2. TypeOK /\ [Next]_vars => TypeOK'
    <2> SUFFICES ASSUME TypeOK, [Next]_vars PROVE TypeOK'
      OBVIOUS
    <2> USE DEF wire, fetch, locals, aux
    <2>1. ASSUME NEW t \in Track, NEW state \in TrackState, LiveChanges(t, state)
          PROVE  TypeOK'
      BY <2>1 DEF TypeOK, LiveChanges, FetchOf
    <2>2. CASE LiveAnswers
      <3>1. Head(requests) \in Request /\ requests' \in Seq(Request)
        BY <2>2 DEF LiveAnswers, TypeOK
      <3>2. answers' \in Seq(Answer)
        BY <2>2, <3>1, AnswerFits DEF LiveAnswers, TypeOK
      <3> QED BY <2>2, <3>1, <3>2 DEF LiveAnswers, TypeOK
    <2>3. CASE OnReply
      <3>1. Head(answers) \in Answer /\ answers' \in Seq(Answer)
        BY <2>3 DEF OnReply, TypeOK
      <3>2. FetchOf(Head(answers).group) => Head(answers).value \in Value(GroupOf(pc))
        BY <3>1 DEF FetchOf, Answer
      <3> QED BY <2>3, <3>1, <3>2 DEF OnReply, TypeOK
    <2>4. CASE OnOtherMeta
      BY <2>4 DEF OnOtherMeta, TypeOK
    <2>5. CASE BeginScan
      BY <2>5, ClipScanAssumption DEF BeginScan, NextQuery, TypeOK, Track, Query
    <2>6. CASE Ask
      <3>1. [query |-> pc, track |-> track, slot |-> slot] \in Request
        BY <2>6 DEF Ask, TypeOK, Request
      <3>2. requests' \in Seq(Request)
        BY <2>6, <3>1 DEF Ask, TypeOK
      <3> QED BY <2>6, <3>2, DefaultFits DEF Ask, TypeOK
    <2>7. CASE Wake
      BY <2>7 DEF Wake, TypeOK
    <2>8. CASE Timeout
      <3>1. requests' \in Seq(Request) /\ answers' \in Seq(Answer)
        BY <2>8, DropLast DEF Timeout, Loses, Delays, TypeOK
      <3> QED BY <2>8, <3>1 DEF Timeout, TypeOK
    <2>9. CASE GotTracks
      BY <2>9 DEF GotTracks, Got, Finish, NextQuery, TypeOK, Query
    <2>10. CASE GotPlaying
      <3>1. reply \in Slots \cup {NoSlot}
        BY <2>10 DEF GotPlaying, Got, TypeOK, Value, GroupOf, Query
      <3> QED BY <2>10, <3>1 DEF GotPlaying, Got, NextQuery, TypeOK, Query
    <2>11. CASE GotFired
      <3>1. reply \in Slots \cup {NoSlot}
        BY <2>11 DEF GotFired, Got, TypeOK, Value, GroupOf, Query
      <3>2. lastSlots[track] \in Slots \cup {NoSlot}
        BY DEF TypeOK
      <3>3. slots' \subseteq Slots
        BY <2>11, <3>1, <3>2 DEF GotFired, TypeOK
      <3> QED BY <2>11, <3>3 DEF GotFired, Got, NextQuery, TypeOK, Query
    <2>12. CASE NextSlot
      BY <2>12 DEF NextSlot, NextQuery, TypeOK, Query
    <2>13. CASE NextTrack
      <3>1. lastSlots' \in [Track -> Slots \cup {NoSlot}]
        BY <2>13 DEF NextTrack, TypeOK
      <3>2. track' \in Track
        BY <2>13, ClipScanAssumption DEF NextTrack, TypeOK, Track
      <3> QED BY <2>13, <3>1, <3>2 DEF NextTrack, Finish, NextQuery, TypeOK, Query
    <2>14. CASE GotHasClip
      BY <2>14 DEF GotHasClip, Got, NextQuery, TypeOK, Query
    <2>15. CASE GotRecording
      BY <2>15 DEF GotRecording, Got, Finish, NextQuery, TypeOK, Query
    <2>16. CASE UNCHANGED vars
      BY <2>16 DEF vars, TypeOK
    <2> QED
      BY <2>1, <2>2, <2>3, <2>4, <2>5, <2>6, <2>7, <2>8, <2>9, <2>10, <2>11, <2>12,
         <2>13, <2>14, <2>15, <2>16 DEF Next, ScanStep, Fetch
  <1> QED BY <1>1, <1>2, PTL DEF Spec

-----------------------------------------------------------------------------
\* A yes about is_recording is true at the moment Live says it.
LEMMA AnswerIsTrue ==
    ASSUME TypeOK, Truthful, NEW r \in Request,
           GroupOf(r.query) = "clip", AnswerTo(r) = Yes
    PROVE  sounded
  <1>1. r.query = "clip"
    BY DEF Request, Query, GroupOf
  <1>2. r.slot # NoSlot /\ r.slot = live[r.track].recording
    BY <1>1 DEF AnswerTo, AsBit, Yes, No
  <1> QED BY <1>2 DEF Truthful, Records, Request

\* Truthful is inductive: no step makes a yes out of nothing.
LEMMA TruthfulStep == TypeOK /\ Truthful /\ [Next]_vars => Truthful'
  <1> SUFFICES ASSUME TypeOK, Truthful, [Next]_vars PROVE Truthful'
    OBVIOUS
  <1> USE DEF wire, fetch, locals, aux, NoPhantomRecording
  <1>1. ASSUME NEW t \in Track, NEW state \in TrackState, LiveChanges(t, state)
        PROVE  Truthful'
    <2>1. sounded => sounded'
      BY <1>1 DEF LiveChanges
    <2>2. ASSUME NEW u \in Track, Records(u)' PROVE sounded'
      BY <1>1, <2>1, <2>2 DEF LiveChanges, Records, Truthful, TypeOK
    <2> QED BY <1>1, <2>1, <2>2 DEF LiveChanges, Truthful, FetchOf
  <1>2. CASE LiveAnswers
    <2> DEFINE a == [group |-> GroupOf(Head(requests).query), value |-> AnswerTo(Head(requests))]
    <2>1. Head(requests) \in Request
      BY <1>2 DEF LiveAnswers, TypeOK
    <2>2. a \in Answer
      BY <2>1, AnswerFits
    <2>3. a.group = "clip" /\ a.value = Yes => sounded
      BY <2>1, AnswerIsTrue
    <2>4. answers' = Append(answers, a) /\ sounded' = sounded
      BY <1>2 DEF LiveAnswers
    <2>5. ASSUME NEW i \in 1..Len(answers'), answers'[i].group = "clip", answers'[i].value = Yes
          PROVE  sounded'
      <3> HIDE DEF a
      <3>1. answers \in Seq(Answer)
        BY DEF TypeOK
      <3>2. \/ i \in 1..Len(answers) /\ answers'[i] = answers[i]
            \/ answers'[i] = a
        BY <2>2, <2>4, <3>1
      <3> QED BY <2>3, <2>4, <2>5, <3>2 DEF Truthful
    <2> QED BY <1>2, <2>5 DEF LiveAnswers, Truthful, FetchOf, Records
  <1>3. CASE OnReply
    <2>1. answers \in Seq(Answer) /\ answers # <<>> /\ answers' = Tail(answers)
      BY <1>3 DEF OnReply, TypeOK
    <2>2. ASSUME NEW i \in 1..Len(answers')
          PROVE  i + 1 \in 1..Len(answers) /\ answers'[i] = answers[i + 1]
      BY <2>1
    <2>3. 1 \in 1..Len(answers) /\ Head(answers) = answers[1]
      BY <2>1
    <2>4. ASSUME FetchOf("clip")', reply' = Yes PROVE sounded
      <3>1. FetchOf("clip")
        BY <1>3, <2>4 DEF OnReply, FetchOf
      <3>2. CASE FetchOf(Head(answers).group)
        <4>1. Head(answers).group = "clip" /\ Head(answers).value = Yes
          BY <1>3, <2>4, <3>1, <3>2 DEF OnReply, FetchOf
        <4> QED BY <4>1, <2>3 DEF Truthful
      <3>3. CASE ~FetchOf(Head(answers).group)
        BY <1>3, <2>4, <3>1, <3>3 DEF OnReply, Truthful
      <3> QED BY <3>2, <3>3
    <2> QED BY <1>3, <2>2, <2>4 DEF OnReply, Truthful, Records
  <1>4. CASE OnOtherMeta
    BY <1>4 DEF OnOtherMeta, Truthful, FetchOf, Records
  <1>5. CASE BeginScan
    <2>1. ASSUME NEW i \in 1..Len(answers) PROVE StillToCome > 0
      BY DEF StillToCome, TypeOK
    <2> QED BY <1>5, <2>1 DEF BeginScan, NextQuery, Truthful, FetchOf, Records
  <1>6. CASE Ask
    <2>1. GroupOf(pc) = "clip" => reply' # Yes
      BY <1>6 DEF Ask, Default, Yes
    <2> QED BY <1>6, <2>1 DEF Ask, Truthful, FetchOf, Records
  <1>7. CASE Wake
    BY <1>7 DEF Wake, Truthful, FetchOf, Records
  <1>8. CASE Timeout
    <2>1. \/ answers' = answers
          \/ answers' = SubSeq(answers, 1, Len(answers) - 1)
      BY <1>8 DEF Timeout, Loses, Delays
    <2>2. answers \in Seq(Answer)
      BY DEF TypeOK
    <2>3. ASSUME NEW i \in 1..Len(answers')
          PROVE  i \in 1..Len(answers) /\ answers'[i] = answers[i]
      BY <2>1, <2>2, <2>3, DropLast
    <2> QED BY <1>8, <2>3 DEF Timeout, Truthful, FetchOf, Records
  <1>9. CASE GotTracks \/ GotPlaying \/ GotFired \/ NextSlot \/ NextTrack \/ GotHasClip
    BY <1>9 DEF GotTracks, GotPlaying, GotFired, NextSlot, NextTrack, GotHasClip, Finish,
         NextQuery, Truthful, FetchOf, Records
  <1>10. CASE GotRecording
    <2>1. reply = Yes => sounded
      BY <1>10 DEF GotRecording, Got, Truthful, FetchOf, GroupOf, Query
    <2> QED BY <1>10, <2>1 DEF GotRecording, Finish, NextQuery, Truthful, FetchOf, Records
  <1>11. CASE UNCHANGED vars
    BY <1>11 DEF vars, Truthful, FetchOf, Records
  <1> QED
    BY <1>1, <1>2, <1>3, <1>4, <1>5, <1>6, <1>7, <1>8, <1>9, <1>10, <1>11
       DEF Next, ScanStep, Fetch

\* A scan reports a recording only if a clip recorded since it began, or since
\* an earlier one left replies to come (any_clip_recording over the fetches).
THEOREM NoPhantom == Spec => []NoPhantomRecording
  <1>1. Init => Truthful
    BY DEF Init, Truthful, NoPhantomRecording, Records, NoClip, FetchOf
  <1>2. Truthful => NoPhantomRecording
    BY DEF Truthful
  <1> QED BY <1>1, <1>2, TruthfulStep, ClipScanTypeCorrect, PTL DEF Spec
-----------------------------------------------------------------------------
(* A scan that nothing disturbs: each fetch is one request, its answer, one *)
(* wake-up; and what is found of a steady track is what Live has.           *)

Orderly == ~disturbed /\ pc # "rest"

Question == [query |-> pc, track |-> track, slot |-> slot]

\* Is value what Live says now, if the track that is asked about is steady?
Current(value) ==
    /\ pc = "tracks" => value = NumTracks
    /\ track \in steady => value = AnswerTo(Question)

\* The request of the running fetch, or its answer, is the only message.
OneMessage ==
    \/ requests = <<Question>> /\ answers = <<>>
    \/ /\ requests = <<>>
       /\ \E value \in Int :
            answers = <<[group |-> GroupOf(pc), value |-> value]>> /\ Current(value)

Unanswered == pc \in Query /\ phase = "wait" /\ ~event
Answered == pc \in Query /\ (phase = "read" \/ (phase = "wait" /\ event))

Conversation ==
    /\ Unanswered => OneMessage
    /\ ~Unanswered => requests = <<>> /\ answers = <<>>
    /\ Answered => Current(reply)

\* Steady tracks are still ahead, and the slot that records will be asked about.
Ahead ==
    /\ \A t \in steady : Visible(t) /\ t >= track
    /\ track \in steady =>
        /\ pc = "fired" => slots = {live[track].playing} \ {NoSlot}
        /\ pc = "slots" => live[track].recording \in slots
        /\ pc \in {"hasClip", "clip"} => live[track].recording \in slots \cup {slot}

Attentive == (Orderly => Conversation /\ Ahead) /\ ScanSeesRecording

\* A queue of one.
LEMMA Single == \A m : Tail(<<m>>) = <<>> /\ Head(<<m>>) = m
  OBVIOUS

\* Only the answers about a track that changes lose their meaning.
LEMMA AttentiveLive ==
    ASSUME TypeOK, Attentive, NEW t \in Track, NEW state \in TrackState, LiveChanges(t, state)
    PROVE  Attentive'
  <1> USE DEF Attentive
  <1>1. /\ UNCHANGED <<wire, fetch, locals, disturbed>> /\ steady' = steady \ {t}
        /\ \A u \in Track : u # t => live'[u] = live[u]
    BY DEF LiveChanges, TypeOK
  <1>2. steady' \subseteq steady /\ steady \subseteq Track
    BY <1>1 DEF TypeOK
  <1>3. Orderly' = Orderly /\ Question' = Question /\ Unanswered' = Unanswered /\ Answered' = Answered
    BY <1>1 DEF wire, fetch, locals, Orderly, Question, Unanswered, Answered
  <1>4. track \in steady' => AnswerTo(Question)' = AnswerTo(Question)
    <2> SUFFICES ASSUME track \in steady' PROVE AnswerTo(Question)' = AnswerTo(Question)
      OBVIOUS
    <2>1. live'[track] = live[track] /\ Question.track = track
      BY <1>1, <1>2 DEF Question
    <2> QED BY <1>3, <2>1 DEF AnswerTo
  <1>5. \A value : Current(value) => Current(value)'
    BY <1>1, <1>2, <1>4 DEF Current, locals
  <1>6. Orderly => Conversation'
    BY <1>1, <1>3, <1>5 DEF Conversation, OneMessage, wire, fetch, locals
  <1>7. \A u \in steady' : live'[u] = live[u] /\ Visible(u)' = Visible(u)
    BY <1>1, <1>2 DEF Visible, Records, locals
  <1>8. Orderly => Ahead'
    <2>1. UNCHANGED <<pc, track, slots, slot>>
      BY <1>1 DEF locals
    <2> QED BY <1>2, <1>7, <2>1 DEF Ahead
  <1> QED BY <1>1, <1>2, <1>3, <1>6, <1>8 DEF ScanSeesRecording, locals

\* The messages of an undisturbed scan.
LEMMA AttentiveWire ==
    ASSUME TypeOK, Attentive, LiveAnswers \/ OnReply \/ OnOtherMeta
    PROVE  Attentive'
  <1> USE DEF Attentive
  <1>1. CASE LiveAnswers
    <2>1. /\ requests # <<>> /\ requests' = Tail(requests)
          /\ answers' = Append(answers, [group |-> GroupOf(Head(requests).query),
                                         value |-> AnswerTo(Head(requests))])
          /\ UNCHANGED <<live, fetch, locals, aux>>
      BY <1>1 DEF LiveAnswers
    <2>2. /\ Question' = Question /\ Orderly' = Orderly /\ Unanswered' = Unanswered
          /\ Answered' = Answered /\ Ahead' = Ahead /\ ScanSeesRecording' = ScanSeesRecording
          /\ \A value : Current(value)' = Current(value)
      BY <2>1 DEF fetch, locals, aux, Question, Orderly, Unanswered, Answered, Ahead, Visible,
           Records, ScanSeesRecording, Current, AnswerTo
    <2>3. ASSUME Orderly PROVE Conversation'
      <3>1. requests = <<Question>> /\ answers = <<>> /\ Unanswered
        BY <2>1, <2>3 DEF Conversation, OneMessage
      <3>2. Head(requests) = Question /\ Question.query = pc /\ Question \in Request
        BY <3>1 DEF Question, Request, TypeOK, Unanswered
      <3>3. /\ requests' = <<>>
            /\ answers' = <<[group |-> GroupOf(pc), value |-> AnswerTo(Question)]>>
        BY <2>1, <3>1, <3>2
      <3>4. AnswerTo(Question) \in Int
        BY <3>2, AnswerFits DEF Answer
      <3>5. Current(AnswerTo(Question))
        BY <3>2 DEF Current, AnswerTo
      <3>6. OneMessage'
        BY <2>1, <2>2, <3>3, <3>4, <3>5 DEF OneMessage, locals
      <3> QED BY <2>2, <3>1, <3>6 DEF Conversation, Unanswered, Answered
    <2> QED BY <2>2, <2>3
  <1>2. CASE OnReply
    <2>1. /\ answers # <<>> /\ answers' = Tail(answers)
          /\ UNCHANGED <<live, requests, phase, locals, aux>>
          /\ FetchOf(Head(answers).group) => reply' = Head(answers).value /\ event'
      BY <1>2 DEF OnReply
    <2>2. /\ Question' = Question /\ Orderly' = Orderly
          /\ Ahead' = Ahead /\ ScanSeesRecording' = ScanSeesRecording
          /\ \A value : Current(value)' = Current(value)
      BY <2>1 DEF locals, aux, Question, Orderly, Ahead, Visible, Records, ScanSeesRecording,
           Current, AnswerTo
    <2>3. ASSUME Orderly PROVE Conversation'
      <3>1. Unanswered /\ requests = <<>>
        BY <2>1, <2>3 DEF Conversation, OneMessage
      <3>2. PICK value \in Int :
                answers = <<[group |-> GroupOf(pc), value |-> value]>> /\ Current(value)
        BY <2>1, <2>3, <3>1 DEF Conversation, OneMessage
      <3>3. Head(answers) = [group |-> GroupOf(pc), value |-> value] /\ Tail(answers) = <<>>
        BY <3>2, Single, Zenon
      <3>4. Head(answers).group = GroupOf(pc) /\ Head(answers).value = value
        BY <3>3
      <3>5. reply' = value /\ event'
        BY <2>1, <3>1, <3>4 DEF FetchOf, Unanswered
      <3>6. requests' = <<>> /\ answers' = <<>>
        BY <2>1, <3>1, <3>3, Zenon
      <3>7. Current(reply)'
        BY <2>2, <3>2, <3>5 DEF Current
      <3> QED BY <3>5, <3>6, <3>7 DEF Conversation, Unanswered
    <2> QED BY <2>2, <2>3
  <1>3. CASE OnOtherMeta
    BY <1>3 DEF OnOtherMeta, Orderly, ScanSeesRecording
  <1> QED BY <1>1, <1>2, <1>3

\* An undisturbed fetch asks, and wakes with the answer to what it asked.
LEMMA AttentiveFetch == ASSUME Attentive, Ask \/ Wake \/ Timeout PROVE Attentive'
  <1> USE DEF Attentive
  <1>1. CASE Timeout
    BY <1>1 DEF Timeout, Orderly, ScanSeesRecording
  <1>2. ASSUME Ask \/ Wake
        PROVE  /\ Question' = Question /\ Orderly' = Orderly /\ pc' = pc
               /\ Ahead' = Ahead /\ ScanSeesRecording' = ScanSeesRecording
               /\ \A value : Current(value)' = Current(value)
    <2>1. UNCHANGED <<live, locals, aux>>
      BY <1>2 DEF Ask, Wake
    <2> QED BY <2>1 DEF locals, aux, Question, Orderly, Ahead, Visible, Records,
                 ScanSeesRecording, Current, AnswerTo
  <1>3. CASE Ask
    <2>1. ASSUME Orderly PROVE Conversation'
      <3>1. requests = <<>> /\ answers = <<>>
        BY <1>3, <2>1 DEF Conversation, Ask, Unanswered
      <3>2. requests' = <<Question>> /\ answers' = <<>> /\ phase' = "wait" /\ ~event' /\ pc \in Query
        BY <1>3, <3>1 DEF Ask, Question
      <3> QED BY <1>2, <1>3, <3>2 DEF Conversation, OneMessage, Unanswered, Answered
    <2> QED BY <1>2, <1>3, <2>1
  <1>4. CASE Wake
    <2>1. ASSUME Orderly PROVE Conversation'
      <3>1. requests = <<>> /\ answers = <<>> /\ Current(reply)
        BY <1>4, <2>1 DEF Conversation, Wake, Unanswered, Answered
      <3>2. UNCHANGED <<wire, reply>> /\ phase' = "read" /\ Current(reply)' = Current(reply)
        <4>1. UNCHANGED <<wire, reply, live, locals, aux>> /\ phase' = "read"
          BY <1>4 DEF Wake
        <4> QED BY <4>1 DEF Current, AnswerTo, Question, locals, aux
      <3> QED BY <1>4, <3>1, <3>2 DEF Conversation, Unanswered, wire
    <2> QED BY <1>2, <1>4, <2>1
  <1> QED BY <1>1, <1>3, <1>4

\* What the next place needs, when one reply was read or the scan moves on.
LEMMA AttentiveGoto ==
    ASSUME Attentive, pc # "rest", UNCHANGED <<live, wire, reply, event, aux>>, phase' = "ask",
           Orderly => (requests = <<>> /\ answers = <<>>),
           Orderly /\ pc' # "rest" => Ahead',
           Orderly /\ pc' = "rest" => found' \/ steady = {}
    PROVE  Attentive'
  BY DEF Attentive, Orderly, Conversation, Unanswered, Answered, ScanSeesRecording, wire, aux

\* An undisturbed scan, told what Live has, comes to every steady track.
LEMMA AttentiveScan ==
    ASSUME TypeOK, Attentive,
           GotTracks \/ GotPlaying \/ GotFired \/ NextSlot \/ NextTrack \/ GotHasClip \/ GotRecording
    PROVE  Attentive'
  <1> DEFINE r == live[track].recording
  <1>1. /\ pc # "rest" /\ UNCHANGED <<live, wire, reply, event, aux>> /\ phase' = "ask"
        /\ steady' = steady /\ live' = live
    BY DEF GotTracks, GotPlaying, GotFired, NextSlot, NextTrack, GotHasClip, GotRecording, Got,
         Finish, NextQuery, aux
  <1>2. ASSUME Orderly
        PROVE  /\ requests = <<>> /\ answers = <<>> /\ Ahead
               /\ pc \in Query => Current(reply)
    <2>1. pc \in Query => phase = "read"
      BY DEF GotTracks, GotPlaying, GotFired, NextSlot, NextTrack, GotHasClip, GotRecording, Got,
           Query
    <2> QED BY <1>2, <2>1 DEF Attentive, Conversation, Unanswered, Answered
  <1>3. (track' = track /\ lastSlots' = lastSlots) => \A t \in steady : Visible(t)' = Visible(t)
    BY <1>1 DEF Visible, Records
  <1>4. /\ track \in Track /\ Track \subseteq Nat /\ steady \subseteq Track
        /\ NumTracks \in Nat \ {0} /\ Track = 0..(NumTracks - 1)
    BY ClipScanAssumption DEF TypeOK, Track
  <1>5. Orderly /\ track \in steady => r # NoSlot
    BY <1>2 DEF Ahead, Visible, Records
  <1>6. CASE GotTracks
    <2>1. ASSUME Orderly PROVE pc' = "playing" /\ track' = track /\ lastSlots' = lastSlots
      BY <1>2, <1>4, <1>6, <2>1 DEF GotTracks, Got, NextQuery, Current, Query
    <2>2. Orderly => pc' # "rest" /\ Ahead'
      BY <1>1, <1>2, <1>3, <2>1 DEF Ahead
    <2> QED BY <1>1, <1>2, <2>2, AttentiveGoto
  <1>7. CASE GotPlaying
    <2>1. /\ pc' = "fired" /\ track' = track /\ lastSlots' = lastSlots /\ slots' = {reply} \ {NoSlot}
          /\ pc = "playing"
      BY <1>7 DEF GotPlaying, Got, NextQuery
    <2>2. ASSUME Orderly, track \in steady PROVE reply = live[track].playing
      BY <1>2, <2>1, <2>2 DEF Current, AnswerTo, Question, Query
    <2>3. Orderly => Ahead'
      BY <1>1, <1>2, <1>3, <2>1, <2>2 DEF Ahead
    <2> QED BY <1>1, <1>2, <2>1, <2>3, AttentiveGoto
  <1>8. CASE GotFired
    <2>1. /\ pc' = "slots" /\ track' = track /\ lastSlots' = lastSlots /\ pc = "fired"
      BY <1>8 DEF GotFired, Got, NextQuery
    <2>2. ASSUME Orderly, track \in steady PROVE r \in slots'
      <3>1. reply = live[track].fired /\ slots = {live[track].playing} \ {NoSlot}
        BY <1>2, <2>1, <2>2 DEF Current, AnswerTo, Question, Query, Ahead
      <3> DEFINE shown == {live[track].playing, live[track].fired} \ {NoSlot}
      <3>2. shown = slots \cup ({reply} \ {NoSlot})
        BY <3>1
      <3>3. slots' = IF shown = {} THEN {lastSlots[track]} \ {NoSlot} ELSE shown
        BY <1>8, <3>2, Zenon DEF GotFired
      <3>4. Visible(track) /\ r # NoSlot
        BY <1>2, <2>2, <1>5 DEF Ahead
      <3>5. CASE r \in {live[track].playing, live[track].fired}
        BY <3>3, <3>4, <3>5
      <3>6. CASE /\ live[track].playing = NoSlot /\ live[track].fired = NoSlot
                 /\ lastSlots[track] = r
        BY <3>3, <3>4, <3>6
      <3> QED BY <3>4, <3>5, <3>6 DEF Visible
    <2>3. Orderly => Ahead'
      BY <1>1, <1>2, <1>3, <2>1, <2>2 DEF Ahead
    <2> QED BY <1>1, <1>2, <2>1, <2>3, AttentiveGoto
  <1>9. CASE NextSlot
    <2>1. /\ pc' = "hasClip" /\ track' = track /\ lastSlots' = lastSlots /\ pc = "slots"
          /\ slots \subseteq slots' \cup {slot'}
      BY <1>9 DEF NextSlot, NextQuery
    <2>2. Orderly => Ahead'
      BY <1>1, <1>2, <1>3, <2>1 DEF Ahead
    <2> QED BY <1>1, <1>2, <2>1, <2>2, AttentiveGoto
  <1>10. CASE NextTrack
    <2>1. /\ lastSlots' = [lastSlots EXCEPT ![track] = NoSlot] /\ slots = {} /\ pc = "slots"
          /\ \/ track + 1 < NumTracks /\ pc' = "playing" /\ track' = track + 1
             \/ ~(track + 1 < NumTracks) /\ pc' = "rest"
      BY <1>10 DEF NextTrack, Finish, NextQuery
    <2>2. ASSUME Orderly PROVE \A t \in steady : Visible(t)' /\ t >= track + 1
      <3>1. track \notin steady
        BY <1>2, <2>1, <2>2 DEF Ahead
      <3>2. \A t \in steady : Visible(t) /\ t >= track /\ t # track
        BY <1>2, <2>2, <3>1 DEF Ahead
      <3>3. \A t \in steady : lastSlots'[t] = lastSlots[t]
        BY <1>4, <2>1, <3>2 DEF TypeOK
      <3>4. \A t \in steady : Visible(t)'
        BY <1>1, <3>2, <3>3 DEF Visible, Records
      <3> QED BY <1>4, <3>2, <3>4
    <2>3. Orderly /\ pc' # "rest" => Ahead'
      BY <1>1, <2>1, <2>2 DEF Ahead
    <2>4. Orderly /\ pc' = "rest" => steady = {}
      BY <1>4, <2>1, <2>2
    <2> QED BY <1>1, <1>2, <2>3, <2>4, AttentiveGoto
  <1>11. CASE GotHasClip
    <2>1. /\ pc = "hasClip" /\ UNCHANGED <<track, slots, slot, lastSlots>>
          /\ pc' = IF reply = Yes THEN "clip" ELSE "slots"
      BY <1>11 DEF GotHasClip, Got, NextQuery
    <2>2. ASSUME Orderly, track \in steady, pc' = "slots" PROVE r \in slots
      <3>1. reply = AsBit(slot # NoSlot /\ slot \in {live[track].playing, r})
        BY <1>2, <2>1, <2>2 DEF Current, AnswerTo, Question, Query
      <3>2. slot # r
        BY <1>5, <2>1, <2>2, <3>1 DEF AsBit
      <3> QED BY <1>2, <2>1, <2>2, <3>2 DEF Ahead
    <2>3. Orderly => Ahead'
      BY <1>1, <1>2, <1>3, <2>1, <2>2 DEF Ahead
    <2> QED BY <1>1, <1>2, <2>1, <2>3, AttentiveGoto
  <1>12. CASE GotRecording
    <2>1. pc = "clip"
      BY <1>12 DEF GotRecording, Got
    <2>2. CASE reply = Yes
      <3>1. pc' = "rest" /\ found'
        BY <1>12, <2>2 DEF GotRecording, Finish, NextQuery
      <3> QED BY <1>1, <1>2, <3>1, AttentiveGoto
    <2>3. CASE reply # Yes
      <3>1. pc' = "slots" /\ UNCHANGED <<track, slots, slot, lastSlots>>
        BY <1>12, <2>3 DEF GotRecording, NextQuery
      <3>2. ASSUME Orderly, track \in steady PROVE r \in slots
        <4>1. reply = AsBit(slot # NoSlot /\ slot = r)
          BY <1>2, <2>1, <3>2 DEF Current, AnswerTo, Question, Query
        <4>2. slot # r
          BY <1>5, <2>3, <3>2, <4>1 DEF AsBit
        <4> QED BY <1>2, <2>1, <3>2, <4>2 DEF Ahead
      <3>3. Orderly => Ahead'
        BY <1>1, <1>2, <1>3, <3>1, <3>2 DEF Ahead
      <3> QED BY <1>1, <1>2, <3>1, <3>3, AttentiveGoto
    <2> QED BY <2>2, <2>3
  <1> QED BY <1>6, <1>7, <1>8, <1>9, <1>10, <1>11, <1>12

\* A scan begins undisturbed unless replies are open, with all tracks ahead.
LEMMA AttentiveBegin == ASSUME TypeOK, BeginScan PROVE Attentive'
  <1>1. /\ pc' = "tracks" /\ phase' = "ask" /\ disturbed' = (StillToCome > 0) /\ track' = 0
        /\ steady' = {t \in Track : Visible(t)} /\ UNCHANGED <<live, wire, lastSlots>>
    BY DEF BeginScan, NextQuery
  <1>2. StillToCome > 0 \/ (requests = <<>> /\ answers = <<>>)
    BY DEF StillToCome, TypeOK
  <1>3. \A t \in steady' : Visible(t)' /\ t >= track'
    BY <1>1 DEF Visible, Records, Track
  <1>4. Ahead'
    BY <1>1, <1>3 DEF Ahead
  <1>5. Orderly' => Conversation'
    BY <1>1, <1>2 DEF Orderly, Conversation, Unanswered, Answered, wire
  <1> QED BY <1>1, <1>4, <1>5 DEF Attentive, ScanSeesRecording

\* Attentive is inductive.
LEMMA AttentiveStep == TypeOK /\ Attentive /\ [Next]_vars => Attentive'
  <1> SUFFICES ASSUME TypeOK, Attentive, [Next]_vars PROVE Attentive'
    OBVIOUS
  <1>1. CASE UNCHANGED vars
    <2>1. UNCHANGED <<live, wire, fetch, locals, aux>>
      BY <1>1 DEF vars
    <2>2. /\ Question' = Question /\ Orderly' = Orderly /\ Unanswered' = Unanswered
          /\ Answered' = Answered /\ Ahead' = Ahead /\ ScanSeesRecording' = ScanSeesRecording
          /\ \A value : Current(value)' = Current(value)
      BY <2>1 DEF fetch, locals, aux, Question, Orderly, Unanswered, Answered, Ahead, Visible,
           Records, ScanSeesRecording, Current, AnswerTo
    <2>3. UNCHANGED <<requests, answers, reply, pc>>
      BY <2>1 DEF wire, fetch, locals
    <2>4. Current(reply)' = Current(reply)
      BY <2>1 DEF fetch, locals, aux, Question, Current, AnswerTo
    <2>5. Conversation => Conversation'
      BY <2>2, <2>3, <2>4 DEF Conversation, OneMessage
    <2> QED BY <2>2, <2>5 DEF Attentive
  <1> QED
    BY <1>1, AttentiveLive, AttentiveWire, AttentiveFetch, AttentiveScan, AttentiveBegin
       DEF Next, ScanStep, Fetch

\* A scan whose replies all came in time finds a clip that recorded throughout it,
\* also one that Live no longer reports as playing (any_clip_recording).
THEOREM SeesRecording == Spec => []ScanSeesRecording
  <1>1. Init => Attentive
    BY DEF Init, Attentive, Orderly, ScanSeesRecording
  <1>2. Attentive => ScanSeesRecording
    BY DEF Attentive
  <1> QED BY <1>1, <1>2, AttentiveStep, ClipScanTypeCorrect, PTL DEF Spec

-----------------------------------------------------------------------------
(* How long a scan can be.                                                  *)

\* A fetch is asked for, waited for and read.
FetchSteps == CASE phase = "ask" -> 3 [] phase = "wait" -> 2 [] phase = "read" -> 1

\* A slot is taken and asked about twice; then the track is left.
SlotSteps == 7 * Cardinality(slots) + 1

\* A track has the two slots shown, and at most two slots to look at.
OtherTracks == 21 * (NumTracks - 1 - track)

\* What a scan can do at most after the fetch it is in.
AfterFetch ==
    CASE pc = "rest" -> 0
      [] pc = "tracks" -> 21 * NumTracks
      [] pc = "playing" -> 18 + OtherTracks
      [] pc = "fired" -> 15 + OtherTracks
      [] pc = "hasClip" -> 3 + SlotSteps + OtherTracks
      [] pc \in {"clip", "slots"} -> SlotSteps + OtherTracks

\* What it can still do at most.
StepsLeft == (IF pc \in Query THEN FetchSteps ELSE 0) + AfterFetch

\* A scan begins with the first track and never has more than two slots to look at.
FewSlots ==
    /\ pc = "tracks" => track = 0
    /\ IsFiniteSet(slots)
    /\ Cardinality(slots) <= 2
    /\ pc = "fired" => Cardinality(slots) <= 1

\* Whatever is lost, late or mistaken, a step of Live or of the wire leaves a scan
\* where it is, and a step of the scan takes it nearer to its end.
ScanRunsOut ==
    [][pc # "rest" => \/ StepsLeft' \in 0..(StepsLeft - 1)
                      \/ UNCHANGED <<locals, phase>>]_vars

\* A slot or none is a set of at most one.
LEMMA OneSlot ==
    ASSUME NEW x
    PROVE  /\ IsFiniteSet({x} \ {NoSlot})
           /\ Cardinality({x} \ {NoSlot}) \in 0..1
  <1>1. IsFiniteSet({x}) /\ Cardinality({x}) = 1
    BY FS_Singleton
  <1>2. /\ IsFiniteSet({x} \ {NoSlot})
        /\ Cardinality({x} \ {NoSlot}) =
             IF NoSlot \in {x} THEN Cardinality({x}) - 1 ELSE Cardinality({x})
    BY <1>1, FS_RemoveElement
  <1> QED BY <1>1, <1>2

\* A slot more.
LEMMA OneSlotMore ==
    ASSUME NEW S, NEW x, IsFiniteSet(S), Cardinality(S) <= 1
    PROVE  /\ IsFiniteSet(S \cup ({x} \ {NoSlot}))
           /\ Cardinality(S \cup ({x} \ {NoSlot})) <= 2
  <1>1. Cardinality(S) \in Nat
    BY FS_CardinalityType
  <1>2. CASE x = NoSlot
    <2>1. S \cup ({x} \ {NoSlot}) = S
      BY <1>2
    <2>2. Cardinality(S) <= 2
      BY <1>1
    <2> QED BY <2>1, <2>2, Zenon
  <1>3. CASE x # NoSlot
    <2>1. S \cup ({x} \ {NoSlot}) = S \cup {x}
      BY <1>3
    <2>2. /\ IsFiniteSet(S \cup {x})
          /\ Cardinality(S \cup {x}) = IF x \in S THEN Cardinality(S) ELSE Cardinality(S) + 1
      BY FS_AddElement
    <2>3. Cardinality(S \cup {x}) <= 2
      BY <1>1, <2>2
    <2> QED BY <2>1, <2>2, <2>3, Zenon
  <1> QED BY <1>2, <1>3

\* FewSlots is inductive (_slots_to_check returns at most two slots).
LEMMA FewSlotsStep == FewSlots /\ [Next]_vars => FewSlots'
  <1> SUFFICES ASSUME FewSlots, [Next]_vars PROVE FewSlots'
    OBVIOUS
  <1> USE DEF FewSlots, NextQuery, Got, locals
  <1>0. Cardinality({}) = 0 /\ IsFiniteSet({})
    BY FS_EmptySet
  <1>1. CASE UNCHANGED locals
    BY <1>1
  <1>2. CASE BeginScan
    BY <1>2 DEF BeginScan, wire
  <1>3. CASE GotTracks
    BY <1>0, <1>3 DEF GotTracks, Finish
  <1>4. CASE GotPlaying
    <2>1. slots' = {reply} \ {NoSlot} /\ pc' = "fired"
      BY <1>4 DEF GotPlaying
    <2>2. IsFiniteSet({reply} \ {NoSlot}) /\ Cardinality({reply} \ {NoSlot}) \in 0..1
      BY OneSlot
    <2> QED BY <2>1, <2>2
  <1>5. CASE GotFired
    <2> DEFINE shown == slots \cup ({reply} \ {NoSlot})
               last == {lastSlots[track]} \ {NoSlot}
    <2>1. /\ slots' = IF shown = {} THEN last ELSE shown
          /\ pc' = "slots" /\ pc = "fired"
      BY <1>5 DEF GotFired
    <2>2. IsFiniteSet(shown) /\ Cardinality(shown) <= 2
      BY <2>1, OneSlotMore
    <2>3. IsFiniteSet(last) /\ Cardinality(last) \in 0..1
      BY OneSlot
    <2> HIDE DEF shown, last
    <2> QED BY <2>1, <2>2, <2>3
  <1>6. CASE NextSlot
    <2>1. PICK x \in slots : slots' = slots \ {x} /\ pc' = "hasClip"
      BY <1>6 DEF NextSlot
    <2>2. Cardinality(slots) \in Nat /\ IsFiniteSet(slots \ {x})
          /\ Cardinality(slots \ {x}) = Cardinality(slots) - 1
      BY FS_CardinalityType, FS_RemoveElement
    <2> QED BY <2>1, <2>2
  <1>7. CASE NextTrack
    BY <1>0, <1>7 DEF NextTrack, Finish
  <1>8. CASE GotHasClip
    BY <1>8 DEF GotHasClip
  <1>9. CASE GotRecording
    BY <1>0, <1>9 DEF GotRecording, Finish
  <1> QED
    BY <1>1, <1>2, <1>3, <1>4, <1>5, <1>6, <1>7, <1>8, <1>9
       DEF Next, ScanStep, Fetch, LiveChanges, LiveAnswers, OnReply, OnOtherMeta, Ask, Wake,
           Timeout, vars

\* The numbers in StepsLeft.
LEMMA Counts ==
    ASSUME TypeOK, FewSlots
    PROVE  /\ FetchSteps \in 1..3
           /\ SlotSteps \in 1..15
           /\ OtherTracks \in Nat
           /\ AfterFetch \in Nat
           /\ pc = "slots" => SlotSteps = 7 * Cardinality(slots) + 1 /\ Cardinality(slots) \in 0..2
  <1>1. FetchSteps \in 1..3
    BY DEF TypeOK, FetchSteps
  <1>2. Cardinality(slots) \in 0..2
    BY FS_CardinalityType DEF FewSlots
  <1>3. SlotSteps \in 1..15
    BY <1>2 DEF SlotSteps
  <1>4. OtherTracks \in Nat
    BY ClipScanAssumption DEF TypeOK, Track, OtherTracks
  <1>5. AfterFetch \in Nat
    <2>1. 21 * NumTracks \in Nat
      BY ClipScanAssumption
    <2>2. SlotSteps \in Nat
      BY <1>3
    <2>3. \A m, n \in Nat : m + n \in Nat
      OBVIOUS
    <2>4. /\ 18 + OtherTracks \in Nat /\ 15 + OtherTracks \in Nat
          /\ 3 + SlotSteps + OtherTracks \in Nat /\ SlotSteps + OtherTracks \in Nat
      BY <1>4, <2>2, <2>3
    <2> QED BY <2>1, <2>4 DEF AfterFetch, TypeOK, Query
  <1> QED BY <1>1, <1>2, <1>3, <1>4, <1>5 DEF SlotSteps

\* One fetch less.
LEMMA FetchUsed ==
    ASSUME NEW a \in Nat, NEW f \in 1..3, NEW g \in 1..3, g < f,
           NEW now, now = f + a, NEW next, next = g + a
    PROVE  next \in 0..(now - 1)
OBVIOUS

\* Two slots at most are less than was allowed for.
LEMMA SlotsUsed ==
    ASSUME NEW n \in Nat, NEW m \in 1..15, NEW now, now = 1 + (15 + n), NEW next, next = m + n
    PROVE  next \in 0..(now - 1)
OBVIOUS

\* A step of a fetch: asked for, then waited for, then read.
LEMMA FetchCounted ==
    ASSUME TypeOK, FewSlots, Fetch
    PROVE  StepsLeft' \in 0..(StepsLeft - 1)
  <1>1. /\ FetchSteps' \in 1..2 /\ FetchSteps' < FetchSteps
        /\ pc \in Query /\ UNCHANGED <<pc, track, slots>>
    BY DEF Fetch, Ask, Wake, Timeout, FetchSteps, locals
  <1>2. FetchSteps \in 1..3 /\ FetchSteps' \in 1..3 /\ AfterFetch \in Nat
    BY <1>1, Counts
  <1>3. AfterFetch' = AfterFetch
    BY <1>1 DEF AfterFetch, SlotSteps, OtherTracks
  <1>4. StepsLeft = FetchSteps + AfterFetch /\ StepsLeft' = FetchSteps' + AfterFetch
    BY <1>1, <1>3 DEF StepsLeft
  <1> QED BY <1>1, <1>2, <1>4, FetchUsed

\* A scan that is over can do nothing.
LEMMA Over == ASSUME TypeOK, FewSlots, pc # "rest" PROVE /\ StepsLeft \in Nat \ {0}
                                                         /\ pc' = "rest" => StepsLeft' = 0
  <1>1. FetchSteps \in 1..3 /\ AfterFetch \in Nat /\ SlotSteps \in 1..15 /\ OtherTracks \in Nat
    BY Counts
  <1>2. pc = "slots" => AfterFetch >= 1
    BY <1>1 DEF AfterFetch
  <1>3. pc \in Query \/ pc = "slots"
    BY DEF TypeOK
  <1>4. pc' = "rest" => StepsLeft' = 0
    BY DEF StepsLeft, AfterFetch, Query
  <1>5. StepsLeft \in Nat \ {0}
    BY <1>1, <1>2, <1>3 DEF StepsLeft
  <1> QED BY <1>4, <1>5

\* A step of the scan itself: the fetches and slots to come are fewer.
LEMMA GotCounted ==
    ASSUME TypeOK, FewSlots, pc # "rest",
           GotTracks \/ GotPlaying \/ GotFired \/ NextSlot \/ NextTrack \/ GotHasClip \/ GotRecording
    PROVE  StepsLeft' \in 0..(StepsLeft - 1)
  <1>1. CASE pc' = "rest"
    BY <1>1, Over
  <1>2. FetchSteps \in 1..3 /\ AfterFetch \in Nat /\ SlotSteps \in 1..15 /\ OtherTracks \in Nat
    BY Counts
  <1>3. phase' = "ask" => FetchSteps' = 3
    BY DEF FetchSteps
  <1>4. phase = "read" => FetchSteps = 1
    BY DEF FetchSteps
  <1>5. track' = track => OtherTracks' = OtherTracks
    BY DEF OtherTracks
  <1>6. slots' = slots => SlotSteps' = SlotSteps
    BY DEF SlotSteps
  <1> USE DEF Got, NextQuery, Query
  <1>7. CASE GotTracks /\ pc' # "rest"
    <2>1. pc = "tracks" /\ pc' = "playing" /\ phase = "read" /\ phase' = "ask"
          /\ track = 0 /\ track' = 0
      BY <1>7 DEF GotTracks, Finish, FewSlots
    <2>2. OtherTracks' = 21 * NumTracks - 21 /\ NumTracks \in Nat \ {0}
      BY <2>1, ClipScanAssumption DEF OtherTracks
    <2>3. StepsLeft = 1 + 21 * NumTracks /\ StepsLeft' = 3 + (18 + OtherTracks')
      BY <1>3, <1>4, <2>1 DEF StepsLeft, AfterFetch
    <2> QED BY <2>2, <2>3
  <1>8. CASE GotPlaying
    <2>1. pc = "playing" /\ pc' = "fired" /\ phase = "read" /\ phase' = "ask" /\ track' = track
      BY <1>8 DEF GotPlaying
    <2>2. StepsLeft = 1 + (18 + OtherTracks) /\ StepsLeft' = 3 + (15 + OtherTracks)
      BY <1>3, <1>4, <1>5, <2>1 DEF StepsLeft, AfterFetch
    <2> QED BY <1>2, <2>2
  <1>9. CASE GotFired
    <2>1. pc = "fired" /\ pc' = "slots" /\ phase = "read" /\ track' = track
      BY <1>9 DEF GotFired
    <2>2. SlotSteps' \in 1..15
      <3>1. FewSlots'
        BY <1>9, FewSlotsStep DEF Next, ScanStep
      <3>2. Cardinality(slots') \in 0..2
        BY <3>1, FS_CardinalityType DEF FewSlots
      <3> QED BY <3>2 DEF SlotSteps
    <2>3. StepsLeft = 1 + (15 + OtherTracks) /\ StepsLeft' = SlotSteps' + OtherTracks
      BY <1>2, <1>4, <1>5, <2>1, <2>2 DEF StepsLeft, AfterFetch
    <2> QED BY <1>2, <2>2, <2>3, SlotsUsed
  <1>10. CASE NextSlot
    <2>1. pc = "slots" /\ pc' = "hasClip" /\ phase' = "ask" /\ track' = track
      BY <1>10 DEF NextSlot
    <2>2. SlotSteps' = SlotSteps - 7
      <3>1. PICK x \in slots : slots' = slots \ {x}
        BY <1>10 DEF NextSlot
      <3>2. Cardinality(slots') = Cardinality(slots) - 1 /\ Cardinality(slots) \in Nat
        BY <3>1, FS_CardinalityType, FS_RemoveElement DEF FewSlots
      <3> QED BY <3>2 DEF SlotSteps
    <2>3. SlotSteps' \in Nat
      <3>1. FewSlots'
        BY <1>10, FewSlotsStep DEF Next, ScanStep
      <3>2. Cardinality(slots') \in Nat
        BY <3>1, FS_CardinalityType DEF FewSlots
      <3> QED BY <3>2 DEF SlotSteps
    <2>4. StepsLeft = SlotSteps + OtherTracks /\ StepsLeft' = 3 + (3 + SlotSteps' + OtherTracks)
      BY <1>2, <1>3, <1>5, <2>1, <2>3 DEF StepsLeft, AfterFetch
    <2> QED BY <1>2, <2>2, <2>3, <2>4
  <1>11. CASE NextTrack /\ pc' # "rest"
    <2>1. /\ pc = "slots" /\ pc' = "playing" /\ phase' = "ask" /\ track' = track + 1
          /\ slots = {} /\ track + 1 < NumTracks
      BY <1>11 DEF NextTrack, Finish
    <2>2. SlotSteps = 1
      BY <2>1, FS_EmptySet DEF SlotSteps
    <2>3. OtherTracks' = OtherTracks - 21 /\ OtherTracks' \in Nat
      BY <2>1, ClipScanAssumption DEF OtherTracks, TypeOK, Track
    <2>4. StepsLeft = 1 + OtherTracks /\ StepsLeft' = 3 + (18 + OtherTracks')
      BY <1>2, <1>3, <2>1, <2>2, <2>3 DEF StepsLeft, AfterFetch
    <2> QED BY <1>2, <2>3, <2>4
  <1>12. CASE GotHasClip
    <2>1. /\ pc = "hasClip" /\ pc' \in {"clip", "slots"} /\ phase = "read" /\ phase' = "ask"
          /\ track' = track /\ slots' = slots
      BY <1>12 DEF GotHasClip
    <2>2. /\ StepsLeft = 1 + (3 + SlotSteps + OtherTracks)
          /\ StepsLeft' \in {3 + (SlotSteps + OtherTracks), SlotSteps + OtherTracks}
      BY <1>2, <1>3, <1>4, <1>5, <1>6, <2>1 DEF StepsLeft, AfterFetch
    <2> QED BY <1>2, <2>2
  <1>13. CASE GotRecording /\ pc' # "rest"
    <2>1. /\ pc = "clip" /\ pc' = "slots" /\ phase = "read"
          /\ track' = track /\ slots' = slots
      BY <1>13 DEF GotRecording, Finish
    <2>2. StepsLeft = 1 + (SlotSteps + OtherTracks) /\ StepsLeft' = SlotSteps + OtherTracks
      BY <1>2, <1>4, <1>5, <1>6, <2>1 DEF StepsLeft, AfterFetch
    <2> QED BY <1>2, <2>2
  <1> QED BY <1>1, <1>7, <1>8, <1>9, <1>10, <1>11, <1>12, <1>13

\* Every scan ends once its fetches do, for any number of tracks and slots: at
\* most 1 + 6 NumTracks of them, whatever the replies say (any_clip_recording).
THEOREM ScanUsesUpSteps == Spec => ScanRunsOut
  <1>1. Init => FewSlots
    BY FS_EmptySet DEF Init, FewSlots
  <1>2. TypeOK /\ FewSlots /\ [Next]_vars
        => [pc # "rest" => StepsLeft' \in 0..(StepsLeft - 1) \/ UNCHANGED <<locals, phase>>]_vars
    <2> SUFFICES ASSUME TypeOK, FewSlots, Next, pc # "rest", ~UNCHANGED <<locals, phase>>
                 PROVE  StepsLeft' \in 0..(StepsLeft - 1)
      OBVIOUS
    <2>1. ScanStep
      BY DEF Next, LiveChanges, LiveAnswers, OnReply, OnOtherMeta, BeginScan, fetch
    <2> QED BY <2>1, FetchCounted, GotCounted DEF ScanStep
  <1> QED BY <1>1, <1>2, FewSlotsStep, ClipScanTypeCorrect, PTL DEF Spec, ScanRunsOut
=============================================================================
