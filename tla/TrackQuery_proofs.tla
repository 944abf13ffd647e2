------------------------- MODULE TrackQuery_proofs -------------------------
(***************************************************************************)
(* A take is never named after a track that had nothing to do with it, for  *)
(* any number of tracks and open replies, whatever is lost, late or         *)
(* mistaken for others.  The argument: what Live says of a track is true    *)
(* when it says it; replies are kept by kind and track, so it can only be   *)
(* read by a fetch that asks just that; and a resolution that begins with   *)
(* replies open counts the tracks they may be about.                        *)
(*                                                                          *)
(* And a resolution that nothing disturbs names the take by the rule: each  *)
(* fetch then is one request, its answer and one wake-up, so what is read   *)
(* is what Live has.                                                        *)
(*                                                                          *)
(* And every resolution is over after three steps for each of at most two   *)
(* fetches per track and four more: no step of it leads back.               *)
(***************************************************************************)
EXTENDS TrackQuery, TLAPS

\* What a "yes, armed" or a selected track says of the tracks noticed so far.
Justified(key, value) ==
    /\ key.query = "arm" /\ value = Yes => key.track \in touched
    /\ key.query = "selected" /\ value # NoTrack => value \in touched

AnswersTrue == \A i \in 1..Len(answers) : Justified(answers[i].key, answers[i].value)

\* A track is at hand where one is asked about.
Located == pc \in {"arm", "armName", "recordingName", "selectedName"} => track \in Track

\* Everything the resolution knows of tracks is of noticed tracks.
LocalsTrue ==
    /\ Located
    /\ Noticed \subseteq touched
    /\ pc = "arm" /\ reply = Yes => track \in touched
    /\ pc = "selected" /\ reply \notin {None, NoTrack} => reply \in touched
    /\ armedNames \subseteq touched
    /\ pc \in {"armName", "selectedName"} => track \in touched
    /\ pc = "recordingName" => track = recording
    /\ pc = "rest" => armedNames = {}
    /\ pc # "rest" => label = {}
    /\ NoStrangeTrack

IInv == TypeOK /\ AnswersTrue /\ LocalsTrue

-----------------------------------------------------------------------------
\* None is no value of any query; values are numbers.
LEMMA Values ==
    /\ NumTracks \in Nat \ {0}
    /\ Track \subseteq Nat
    /\ \A query \in {"tracks", "selected", "arm", "name"} :
          Value(query) \subseteq Int /\ None \notin Value(query)
BY TrackQueryAssumption DEF Value, Track, NoTrack, None, Yes, No

\* Where a fetch is made, what it asks is a key.
LEMMA AskedIsKey == ASSUME Located, pc \in Fetching PROVE Asked \in Key
BY DEF Located, Fetching, Asked, Key, NoTrack

\* Live's answer fits the query.
LEMMA AnswerFits ==
    ASSUME TypeOK, NEW key \in Key PROVE [key |-> key, value |-> AnswerTo(key)] \in Answer
<1>1. AnswerTo(key) \in Value(key.query)
  BY DEF TypeOK, AnswerTo, Value, Key, Yes, No
<1>2. key.query \in {"tracks", "selected", "arm", "name"}
  BY DEF Key
<1>3. AnswerTo(key) \in Int
  BY <1>1, <1>2, Values
<1> QED
  BY <1>1, <1>3 DEF Answer

\* What Live says is true of the tracks noticed so far.
LEMMA AnswerIsTrue ==
    ASSUME TypeOK, Noticed \subseteq touched, NEW key \in Key
    PROVE  Justified(key, AnswerTo(key))
<1>1. CASE key.query = "arm"
  BY <1>1 DEF Justified, AnswerTo, Noticed, Yes, No
<1>2. CASE key.query = "selected"
  BY <1>2 DEF Justified, AnswerTo, Noticed
<1>3. CASE key.query \notin {"arm", "selected"}
  BY <1>3 DEF Justified
<1> QED
  BY <1>1, <1>2, <1>3

\* Taking the newest message off the wire.
LEMMA DropLast ==
    ASSUME NEW S, NEW q \in Seq(S), Len(q) > 0
    PROVE  /\ SubSeq(q, 1, Len(q) - 1) \in Seq(S)
           /\ \A i \in 1..Len(SubSeq(q, 1, Len(q) - 1)) :
                 i \in 1..Len(q) /\ SubSeq(q, 1, Len(q) - 1)[i] = q[i]
OBVIOUS

\* What a fetch that is read returns.
LEMMA ReplyFits ==
    ASSUME TypeOK, pc \in Fetching
    PROVE  /\ pc = "tracks" => Reply \in {0, NumTracks}
           /\ pc \in {"arm", "armName", "recordingName", "selectedName"} => Reply \in {No, Yes}
           /\ pc = "arm" /\ Reply = Yes => reply = Yes
           /\ pc = "selected" => (Reply = reply /\ reply # None) \/ Reply = NoTrack
BY Values DEF TypeOK, Reply, Asked, Default, Value, Fetching, Yes, No, NoTrack, None

-----------------------------------------------------------------------------
\* Nothing is known to begin with.
LEMMA InitIInv == Init => IInv
<1> SUFFICES ASSUME Init PROVE IInv
  OBVIOUS
<1>1. <<>> \in Seq(Key) /\ <<>> \in Seq(Answer) /\ Len(<<>>) = 0
  OBVIOUS
<1>2. TypeOK
  BY <1>1 DEF Init, TypeOK
<1>3. AnswersTrue /\ LocalsTrue
  BY <1>1 DEF Init, AnswersTrue, LocalsTrue, Located, Noticed, NoStrangeTrack
<1> QED
  BY <1>2, <1>3 DEF IInv

\* Tracks noticed stay noticed, and nothing else of the resolution changes.
LEMMA TouchedGrows ==
    ASSUME IInv, answers' = answers, reply' = reply, UNCHANGED locals,
           touched \subseteq touched', (Noticed \subseteq touched)'
    PROVE  AnswersTrue' /\ LocalsTrue'
<1>1. AnswersTrue'
  BY DEF IInv, AnswersTrue, Justified
<1>2. LocalsTrue'
  BY DEF IInv, LocalsTrue, locals, Located, NoStrangeTrack
<1> QED
  BY <1>1, <1>2

\* The steps of Live and of the server thread.
LEMMA WireStep ==
    ASSUME IInv,
           (\E tracks \in SUBSET Track : Arm(tracks)) \/ (\E t \in Track \cup {NoTrack} : Select(t))
              \/ LiveAnswers \/ OnReply \/ OnOtherMeta
    PROVE  IInv'
<1> USE DEF IInv, live, wire, fetch, aux
<1>1. ASSUME NEW tracks \in SUBSET Track, Arm(tracks) PROVE IInv'
  <2>1. TypeOK'
    BY <1>1 DEF Arm, TypeOK, Asked, locals
  <2>2. touched \subseteq touched' /\ (Noticed \subseteq touched)'
    BY <1>1 DEF Arm, LocalsTrue, Noticed
  <2> QED
    BY <1>1, <2>1, <2>2, TouchedGrows DEF Arm
<1>2. ASSUME NEW t \in Track \cup {NoTrack}, Select(t) PROVE IInv'
  <2>1. TypeOK'
    BY <1>2 DEF Select, TypeOK, Asked, locals
  <2>2. touched \subseteq touched' /\ (Noticed \subseteq touched)'
    BY <1>2 DEF Select, LocalsTrue, Noticed
  <2> QED
    BY <1>2, <2>1, <2>2, TouchedGrows DEF Select
<1>3. CASE LiveAnswers
  <2> DEFINE a == [key |-> Head(requests), value |-> AnswerTo(Head(requests))]
  <2>1. Head(requests) \in Key /\ requests' \in Seq(Key)
    BY <1>3 DEF LiveAnswers, TypeOK
  <2>2. a \in Answer /\ Justified(a.key, a.value)
    BY <2>1, AnswerFits, AnswerIsTrue DEF LocalsTrue
  <2>3. answers \in Seq(Answer) /\ answers' = Append(answers, a)
    BY <1>3 DEF LiveAnswers, TypeOK
  <2> HIDE DEF a
  <2>4. answers' \in Seq(Answer)
    BY <2>2, <2>3
  <2>5. \A i \in 1..Len(answers') :
          (i \in 1..Len(answers) /\ answers'[i] = answers[i]) \/ answers'[i] = a
    BY <2>2, <2>3
  <2>6. UNCHANGED <<live, fetch, locals, aux>>
    BY <1>3 DEF LiveAnswers
  <2>7. AnswersTrue'
    BY <2>2, <2>5, <2>6 DEF AnswersTrue, Justified
  <2>8. TypeOK'
    BY <2>1, <2>4, <2>6 DEF TypeOK, Asked, locals
  <2>9. LocalsTrue'
    BY <2>6 DEF LocalsTrue, Located, Noticed, NoStrangeTrack, locals
  <2> QED
    BY <2>7, <2>8, <2>9
<1>4. CASE OnReply
  <2>1. answers \in Seq(Answer) /\ answers # <<>> /\ answers' = Tail(answers)
    BY <1>4 DEF OnReply, TypeOK
  <2>2. /\ answers' \in Seq(Answer)
        /\ \A i \in 1..Len(answers') : i + 1 \in 1..Len(answers) /\ answers'[i] = answers[i + 1]
    BY <2>1
  <2>3. Head(answers) \in Answer /\ 1 \in 1..Len(answers) /\ Head(answers) = answers[1]
    BY <2>1
  <2>4. Justified(Head(answers).key, Head(answers).value)
    BY <2>3 DEF AnswersTrue
  <2>5. UNCHANGED <<live, requests, phase, locals, aux>> /\ event' \in BOOLEAN
    BY <1>4 DEF OnReply, TypeOK
  <2>6. AnswersTrue'
    BY <2>2, <2>5 DEF AnswersTrue, Justified
  <2>7. \/ reply' = reply
        \/ Reading /\ Head(answers).key = Asked /\ reply' = Head(answers).value
    BY <1>4 DEF OnReply
  <2>8. CASE Reading /\ Head(answers).key = Asked /\ reply' = Head(answers).value
    <3>1. pc \in Fetching /\ reply' \in Value(Asked.query)
      BY <2>3, <2>8 DEF Answer, Reading
    <3>2. TypeOK'
      BY <2>2, <2>5, <3>1 DEF TypeOK, Asked, locals
    <3>3. pc = "arm" => Asked = [query |-> "arm", track |-> track]
      BY DEF Asked
    <3>4. pc = "selected" => Asked = [query |-> "selected", track |-> NoTrack]
      BY DEF Asked
    <3>5. pc = "arm" /\ reply' = Yes => track \in touched
      BY <2>4, <2>8, <3>3 DEF Justified
    <3>6. pc = "selected" /\ reply' # NoTrack => reply' \in touched
      BY <2>4, <2>8, <3>4 DEF Justified
    <3>7. LocalsTrue'
      BY <2>5, <3>5, <3>6 DEF LocalsTrue, Located, Noticed, NoStrangeTrack, locals
    <3> QED
      BY <2>6, <3>2, <3>7
  <2>9. CASE reply' = reply
    <3>1. TypeOK'
      BY <2>2, <2>5, <2>9 DEF TypeOK, Asked, locals
    <3>2. LocalsTrue'
      BY <2>5, <2>9 DEF LocalsTrue, Located, Noticed, NoStrangeTrack, locals
    <3> QED
      BY <2>6, <3>1, <3>2
  <2> QED
    BY <2>7, <2>8, <2>9
<1>5. CASE OnOtherMeta
  <2>1. TypeOK'
    BY <1>5 DEF OnOtherMeta, TypeOK, Asked, locals
  <2>2. touched \subseteq touched' /\ (Noticed \subseteq touched)'
    BY <1>5 DEF OnOtherMeta, LocalsTrue, Noticed
  <2> QED
    BY <1>5, <2>1, <2>2, TouchedGrows DEF OnOtherMeta
<1> QED
  BY <1>1, <1>2, <1>3, <1>4, <1>5

\* The steps within a fetch.
LEMMA FetchStep == ASSUME IInv, Ask \/ Wake \/ Timeout PROVE IInv'
<1> USE DEF IInv, live, wire, aux
<1>1. CASE Ask
  <2>1. requests' \in Seq(Key)
    BY <1>1, AskedIsKey DEF Ask, TypeOK, LocalsTrue
  <2>2. TypeOK'
    BY <1>1, <2>1 DEF Ask, TypeOK, locals
  <2>3. AnswersTrue'
    BY <1>1 DEF Ask, AnswersTrue, Justified
  <2>4. LocalsTrue'
    BY <1>1 DEF Ask, LocalsTrue, Located, Noticed, NoStrangeTrack, locals, Yes, None
  <2> QED
    BY <2>2, <2>3, <2>4
<1>2. CASE Wake
  <2>1. TypeOK'
    BY <1>2 DEF Wake, TypeOK, Asked, locals
  <2>2. touched \subseteq touched' /\ (Noticed \subseteq touched)'
    BY <1>2 DEF Wake, LocalsTrue, Noticed
  <2> QED
    BY <1>2, <2>1, <2>2, TouchedGrows DEF Wake
<1>3. CASE Timeout
  <2>1. requests \in Seq(Key) /\ answers \in Seq(Answer)
    BY DEF TypeOK
  <2>2. \/ UNCHANGED <<requests, answers>>
        \/ /\ Len(requests) > 0 /\ answers' = answers
           /\ requests' = SubSeq(requests, 1, Len(requests) - 1)
        \/ /\ Len(answers) > 0 /\ requests' = requests
           /\ answers' = SubSeq(answers, 1, Len(answers) - 1)
    BY <1>3, <2>1 DEF Timeout, Loses, Delays, StillToCome
  <2>3. /\ requests' \in Seq(Key) /\ answers' \in Seq(Answer)
        /\ \A i \in 1..Len(answers') : i \in 1..Len(answers) /\ answers'[i] = answers[i]
    <3>1. CASE UNCHANGED <<requests, answers>>
      BY <2>1, <3>1
    <3>2. CASE /\ Len(requests) > 0 /\ answers' = answers
               /\ requests' = SubSeq(requests, 1, Len(requests) - 1)
      BY <2>1, <3>2, DropLast
    <3>3. CASE /\ Len(answers) > 0 /\ requests' = requests
               /\ answers' = SubSeq(answers, 1, Len(answers) - 1)
      BY <2>1, <3>3, DropLast
    <3> QED
      BY <2>2, <3>1, <3>2, <3>3
  <2>4. /\ UNCHANGED <<live, reply, event, locals, touched, steady>>
        /\ phase' = "read" /\ disturbed' = TRUE
    BY <1>3 DEF Timeout
  <2>5. AnswersTrue'
    BY <2>3, <2>4 DEF AnswersTrue, Justified
  <2>6. TypeOK'
    BY <2>3, <2>4 DEF TypeOK, Asked, locals
  <2>7. LocalsTrue'
    BY <2>4 DEF LocalsTrue, Located, Noticed, NoStrangeTrack, locals
  <2> QED
    BY <2>5, <2>6, <2>7
<1> QED
  BY <1>1, <1>2, <1>3

\* A new resolution forgets the tracks noticed before, unless replies are open.
LEMMA BeginStep == ASSUME IInv, Begin PROVE IInv'
<1> USE DEF IInv, live, wire
<1>1. Noticed \subseteq touched' /\ touched' \subseteq Track
  BY DEF Begin, LocalsTrue, Noticed, TypeOK
<1>2. AnswersTrue'
  <2>1. ASSUME NEW i \in 1..Len(answers) PROVE StillToCome > 0
    BY DEF StillToCome, TypeOK
  <2> QED
    BY <2>1 DEF Begin, AnswersTrue, Justified
<1>3. /\ pc = "rest" /\ pc' = "tracks" /\ phase' = "ask" /\ reply' = None
      /\ recording' = NoTrack /\ label' = {} /\ armedNames = {}
      /\ UNCHANGED <<live, wire, event, track, numTracks, armedNames>>
  BY DEF Begin, Goto, LocalsTrue
<1>4. TypeOK'
  BY <1>1, <1>3 DEF Begin, TypeOK, Fetching
<1>5. LocalsTrue'
  BY <1>1, <1>3 DEF LocalsTrue, Located, Noticed, NoStrangeTrack
<1> QED
  BY <1>2, <1>4, <1>5

\* What resolve_track_label does with a reply keeps to noticed tracks.
LEMMA GotStep ==
    ASSUME IInv,
           GotTracks \/ GotArm \/ GotArmName \/ GotRecordingTrack \/ GotRecordingName
              \/ GotSelected \/ GotSelectedName
    PROVE  IInv'
<1> USE DEF IInv, live, wire, aux
<1>1. UNCHANGED <<live, wire, event, aux>> /\ phase' = "ask" /\ reply' = None
  BY DEF GotTracks, GotArm, GotArmName, GotRecordingTrack, GotRecordingName, GotSelected,
         GotSelectedName, NextTrack, AfterLoop, Return, Goto
<1>2. AnswersTrue' /\ Noticed' = Noticed /\ touched' = touched
  BY <1>1 DEF AnswersTrue, Justified, Noticed
<1>3. ASSUME pc' \in Fetching \cup {"rest", "recording"}, track' \in Track \cup {NoTrack},
             numTracks' \in {0, NumTracks}, armedNames' \subseteq Track,
             recording' \in Track \cup {NoTrack}, label' \subseteq Track
      PROVE  TypeOK'
  BY <1>1, <1>3 DEF TypeOK
<1>4. ASSUME Located', armedNames' \subseteq touched, label' \subseteq touched \cup {recording'},
             pc' \in {"armName", "selectedName"} => track' \in touched,
             pc' = "recordingName" => track' = recording',
             pc' = "rest" => armedNames' = {}, pc' # "rest" => label' = {}
      PROVE  LocalsTrue'
  BY <1>1, <1>2, <1>4 DEF LocalsTrue, NoStrangeTrack, Yes, None
<1>5. ASSUME NEW names \in SUBSET (Track \cap touched), NextTrack(names),
             pc \in {"arm", "armName"}, recording' = recording
      PROVE  IInv'
  <2>1. label = {} /\ track \in Track /\ numTracks \in {0, NumTracks}
    BY <1>5 DEF LocalsTrue, Located, TypeOK
  <2>2. CASE track + 1 < numTracks
    <3>1. track + 1 \in Track
      BY <2>1, <2>2, Values DEF Track
    <3>2. /\ pc' = "arm" /\ track' = track + 1 /\ armedNames' = names
          /\ numTracks' = numTracks /\ label' = {}
      BY <1>5, <2>1, <2>2 DEF NextTrack, Goto
    <3> QED
      BY <1>2, <1>3, <1>4, <1>5, <2>1, <3>1, <3>2 DEF TypeOK, Located, Fetching
  <2>3. CASE ~(track + 1 < numTracks) /\ names # {}
    <3>1. pc' = "rest" /\ label' = names /\ track' = NoTrack /\ numTracks' = 0 /\ armedNames' = {}
      BY <1>5, <2>3 DEF NextTrack, AfterLoop, Return, Goto
    <3> QED
      BY <1>2, <1>3, <1>4, <1>5, <3>1 DEF TypeOK, Located
  <2>4. CASE ~(track + 1 < numTracks) /\ names = {}
    <3>1. /\ pc' = "recording" /\ track' = NoTrack /\ label' = {}
          /\ numTracks' = numTracks /\ armedNames' = armedNames
      BY <1>5, <2>1, <2>4 DEF NextTrack, AfterLoop, Goto
    <3> QED
      BY <1>2, <1>3, <1>4, <1>5, <2>1, <3>1 DEF TypeOK, Located, LocalsTrue
  <2> QED
    BY <2>2, <2>3, <2>4
<1>6. CASE GotTracks
  <2>1. /\ numTracks' \in {0, NumTracks} /\ 0 \in Track
        /\ pc' \in {"recording", "arm"} /\ track' \in {track, 0} /\ (pc' = "arm" => track' = 0)
        /\ UNCHANGED <<armedNames, recording, label>> /\ label = {}
    BY <1>6, ReplyFits, Values DEF GotTracks, Got, Goto, Fetching, Track, LocalsTrue
  <2> QED
    BY <1>2, <1>3, <1>4, <2>1 DEF TypeOK, Located, LocalsTrue, Fetching
<1>7. CASE GotArm
  <2>1. CASE Reply = Yes
    <3>1. track \in touched /\ track \in Track /\ label = {}
      BY <1>7, <2>1, ReplyFits DEF GotArm, Got, LocalsTrue, Located, Fetching
    <3>2. pc' = "armName" /\ UNCHANGED <<track, numTracks, armedNames, label, recording>>
      BY <1>7, <2>1 DEF GotArm, Goto
    <3> QED
      BY <1>2, <1>3, <1>4, <3>1, <3>2 DEF TypeOK, Located, LocalsTrue, Fetching
  <2>2. CASE Reply # Yes
    BY <1>5, <1>7, <2>2 DEF GotArm, Got, TypeOK, LocalsTrue
  <2> QED
    BY <2>1, <2>2
<1>8. CASE GotArmName
  <2>1. track \in touched /\ track \in Track
    BY <1>8 DEF GotArmName, Got, LocalsTrue, Located
  <2> QED
    BY <1>5, <1>8, <2>1 DEF GotArmName, Got, TypeOK, LocalsTrue
<1>9. CASE GotRecordingTrack
  <2>1. recording' \in 0..(numTracks - 1) => recording' \in Track
    BY Values DEF TypeOK, Track
  <2>2. /\ \/ recording' \in Track /\ pc' = "recordingName" /\ track' = recording'
           \/ pc' = "selected" /\ track' = track
        /\ recording' \in Track \cup {NoTrack}
        /\ UNCHANGED <<numTracks, armedNames, label>> /\ label = {}
    BY <1>9, <2>1 DEF GotRecordingTrack, Goto, LocalsTrue
  <2> QED
    BY <1>2, <1>3, <1>4, <2>2 DEF TypeOK, Located, LocalsTrue, Fetching
<1>10. CASE GotRecordingName
  <2>1. track = recording /\ track \in Track /\ label = {} /\ recording' = recording
    BY <1>10 DEF GotRecordingName, Got, LocalsTrue, Located
  <2>2. \/ pc' = "rest" /\ label' = {track} /\ track' = NoTrack /\ numTracks' = 0
           /\ armedNames' = {}
        \/ pc' = "selected" /\ track' = NoTrack /\ UNCHANGED <<numTracks, armedNames, label>>
    BY <1>10 DEF GotRecordingName, Return, Goto
  <2> QED
    BY <1>2, <1>3, <1>4, <2>1, <2>2 DEF TypeOK, Located, LocalsTrue, Fetching
<1>11. CASE GotSelected
  <2>1. recording' = recording /\ label = {} /\ pc = "selected"
    BY <1>11 DEF GotSelected, Got, LocalsTrue
  <2>2. CASE Reply \in 0..(numTracks - 1)
    <3>1. Reply = reply /\ reply # None /\ reply # NoTrack
      BY <2>1, <2>2, ReplyFits DEF Fetching, NoTrack
    <3>2. Reply \in touched /\ Reply \in Track
      BY <2>1, <3>1 DEF LocalsTrue, TypeOK
    <3>3. /\ pc' = "selectedName" /\ track' = Reply
          /\ UNCHANGED <<numTracks, armedNames, label>>
      BY <1>11, <2>2 DEF GotSelected, Goto
    <3> QED
      BY <1>2, <1>3, <1>4, <2>1, <3>2, <3>3 DEF TypeOK, Located, LocalsTrue, Fetching
  <2>3. CASE Reply \notin 0..(numTracks - 1)
    <3>1. pc' = "rest" /\ label' = {} /\ track' = NoTrack /\ numTracks' = 0 /\ armedNames' = {}
      BY <1>11, <2>3 DEF GotSelected, Return, Goto
    <3> QED
      BY <1>2, <1>3, <1>4, <2>1, <3>1 DEF TypeOK, Located
  <2> QED
    BY <2>2, <2>3
<1>12. CASE GotSelectedName
  <2>1. track \in touched /\ track \in Track /\ recording' = recording
    BY <1>12 DEF GotSelectedName, Got, LocalsTrue, Located
  <2>2. /\ pc' = "rest" /\ label' \subseteq {track} /\ track' = NoTrack /\ numTracks' = 0
        /\ armedNames' = {}
    BY <1>12 DEF GotSelectedName, Return, Goto
  <2> QED
    BY <1>2, <1>3, <1>4, <2>1, <2>2 DEF TypeOK, Located
<1> QED
  BY <1>6, <1>7, <1>8, <1>9, <1>10, <1>11, <1>12

\* Every step keeps the invariant.
LEMMA Inductive == IInv /\ [Next]_vars => IInv'
<1> SUFFICES ASSUME IInv, [Next]_vars PROVE IInv'
  OBVIOUS
<1>1. CASE UNCHANGED vars
  <2>1. TypeOK'
    BY <1>1 DEF vars, live, wire, fetch, locals, aux, IInv, TypeOK, Asked
  <2>2. touched \subseteq touched' /\ (Noticed \subseteq touched)'
    BY <1>1 DEF vars, live, aux, IInv, LocalsTrue, Noticed
  <2> QED
    BY <1>1, <2>1, <2>2, TouchedGrows DEF vars, wire, fetch, IInv
<1>2. CASE Next
  BY <1>2, WireStep, FetchStep, BeginStep, GotStep DEF Next, ResolveStep
<1> QED
  BY <1>1, <1>2

-----------------------------------------------------------------------------
(* A resolution that nothing disturbs: each fetch is one request, its       *)
(* answer, one wake-up; and what was found so far is what Live has.         *)

Orderly == steady /\ ~disturbed /\ pc # "rest"

\* The request of the running fetch, or its answer, is the only message.
OneMessage ==
    \/ requests = <<Asked>> /\ answers = <<>>
    \/ requests = <<>> /\ answers = <<[key |-> Asked, value |-> AnswerTo(Asked)]>>

Unanswered == pc \in Fetching /\ phase = "wait" /\ ~event
Answered == pc \in Fetching /\ (phase = "read" \/ (phase = "wait" /\ event))

Conversation ==
    /\ Unanswered => OneMessage
    /\ ~Unanswered => requests = <<>> /\ answers = <<>>
    /\ Answered => reply = AnswerTo(Asked)

\* What the resolution knows of Live at each place.
Found ==
    /\ pc = "tracks" => armedNames = {}
    /\ pc \in {"arm", "armName"} =>
          numTracks = NumTracks /\ armedNames = {t \in armed : t < track}
    /\ pc = "armName" => track \in armed
    /\ pc \in {"recording", "recordingName", "selected", "selectedName"} =>
          armed = {} /\ armedNames = {} /\ numTracks = NumTracks
    /\ pc = "recordingName" => recording # NoTrack
    /\ pc \in {"selected", "selectedName"} => recording = NoTrack
    /\ pc = "selectedName" => track = selected

RInv == IInv /\ (Orderly => Conversation /\ Found) /\ RuleFollowed

\* A queue of one.
LEMMA Single == \A m : Tail(<<m>>) = <<>> /\ Head(<<m>>) = m
OBVIOUS

\* The messages of an undisturbed resolution.
LEMMA OrderlyWire ==
    ASSUME RInv, LiveAnswers \/ OnReply \/ OnOtherMeta
    PROVE  (Orderly => Conversation /\ Found)' /\ RuleFollowed'
<1> USE DEF RInv
<1>1. CASE LiveAnswers
  <2>1. /\ requests # <<>> /\ requests' = Tail(requests)
        /\ answers' = Append(answers, [key |-> Head(requests), value |-> AnswerTo(Head(requests))])
        /\ UNCHANGED <<live, fetch, locals, aux>>
    BY <1>1 DEF LiveAnswers
  <2>2. Asked' = Asked /\ AnswerTo(Asked)' = AnswerTo(Asked) /\ Orderly' = Orderly
        /\ Unanswered' = Unanswered /\ Answered' = Answered /\ Found' = Found
    BY <2>1 DEF live, fetch, locals, aux, Asked, AnswerTo, Orderly, Unanswered, Answered, Found
  <2>3. ASSUME Orderly PROVE Conversation'
    <3>1. requests = <<Asked>> /\ answers = <<>> /\ Unanswered
      BY <2>1, <2>3 DEF Conversation, OneMessage
    <3>2. requests' = <<>> /\ answers' = <<[key |-> Asked, value |-> AnswerTo(Asked)]>>
      BY <2>1, <3>1
    <3> QED
      BY <2>1, <2>2, <2>3, <3>1, <3>2 DEF Conversation, OneMessage, Unanswered, Answered, fetch
  <2> QED
    BY <2>1, <2>2, <2>3 DEF RuleFollowed, RuleLabel, live, locals, aux
<1>2. CASE OnReply
  <2>1. /\ answers # <<>> /\ answers' = Tail(answers)
        /\ event' = (event \/ (Reading /\ phase = "wait"))
        /\ reply' = IF Reading /\ Head(answers).key = Asked THEN Head(answers).value ELSE reply
        /\ UNCHANGED <<live, requests, phase, locals, aux>>
    BY <1>2 DEF OnReply
  <2>2. Asked' = Asked /\ AnswerTo(Asked)' = AnswerTo(Asked) /\ Orderly' = Orderly /\ Found' = Found
    BY <2>1 DEF live, locals, aux, Asked, AnswerTo, Orderly, Found
  <2>3. ASSUME Orderly PROVE Conversation'
    <3>1. /\ requests = <<>> /\ answers = <<[key |-> Asked, value |-> AnswerTo(Asked)]>>
          /\ Unanswered
      BY <2>1, <2>3 DEF Conversation, OneMessage
    <3>2. Reading /\ phase = "wait"
      BY <3>1 DEF Unanswered, Reading
    <3>3. Head(answers) = [key |-> Asked, value |-> AnswerTo(Asked)] /\ Tail(answers) = <<>>
      BY <3>1, Single, Zenon
    <3>4. Head(answers).key = Asked /\ Head(answers).value = AnswerTo(Asked)
      BY <3>3
    <3>5. reply' = AnswerTo(Asked) /\ event'
      BY <2>1, <3>2, <3>4, Zenon
    <3>6. requests' = <<>> /\ answers' = <<>>
      BY <2>1, <3>1, <3>3, Zenon
    <3> QED
      BY <2>2, <3>5, <3>6 DEF Conversation, Unanswered
  <2> QED
    BY <2>1, <2>2, <2>3 DEF RuleFollowed, RuleLabel, live, locals, aux
<1>3. CASE OnOtherMeta
  BY <1>3 DEF OnOtherMeta, Orderly, RuleFollowed
<1> QED
  BY <1>1, <1>2, <1>3

\* An undisturbed fetch asks, and wakes with the answer to what it asked.
LEMMA OrderlyFetch ==
    ASSUME RInv, Ask \/ Wake \/ Timeout
    PROVE  (Orderly => Conversation /\ Found)' /\ RuleFollowed'
<1> USE DEF RInv
<1>1. CASE Timeout
  BY <1>1 DEF Timeout, Orderly, RuleFollowed
<1>2. ASSUME Ask \/ Wake
      PROVE  /\ Asked' = Asked /\ AnswerTo(Asked)' = AnswerTo(Asked) /\ Orderly' = Orderly
             /\ Found' = Found /\ RuleFollowed'
  <2>1. UNCHANGED <<live, locals, aux>>
    BY <1>2 DEF Ask, Wake
  <2> QED
    BY <2>1 DEF live, locals, aux, Asked, AnswerTo, Orderly, Found, RuleFollowed, RuleLabel
<1>3. CASE Ask
  <2>1. ASSUME Orderly PROVE Conversation'
    <3>1. requests = <<>> /\ answers = <<>>
      BY <1>3, <2>1 DEF Conversation, Ask, Unanswered
    <3>2. requests' = <<Asked>> /\ answers' = <<>> /\ phase' = "wait" /\ ~event'
      BY <1>3, <3>1 DEF Ask
    <3> QED
      BY <1>2, <1>3, <3>2 DEF Conversation, OneMessage, Unanswered, Answered, Ask, locals
  <2> QED
    BY <1>2, <1>3, <2>1
<1>4. CASE Wake
  <2>1. ASSUME Orderly PROVE Conversation'
    <3>1. requests = <<>> /\ answers = <<>> /\ reply = AnswerTo(Asked)
      BY <1>4, <2>1 DEF Conversation, Wake, Unanswered, Answered
    <3>2. UNCHANGED <<wire, reply>> /\ phase' = "read"
      BY <1>4 DEF Wake
    <3> QED
      BY <1>2, <1>4, <3>1, <3>2 DEF Conversation, Unanswered, wire
  <2> QED
    BY <1>2, <1>4, <2>1
<1> QED
  BY <1>1, <1>3, <1>4

\* What an undisturbed resolution reads is what Live has.
LEMMA OrderlyReply ==
    ASSUME RInv, Orderly, Got(pc), pc \in Fetching
    PROVE  /\ requests = <<>> /\ answers = <<>> /\ Found
           /\ pc = "tracks" => Reply = NumTracks
           /\ pc = "arm" => Reply = IF track \in armed THEN Yes ELSE No
           /\ pc \in {"armName", "recordingName", "selectedName"} => Reply = Yes
           /\ pc = "selected" => Reply = selected
<1>1. requests = <<>> /\ answers = <<>> /\ Found /\ reply = AnswerTo(Asked)
  BY DEF RInv, Conversation, Answered, Unanswered, Got
<1>2. Asked \in Key /\ AnswerTo(Asked) # None
  BY AskedIsKey, AnswerFits, Values DEF RInv, IInv, LocalsTrue, TypeOK, AnswerTo, Key, Yes, No,
     None, Track, NoTrack
<1>3. Reply = AnswerTo(Asked)
  BY <1>1, <1>2 DEF Reply
<1> QED
  BY <1>1, <1>3 DEF AnswerTo, Asked

\* A new resolution is undisturbed unless replies are open.
LEMMA OrderlyBegin ==
    ASSUME RInv, Begin
    PROVE  (Orderly => Conversation /\ Found)' /\ RuleFollowed'
<1>1. /\ pc' = "tracks" /\ phase' = "ask" /\ disturbed' = (StillToCome > 0)
      /\ armedNames' = {} /\ UNCHANGED wire
  BY DEF Begin, Goto, RInv, IInv, LocalsTrue
<1>2. StillToCome > 0 \/ (requests = <<>> /\ answers = <<>>)
  BY DEF StillToCome, RInv, IInv, TypeOK
<1> QED
  BY <1>1, <1>2 DEF Orderly, Conversation, Unanswered, Answered, Found, RuleFollowed, wire

\* What the next place needs, when one reply was read.
LEMMA OrderlyGoto ==
    ASSUME requests = <<>>, answers = <<>>, UNCHANGED <<live, wire, event, aux>>, phase' = "ask",
           Orderly' => Found', Orderly \/ ~(steady /\ ~disturbed),
           pc' = "rest" /\ Orderly => label' = RuleLabel'
    PROVE  (Orderly => Conversation /\ Found)' /\ RuleFollowed'
BY DEF Orderly, Conversation, Unanswered, Answered, RuleFollowed, live, wire, aux

\* On to the next track: the armed ones up to this are known.
LEMMA OrderlyNextTrack ==
    ASSUME RInv, Orderly, requests = <<>>, answers = <<>>, pc \in {"arm", "armName"}, Found,
           UNCHANGED <<live, wire, event, aux, recording>>,
           NextTrack({t \in armed : t <= track})
    PROVE  (Orderly => Conversation /\ Found)' /\ RuleFollowed'
<1> DEFINE names == {t \in armed : t <= track}
<1>1. /\ track \in Track /\ numTracks = NumTracks /\ NumTracks \in Nat
      /\ armed \subseteq Track /\ armed' = armed /\ Track \subseteq Nat
  BY Values DEF RInv, IInv, TypeOK, LocalsTrue, Located, Found, live
<1>2. CASE track + 1 < numTracks
  <2>1. pc' = "arm" /\ phase' = "ask" /\ track' = track + 1 /\ armedNames' = names
        /\ numTracks' = NumTracks
    BY <1>1, <1>2 DEF NextTrack, Goto
  <2>2. names = {t \in armed' : t < track'}
    <3>1. armed \subseteq Nat /\ track \in Nat
      BY <1>1
    <3>2. \A t \in armed : t < track + 1 <=> t <= track
      BY <3>1
    <3> QED
      BY <1>1, <2>1, <3>2
  <2> QED
    BY <2>1, <2>2, OrderlyGoto DEF Found
<1>3. CASE ~(track + 1 < numTracks)
  <2>1. names = armed
    <3>1. \A t \in armed : t <= track
      BY <1>1, <1>3 DEF Track
    <3> QED
      BY <3>1, Zenon
  <2>2. CASE armed # {}
    <3>1. pc' = "rest" /\ phase' = "ask" /\ label' = armed
      BY <1>3, <2>1, <2>2 DEF NextTrack, AfterLoop, Return, Goto
    <3> QED
      BY <1>1, <2>2, <3>1, OrderlyGoto DEF RuleLabel, Orderly
  <2>3. CASE armed = {}
    <3>1. armedNames = {}
      BY <2>3 DEF Found
    <3>2. pc' = "recording" /\ phase' = "ask" /\ armedNames' = {} /\ numTracks' = NumTracks
      BY <1>1, <1>3, <2>1, <2>3, <3>1 DEF NextTrack, AfterLoop, Goto
    <3> QED
      BY <1>1, <2>3, <3>2, OrderlyGoto DEF Found
  <2> QED
    BY <2>2, <2>3
<1> QED
  BY <1>2, <1>3

\* An undisturbed resolution, told what Live has, does what the rule says.
LEMMA OrderlyGot ==
    ASSUME RInv, Orderly,
           GotTracks \/ GotArm \/ GotArmName \/ GotRecordingTrack \/ GotRecordingName
              \/ GotSelected \/ GotSelectedName
    PROVE  (Orderly => Conversation /\ Found)' /\ RuleFollowed'
<1>1. /\ UNCHANGED <<live, wire, event, aux>> /\ phase' = "ask" /\ armed' = armed
      /\ selected' = selected /\ Orderly \in BOOLEAN
  BY DEF GotTracks, GotArm, GotArmName, GotRecordingTrack, GotRecordingName, GotSelected,
         GotSelectedName, NextTrack, AfterLoop, Return, Goto, live, Orderly
<1>2. NumTracks \in Nat /\ NumTracks # 0 /\ Track = 0..(NumTracks - 1) /\ armed \subseteq Track
      /\ selected \in Track \cup {NoTrack} /\ NoTrack \notin Track /\ Track \subseteq Nat
  BY Values DEF RInv, IInv, TypeOK, Track, NoTrack
<1>3. CASE GotTracks
  <2>1. Reply = NumTracks /\ requests = <<>> /\ answers = <<>> /\ armedNames = {}
    BY <1>3, OrderlyReply DEF GotTracks, Got, Fetching, Found
  <2>2. pc' = "arm" /\ track' = 0 /\ numTracks' = NumTracks /\ armedNames' = {}
    BY <1>2, <1>3, <2>1 DEF GotTracks, Goto
  <2>3. {t \in armed' : t < track'} = {}
    <3>1. \A t \in armed : ~(t < 0)
      BY <1>2
    <3> QED
      BY <1>1, <2>2, <3>1
  <2> QED
    BY <1>1, <2>1, <2>2, <2>3, OrderlyGoto DEF Found
<1>4. CASE GotArm
  <2>1. /\ requests = <<>> /\ answers = <<>> /\ Found /\ pc = "arm"
        /\ Reply = (IF track \in armed THEN Yes ELSE No)
    BY <1>4, OrderlyReply DEF GotArm, Got, Fetching
  <2>2. /\ track \in Track /\ armedNames = {t \in armed : t < track} /\ numTracks = NumTracks
        /\ recording' = recording
    BY <1>4, <2>1 DEF Found, RInv, IInv, LocalsTrue, Located, GotArm
  <2>3. CASE track \in armed
    <3>1. pc' = "armName" /\ UNCHANGED <<track, numTracks, armedNames, label>>
      BY <1>4, <2>1, <2>3 DEF GotArm, Goto
    <3> QED
      BY <1>1, <2>1, <2>2, <2>3, <3>1, OrderlyGoto DEF Found
  <2>4. CASE track \notin armed
    <3>1. armed \subseteq Nat /\ track \in Nat
      BY <1>2, <2>2
    <3>2. \A t \in armed : t < track <=> t <= track
      BY <2>4, <3>1
    <3>3. armedNames = {t \in armed : t <= track}
      BY <2>2, <3>2, Zenon
    <3>4. NextTrack({t \in armed : t <= track})
      BY <1>4, <2>1, <2>4, <3>3 DEF GotArm, Yes, No
    <3> QED
      BY <1>1, <2>1, <2>2, <3>4, OrderlyNextTrack
  <2> QED
    BY <2>3, <2>4
<1>5. CASE GotArmName
  <2>1. requests = <<>> /\ answers = <<>> /\ Found /\ pc = "armName" /\ Reply = Yes
    BY <1>5, OrderlyReply DEF GotArmName, Got, Fetching
  <2>2. /\ track \in Track /\ armedNames = {t \in armed : t < track} /\ track \in armed
        /\ recording' = recording
    BY <1>5, <2>1 DEF Found, RInv, IInv, LocalsTrue, Located, GotArmName
  <2>3. armedNames \cup {track} = {t \in armed : t <= track}
    <3>1. armed \subseteq Nat /\ track \in Nat
      BY <1>2, <2>2
    <3>2. \A t \in armed : t <= track <=> t < track \/ t = track
      BY <3>1
    <3> QED
      BY <2>2, <3>2, Zenon
  <2>4. NextTrack({t \in armed : t <= track})
    BY <1>5, <2>1, <2>3 DEF GotArmName
  <2> QED
    BY <1>1, <2>1, <2>2, <2>4, OrderlyNextTrack
<1>6. CASE GotRecordingTrack
  <2>1. pc = "recording" /\ requests = <<>> /\ answers = <<>> /\ Found
    BY <1>6 DEF GotRecordingTrack, RInv, Conversation, Unanswered, Fetching
  <2>2. armed = {} /\ armedNames' = {} /\ numTracks = NumTracks /\ numTracks' = NumTracks
    BY <1>6, <2>1 DEF Found, GotRecordingTrack
  <2>3. \/ pc' = "recordingName" /\ recording' # NoTrack
        \/ pc' = "selected" /\ recording' = NoTrack
    BY <1>2, <1>6, <2>2 DEF GotRecordingTrack, Goto
  <2> QED
    BY <1>1, <2>1, <2>2, <2>3, OrderlyGoto DEF Found
<1>7. CASE GotRecordingName
  <2>1. requests = <<>> /\ answers = <<>> /\ Found /\ pc = "recordingName" /\ Reply = Yes
    BY <1>7, OrderlyReply DEF GotRecordingName, Got, Fetching
  <2>2. armed = {} /\ recording # NoTrack /\ track = recording
    BY <2>1 DEF Found, RInv, IInv, LocalsTrue
  <2>3. pc' = "rest" /\ label' = {track} /\ recording' = recording
    BY <1>7, <2>1 DEF GotRecordingName, Return, Goto
  <2> QED
    BY <1>1, <2>1, <2>2, <2>3, OrderlyGoto DEF RuleLabel, Orderly
<1>8. CASE GotSelected
  <2>1. requests = <<>> /\ answers = <<>> /\ Found /\ pc = "selected" /\ Reply = selected
    BY <1>8, OrderlyReply DEF GotSelected, Got, Fetching
  <2>2. armed = {} /\ armedNames = {} /\ numTracks = NumTracks /\ recording = NoTrack
        /\ recording' = recording
    BY <1>8, <2>1 DEF Found, GotSelected
  <2>3. CASE selected \in Track
    <3>1. pc' = "selectedName" /\ track' = selected /\ UNCHANGED <<numTracks, armedNames>>
      BY <1>2, <1>8, <2>1, <2>2, <2>3 DEF GotSelected, Goto
    <3> QED
      BY <1>1, <2>1, <2>2, <3>1, OrderlyGoto DEF Found
  <2>4. CASE selected = NoTrack
    <3>1. pc' = "rest" /\ label' = {}
      BY <1>2, <1>8, <2>1, <2>2, <2>4 DEF GotSelected, Return, Goto
    <3> QED
      BY <1>1, <2>1, <2>2, <2>4, <3>1, OrderlyGoto DEF RuleLabel, Orderly
  <2> QED
    BY <1>2, <2>3, <2>4
<1>9. CASE GotSelectedName
  <2>1. requests = <<>> /\ answers = <<>> /\ Found /\ pc = "selectedName" /\ Reply = Yes
    BY <1>9, OrderlyReply DEF GotSelectedName, Got, Fetching
  <2>2. armed = {} /\ recording = NoTrack /\ track = selected /\ selected \in Track
    BY <2>1 DEF Found, RInv, IInv, LocalsTrue, Located
  <2>3. pc' = "rest" /\ label' = {track} /\ recording' = recording
    BY <1>9, <2>1 DEF GotSelectedName, Return, Goto
  <2> QED
    BY <1>1, <1>2, <2>1, <2>2, <2>3, OrderlyGoto DEF RuleLabel, Orderly
<1> QED
  BY <1>3, <1>4, <1>5, <1>6, <1>7, <1>8, <1>9

\* Every step keeps what an undisturbed resolution knows.
LEMMA RInductive == RInv /\ [Next]_vars => RInv'
<1> SUFFICES ASSUME RInv, [Next]_vars PROVE RInv'
  OBVIOUS
<1>1. IInv'
  BY Inductive DEF RInv
<1>2. CASE UNCHANGED vars
  <2>1. UNCHANGED <<live, wire, fetch, locals, aux>>
    BY <1>2 DEF vars
  <2>2. Asked' = Asked /\ AnswerTo(Asked)' = AnswerTo(Asked) /\ Orderly' = Orderly
        /\ Found' = Found /\ RuleFollowed' = RuleFollowed
        /\ Unanswered' = Unanswered /\ Answered' = Answered
    BY <2>1 DEF live, fetch, locals, aux, Asked, AnswerTo, Orderly, Found, RuleFollowed, RuleLabel,
       Unanswered, Answered
  <2>3. Conversation' = Conversation
    BY <2>1, <2>2 DEF wire, fetch, Conversation, OneMessage
  <2> QED
    BY <1>1, <2>2, <2>3 DEF RInv
<1>3. CASE \/ \E tracks \in SUBSET Track \ {armed} : Arm(tracks)
           \/ \E t \in (Track \cup {NoTrack}) \ {selected} : Select(t)
  <2>1. steady' = FALSE
    BY <1>3 DEF Arm, Select
  <2> QED
    BY <1>1, <2>1 DEF RInv, Orderly, RuleFollowed
<1>4. CASE LiveAnswers \/ OnReply \/ OnOtherMeta
  BY <1>1, <1>4, OrderlyWire DEF RInv
<1>5. CASE Begin
  BY <1>1, <1>5, OrderlyBegin DEF RInv
<1>6. CASE Ask \/ Wake \/ Timeout
  BY <1>1, <1>6, OrderlyFetch DEF RInv
<1>7. CASE GotTracks \/ GotArm \/ GotArmName \/ GotRecordingTrack \/ GotRecordingName
              \/ GotSelected \/ GotSelectedName
  <2>1. pc # "rest" /\ UNCHANGED aux
    BY <1>7 DEF GotTracks, GotArm, GotArmName, GotRecordingTrack, GotRecordingName, GotSelected,
       GotSelectedName, Got
  <2>2. ASSUME ~Orderly PROVE ~(steady /\ ~disturbed)'
    BY <2>1, <2>2 DEF Orderly, aux
  <2> QED
    BY <1>1, <1>7, <2>2, OrderlyGot DEF RInv, Orderly, RuleFollowed
<1> QED
  BY <1>2, <1>3, <1>4, <1>5, <1>6, <1>7 DEF Next, ResolveStep

-----------------------------------------------------------------------------
\* The types of a resolution, whatever is lost, late or mistaken.
THEOREM TypeCorrect == Spec => []TypeOK
<1>1. IInv => TypeOK
  BY DEF IInv
<1> QED
  BY <1>1, InitIInv, Inductive, PTL DEF Spec

\* A take is named only after tracks that were armed or selected while it was
\* looked for, or since a late reply to an earlier search was asked for, or that
\* the clip scan named (resolve_track_label over the fetches of osc_client.py).
THEOREM NoTrackFromNowhere == Spec => []NoStrangeTrack
<1>1. IInv => NoStrangeTrack
  BY DEF IInv, LocalsTrue
<1> QED
  BY <1>1, InitIInv, Inductive, PTL DEF Spec

\* With all replies in time, and none out of turn, a take is named after the armed
\* tracks, else the recording one, else the selected one (metadata.py:27).
THEOREM RuleIsFollowed == Spec => []RuleFollowed
<1>1. Init => RInv
  BY InitIInv DEF Init, RInv, Orderly, RuleFollowed
<1>2. RInv => RuleFollowed
  BY DEF RInv
<1> QED
  BY <1>1, <1>2, RInductive, PTL DEF Spec

-----------------------------------------------------------------------------
(* How long a resolution can be.                                            *)

\* A fetch is asked for, waited for and read.
FetchSteps == CASE phase = "ask" -> 3 [] phase = "wait" -> 2 [] phase = "read" -> 1

\* A track is asked whether it is armed and what its name is.
OtherTracks == 6 * (NumTracks - 1 - track)

\* What a resolution can do at most after the fetch it is in: behind the loop over
\* the tracks there are the scan and three more fetches.
AfterFetch ==
    CASE pc = "rest" -> 0
      [] pc = "tracks" -> 6 * NumTracks + 10
      [] pc = "arm" -> OtherTracks + 13
      [] pc = "armName" -> OtherTracks + 10
      [] pc = "recording" -> 10
      [] pc = "recordingName" -> 6
      [] pc = "selected" -> 3
      [] pc = "selectedName" -> 0

\* What it can still do at most.
StepsLeft == (IF pc \in Fetching THEN FetchSteps ELSE 0) + AfterFetch

\* Whatever is lost, late or mistaken, a step of Live or of the wire leaves a
\* resolution where it is, and a step of its own takes it nearer to its end.
ResolutionRunsOut ==
    [][pc # "rest" => \/ StepsLeft' \in 0..(StepsLeft - 1)
                      \/ UNCHANGED <<locals, phase>>]_vars

\* The numbers in StepsLeft.
LEMMA Counts ==
    ASSUME IInv
    PROVE  /\ FetchSteps \in 1..3
           /\ pc \in {"arm", "armName"} => OtherTracks \in Nat
           /\ AfterFetch \in Nat
<1>1. FetchSteps \in 1..3
  BY DEF IInv, TypeOK, FetchSteps
<1>2. pc \in {"arm", "armName"} => OtherTracks \in Nat
  BY TrackQueryAssumption DEF IInv, LocalsTrue, Located, Track, OtherTracks
<1>3. 6 * NumTracks + 10 \in Nat
  BY TrackQueryAssumption
<1>4. \A n \in Nat : n + 13 \in Nat /\ n + 10 \in Nat
  OBVIOUS
<1>5. AfterFetch \in Nat
  BY <1>2, <1>3, <1>4 DEF IInv, TypeOK, AfterFetch, Fetching
<1> QED
  BY <1>1, <1>2, <1>5

\* One fetch less.
LEMMA FetchUsed ==
    ASSUME NEW a \in Nat, NEW f \in 1..3, NEW g \in 1..3, g < f,
           NEW now, now = f + a, NEW next, next = g + a
    PROVE  next \in 0..(now - 1)
OBVIOUS

\* A step of a fetch: asked for, then waited for, then read.
LEMMA FetchCounted ==
    ASSUME IInv, Ask \/ Wake \/ Timeout
    PROVE  StepsLeft' \in 0..(StepsLeft - 1)
<1>1. /\ FetchSteps' \in 1..2 /\ FetchSteps' < FetchSteps
      /\ pc \in Fetching /\ UNCHANGED <<pc, track>>
  BY DEF Ask, Wake, Timeout, FetchSteps, locals
<1>2. FetchSteps \in 1..3 /\ FetchSteps' \in 1..3 /\ AfterFetch \in Nat
  BY <1>1, Counts
<1>3. AfterFetch' = AfterFetch
  BY <1>1 DEF AfterFetch, OtherTracks
<1>4. StepsLeft = FetchSteps + AfterFetch /\ StepsLeft' = FetchSteps' + AfterFetch
  BY <1>1, <1>3 DEF StepsLeft
<1> QED
  BY <1>1, <1>2, <1>4, FetchUsed

\* After a fetch was read, the next is of a later track or a later place.
LEMMA Onward ==
    ASSUME NEW a \in Nat, NEW b \in Nat, b <= a,
           NEW now, now = 1 + a, NEW next, next = b
    PROVE  next \in 0..(now - 1)
OBVIOUS

\* On to the next track, or behind the loop, with ten steps to come there.
LEMMA NextTrackCounted ==
    ASSUME IInv, pc \in {"arm", "armName"}, NEW names, NextTrack(names)
    PROVE  StepsLeft' \in Nat /\ StepsLeft' <= OtherTracks + 10
<1>1. OtherTracks \in Nat /\ numTracks <= NumTracks /\ track \in Nat
  BY Counts, TrackQueryAssumption DEF IInv, TypeOK, LocalsTrue, Located, Track
<1>2. CASE track + 1 < numTracks
  <2>1. pc' = "arm" /\ phase' = "ask" /\ track' = track + 1
    BY <1>2 DEF NextTrack, Goto
  <2>2. OtherTracks' = OtherTracks - 6 /\ OtherTracks' \in Nat
    BY <1>1, <1>2, <2>1, TrackQueryAssumption DEF OtherTracks, IInv, TypeOK
  <2>3. FetchSteps' = 3
    BY <2>1 DEF FetchSteps
  <2>4. StepsLeft' = 3 + (OtherTracks' + 13)
    BY <2>1, <2>3 DEF StepsLeft, AfterFetch, Fetching
  <2> QED
    BY <1>1, <2>2, <2>4
<1>3. CASE ~(track + 1 < numTracks)
  <2>1. pc' \in {"rest", "recording"}
    BY <1>3 DEF NextTrack, AfterLoop, Return, Goto
  <2>2. StepsLeft' \in {0, 10}
    BY <2>1 DEF StepsLeft, AfterFetch, Fetching
  <2> QED
    BY <1>1, <2>2
<1> QED
  BY <1>2, <1>3

\* A step of resolve_track_label itself: the fetches to come are fewer.
LEMMA GotCounted ==
    ASSUME IInv, GotTracks \/ GotArm \/ GotArmName \/ GotRecordingTrack \/ GotRecordingName
                 \/ GotSelected \/ GotSelectedName
    PROVE  StepsLeft' \in 0..(StepsLeft - 1)
<1>1. phase = "read" => FetchSteps = 1
  BY DEF FetchSteps
<1>2. phase' = "ask" => FetchSteps' = 3
  BY DEF FetchSteps
<1>3. pc' = "rest" => StepsLeft' = 0
  BY DEF StepsLeft, AfterFetch, Fetching
<1> USE DEF Got, Goto, Return
<1>4. CASE GotTracks
  <2>1. pc = "tracks" /\ phase = "read"
    BY <1>4 DEF GotTracks
  <2>2. StepsLeft = 1 + (6 * NumTracks + 10) /\ 6 * NumTracks + 10 \in Nat
    BY <1>1, <2>1, TrackQueryAssumption DEF StepsLeft, AfterFetch, Fetching
  <2>3. CASE pc' = "recording"
    <3>1. StepsLeft' = 10
      BY <2>3 DEF StepsLeft, AfterFetch, Fetching
    <3>2. 10 <= 6 * NumTracks + 10
      BY TrackQueryAssumption
    <3> QED
      BY <2>2, <3>1, <3>2, Onward
  <2>4. CASE pc' = "arm"
    <3>1. phase' = "ask" /\ track' = 0
      BY <1>4, <2>4 DEF GotTracks
    <3>2. OtherTracks' = 6 * NumTracks - 6 /\ OtherTracks' \in Nat
      BY <3>1, TrackQueryAssumption DEF OtherTracks
    <3>3. StepsLeft' = 3 + (OtherTracks' + 13)
      BY <1>2, <2>4, <3>1 DEF StepsLeft, AfterFetch, Fetching
    <3>4. StepsLeft' = 6 * NumTracks + 10
      BY <3>2, <3>3, TrackQueryAssumption
    <3> QED
      BY <2>2, <3>4, Onward
  <2> QED
    BY <1>4, <2>3, <2>4 DEF GotTracks
<1>5. CASE GotArm
  <2>1. pc = "arm" /\ phase = "read" /\ OtherTracks \in Nat
    BY <1>5, Counts DEF GotArm
  <2>2. StepsLeft = 1 + (OtherTracks + 13)
    BY <1>1, <2>1 DEF StepsLeft, AfterFetch, Fetching
  <2>3. CASE Reply = Yes
    <3>1. pc' = "armName" /\ phase' = "ask" /\ track' = track
      BY <1>5, <2>3 DEF GotArm
    <3>2. OtherTracks' = OtherTracks
      BY <3>1 DEF OtherTracks
    <3>3. StepsLeft' = 3 + (OtherTracks + 10)
      BY <1>2, <3>1, <3>2 DEF StepsLeft, AfterFetch, Fetching
    <3> QED
      BY <2>1, <2>2, <3>3
  <2>4. CASE Reply # Yes
    <3>1. StepsLeft' \in Nat /\ StepsLeft' <= OtherTracks + 10
      BY <1>5, <2>1, <2>4, NextTrackCounted DEF GotArm
    <3> QED
      BY <2>1, <2>2, <3>1, Onward
  <2> QED
    BY <2>3, <2>4
<1>6. CASE GotArmName
  <2>1. pc = "armName" /\ phase = "read" /\ OtherTracks \in Nat
    BY <1>6, Counts DEF GotArmName
  <2>2. StepsLeft = 1 + (OtherTracks + 10)
    BY <1>1, <2>1 DEF StepsLeft, AfterFetch, Fetching
  <2>3. StepsLeft' \in Nat /\ StepsLeft' <= OtherTracks + 10
    BY <1>6, <2>1, NextTrackCounted DEF GotArmName
  <2> QED
    BY <2>1, <2>2, <2>3, Onward
<1>7. CASE GotRecordingTrack
  <2>1. pc = "recording" /\ pc' \in {"recordingName", "selected"} /\ phase' = "ask"
    BY <1>7 DEF GotRecordingTrack
  <2>2. StepsLeft = 10 /\ StepsLeft' \in {9, 6}
    BY <1>2, <2>1 DEF StepsLeft, AfterFetch, Fetching
  <2> QED
    BY <2>2
<1>8. CASE GotRecordingName
  <2>1. pc = "recordingName" /\ phase = "read" /\ pc' \in {"rest", "selected"} /\ phase' = "ask"
    BY <1>8 DEF GotRecordingName
  <2>2. StepsLeft = 7 /\ StepsLeft' \in {0, 6}
    BY <1>1, <1>2, <1>3, <2>1 DEF StepsLeft, AfterFetch, Fetching
  <2> QED
    BY <2>2
<1>9. CASE GotSelected
  <2>1. pc = "selected" /\ phase = "read" /\ pc' \in {"rest", "selectedName"} /\ phase' = "ask"
    BY <1>9 DEF GotSelected
  <2>2. StepsLeft = 4 /\ StepsLeft' \in {0, 3}
    BY <1>1, <1>2, <1>3, <2>1 DEF StepsLeft, AfterFetch, Fetching
  <2> QED
    BY <2>2
<1>10. CASE GotSelectedName
  <2>1. pc = "selectedName" /\ phase = "read" /\ pc' = "rest"
    BY <1>10 DEF GotSelectedName
  <2>2. StepsLeft = 1 /\ StepsLeft' = 0
    BY <1>1, <1>3, <2>1 DEF StepsLeft, AfterFetch, Fetching
  <2> QED
    BY <2>2
<1> QED
  BY <1>4, <1>5, <1>6, <1>7, <1>8, <1>9, <1>10

\* Every resolution ends once its fetches do, for any number of tracks: at most
\* 4 + 2 NumTracks of them besides the scan (resolve_track_label).
THEOREM ResolutionUsesUpSteps == Spec => ResolutionRunsOut
<1>1. IInv /\ [Next]_vars
        => [pc # "rest" => StepsLeft' \in 0..(StepsLeft - 1) \/ UNCHANGED <<locals, phase>>]_vars
  <2> SUFFICES ASSUME IInv, Next, pc # "rest", ~UNCHANGED <<locals, phase>>
               PROVE  StepsLeft' \in 0..(StepsLeft - 1)
    OBVIOUS
  <2>1. ResolveStep
    BY DEF Next, Arm, Select, LiveAnswers, OnReply, OnOtherMeta, Begin, fetch
  <2> QED
    BY <2>1, FetchCounted, GotCounted DEF ResolveStep
<1> QED
  BY <1>1, InitIInv, Inductive, PTL DEF Spec, ResolutionRunsOut
=============================================================================
