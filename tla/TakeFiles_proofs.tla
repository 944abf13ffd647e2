-------------------------- MODULE TakeFiles_proofs --------------------------
(***************************************************************************)
(* Module TakeFiles for any number of takes and folders and any faults:     *)
(* what the extension may read at any moment.                               *)
(***************************************************************************)
EXTENDS TakeFiles, TLAPS

\* Appending an entry makes it the last one.
LEMMA LastOfAppend ==
    ASSUME NEW h \in Seq(Entry), NEW e \in Entry
    PROVE  /\ Append(h, e) \in Seq(Entry)
           /\ Append(h, e) # <<>>
           /\ Last(Append(h, e)) = e
BY DEF Last

\* What the worker has in hand when it publishes: a recording and its name.  What
\* it could not stop is a recording.
InHand ==
    /\ fpc = "held" => take \in Take
    /\ fpc \in {"move", "unlink", "history", "lastTake", "pointer"} => file \in Take
    /\ fpc \in {"unlink", "history", "lastTake", "pointer"} => name \in Name

\* Where the publication stands: last_take.json is gone until it is written, by
\* then the history ends with this take, and it is not empty any more.
Progress ==
    /\ fpc \in {"history", "lastTake"} => lastTake[dir] = NoEntry
    /\ fpc = "lastTake" => history[dir] # <<>> /\ Last(history[dir]) = ThisEntry
    /\ fpc = "pointer" => history[dir] # <<>>

IInv == TypeOK /\ InHand /\ Progress /\ LastTakeIsLastInHistory /\ PointerHasHistory

\* None is no recording, so NoEntry is no entry.
LEMMA NoneIsNoTake == NoEntry \notin Entry /\ None \notin Take
BY TakeFilesAssumption DEF NoEntry, Entry, None, Take, Name

\* Empty folders satisfy the invariant.
LEMMA InitIInv == Init => IInv
<1> SUFFICES ASSUME Init PROVE IInv
  OBVIOUS
<1>1. history \in [Dirs -> Seq(Entry)]
  BY DEF Init
<1>2. TypeOK
  BY <1>1, NoneIsNoTake, TakeFilesAssumption DEF Init, TypeOK, Name, Take, None
<1>3. InHand /\ Progress
  BY DEF Init, InHand, Progress
<1>4. LastTakeIsLastInHistory /\ PointerHasHistory
  BY DEF Init, LastTakeIsLastInHistory, PointerHasHistory
<1> QED
  BY <1>2, <1>3, <1>4 DEF IInv

\* A step that leaves the published files alone and ends the handler, or does
\* not touch it, keeps what they say of each other.
LEMMA PublishedKept ==
    ASSUME IInv, UNCHANGED published
    PROVE  LastTakeIsLastInHistory' /\ PointerHasHistory'
BY DEF IInv, published, LastTakeIsLastInHistory, PointerHasHistory

\* The recording a STOPPED is about: one more, or the one that went on.
LEMMA RecordedTake ==
    ASSUME IInv, Recorded
    PROVE  take' \in Take /\ take' \in 0..MaxTakes /\ latest' \in [Dirs -> 0..MaxTakes]
<1>1. take' \in Take /\ take' \in 0..MaxTakes
  BY TakeFilesAssumption DEF Recorded, IInv, TypeOK, InHand, Take
<1> QED
  BY <1>1 DEF Recorded, IInv, TypeOK

\* Every step keeps the types.
LEMMA TypeKept == IInv /\ [Next]_vars => TypeOK'
<1> SUFFICES ASSUME IInv, [Next]_vars PROVE TypeOK'
  OBVIOUS
<1> USE TakeFilesAssumption DEF IInv, TypeOK, InHand, published, context, Return, Go, None
<1>1. CASE StopObs
  <2>1. Recorded /\ take' \in Take
    BY <1>1, RecordedTake DEF StopObs
  <2>2. take' \in 0..MaxTakes /\ latest' \in [Dirs -> 0..MaxTakes]
    BY <2>1, RecordedTake
  <2>3. staging' \subseteq Take /\ file' \in Take \cup {None}
    <3>1. staging' = staging \cup {take'} \/ staging' = staging
      BY <1>1 DEF StopObs
    <3>2. file' \in {take', None} \cup staging
      BY <1>1 DEF StopObs
    <3> QED
      BY <2>1, <3>1, <3>2
  <2>4. fpc' = "check"
    BY <1>1 DEF StopObs
  <2> QED
    BY <2>1, <2>2, <2>3, <2>4 DEF Recorded
<1>12. CASE StopGivesUp
  <2>1. Recorded /\ take' \in Take
    BY <1>12, RecordedTake DEF StopGivesUp
  <2>2. take' \in 0..MaxTakes /\ latest' \in [Dirs -> 0..MaxTakes]
    BY <2>1, RecordedTake
  <2>3. staging' \subseteq Take
    BY <1>12, <2>1 DEF StopGivesUp
  <2> QED
    BY <1>12, <2>1, <2>2, <2>3 DEF Recorded, StopGivesUp
<1>2. CASE RejectTake
  BY <1>2 DEF RejectTake, DropLastTake
<1>3. CASE AcceptTake
  BY <1>3 DEF AcceptTake
<1>4. ASSUME NEW n \in Name, MoveVideo(n) PROVE TypeOK'
  BY <1>4 DEF MoveVideo, PutVideo
<1>13. CASE MoveLosesVideo
  BY <1>13 DEF MoveLosesVideo
<1>5. CASE UnlinkLastTake
  BY <1>5 DEF UnlinkLastTake, DropLastTake
<1>6. CASE AppendTakeHistory
  <2>1. ThisEntry \in Entry
    BY <1>6 DEF AppendTakeHistory, ThisEntry, Entry
  <2>2. history' \in [Dirs -> Seq(Entry)]
    BY <1>6, <2>1, LastOfAppend DEF AppendTakeHistory
  <2> QED
    BY <1>6, <2>2 DEF AppendTakeHistory
<1>7. CASE WriteLastTake
  <2>1. ThisEntry \in Entry
    BY <1>7 DEF WriteLastTake, ThisEntry, Entry
  <2> QED
    BY <1>7, <2>1 DEF WriteLastTake
<1>8. CASE PublishSidecarPointer
  BY <1>8 DEF PublishSidecarPointer
<1>9. CASE FinalizeFails
  BY <1>9 DEF FinalizeFails, Fail
<1>10. CASE CrashAndRestart
  <2>1. CASE UNCHANGED <<take, latest, staging>>
    BY <1>10, <2>1 DEF CrashAndRestart
  <2>2. CASE /\ \/ take' = take + 1 /\ take < MaxTakes
                \/ take' = take /\ fpc = "held"
             /\ latest' = [latest EXCEPT ![dir] = take']
             /\ staging' = staging \cup {take'}
    <3>1. take' \in 0..MaxTakes /\ take' \in Take
      BY <2>2 DEF Take
    <3>2. latest' \in [Dirs -> 0..MaxTakes] /\ staging' \subseteq Take
      BY <2>2, <3>1
    <3> QED
      BY <1>10, <3>1, <3>2 DEF CrashAndRestart
  <2> QED
    BY <1>10, <2>1, <2>2 DEF CrashAndRestart
<1>11. CASE UNCHANGED vars
  BY <1>11 DEF vars
<1> QED
  BY <1>1, <1>2, <1>3, <1>4, <1>5, <1>6, <1>7, <1>8, <1>9, <1>10, <1>11,
     <1>12, <1>13 DEF Next

\* Every step keeps the rest of the invariant.
LEMMA Inductive == IInv /\ [Next]_vars => IInv'
<1> SUFFICES ASSUME IInv, [Next]_vars
             PROVE  InHand' /\ Progress' /\ LastTakeIsLastInHistory' /\ PointerHasHistory'
  BY TypeKept DEF IInv
<1> USE DEF IInv, InHand, Progress, published, context, Return, Go
<1>1. CASE StopObs
  BY <1>1, PublishedKept DEF StopObs, Recorded
<1>12. CASE StopGivesUp
  <2>1. take' \in Take
    BY <1>12, RecordedTake DEF StopGivesUp
  <2> QED
    BY <1>12, <2>1, PublishedKept DEF StopGivesUp, Recorded
<1>2. CASE RejectTake
  BY <1>2 DEF RejectTake, DropLastTake, LastTakeIsLastInHistory, PointerHasHistory, TypeOK
<1>3. CASE AcceptTake
  BY <1>3, PublishedKept DEF AcceptTake, TypeOK, None
<1>4. ASSUME NEW n \in Name, MoveVideo(n)
      PROVE  InHand' /\ Progress' /\ LastTakeIsLastInHistory' /\ PointerHasHistory'
  BY <1>4 DEF MoveVideo, PutVideo, LastTakeIsLastInHistory, PointerHasHistory
<1>13. CASE MoveLosesVideo
  BY <1>13, PublishedKept DEF MoveLosesVideo
<1>5. CASE UnlinkLastTake
  BY <1>5 DEF UnlinkLastTake, DropLastTake, LastTakeIsLastInHistory, PointerHasHistory, TypeOK
<1>6. CASE AppendTakeHistory
  <2>1. ThisEntry \in Entry /\ ThisEntry' = ThisEntry
    BY <1>6 DEF AppendTakeHistory, ThisEntry, Entry
  <2>2. history'[dir] # <<>> /\ Last(history'[dir]) = ThisEntry
    BY <1>6, <2>1, LastOfAppend DEF AppendTakeHistory, TypeOK
  <2>3. \A d \in Dirs \ {dir} : history'[d] = history[d]
    BY <1>6 DEF AppendTakeHistory, TypeOK
  <2>4. lastTake'[dir] = NoEntry /\ lastTake' = lastTake
    BY <1>6 DEF AppendTakeHistory
  <2>5. LastTakeIsLastInHistory'
    BY <2>3, <2>4 DEF LastTakeIsLastInHistory
  <2>6. PointerHasHistory'
    BY <1>6, <2>2, <2>3 DEF AppendTakeHistory, PointerHasHistory, TypeOK
  <2> QED
    BY <1>6, <2>1, <2>2, <2>4, <2>5, <2>6 DEF AppendTakeHistory
<1>7. CASE WriteLastTake
  <2>1. ThisEntry' = ThisEntry
    BY <1>7 DEF WriteLastTake, ThisEntry
  <2>2. lastTake'[dir] = ThisEntry /\ \A d \in Dirs \ {dir} : lastTake'[d] = lastTake[d]
    BY <1>7 DEF WriteLastTake, TypeOK
  <2>3. LastTakeIsLastInHistory'
    BY <1>7, <2>2 DEF WriteLastTake, LastTakeIsLastInHistory
  <2>4. PointerHasHistory'
    BY <1>7 DEF WriteLastTake, PointerHasHistory
  <2> QED
    BY <1>7, <2>3, <2>4 DEF WriteLastTake
<1>8. CASE PublishSidecarPointer
  BY <1>8 DEF PublishSidecarPointer, LastTakeIsLastInHistory, PointerHasHistory
<1>9. CASE FinalizeFails
  BY <1>9, PublishedKept DEF FinalizeFails, Fail
<1>10. CASE CrashAndRestart
  BY <1>10, PublishedKept DEF CrashAndRestart
<1>11. CASE UNCHANGED vars
  BY <1>11, PublishedKept DEF vars, ThisEntry
<1> QED
  BY <1>1, <1>2, <1>3, <1>4, <1>5, <1>6, <1>7, <1>8, <1>9, <1>10, <1>11,
     <1>12, <1>13 DEF Next

\* The invariant holds in every reachable state, crashes included.
LEMMA Invariant == Spec => []IInv
BY InitIInv, Inductive, PTL DEF Spec

\* The types of TakeFiles.
THEOREM TypeCorrect == Spec => []TypeOK
<1>1. IInv => TypeOK
  BY DEF IInv
<1> QED
  BY <1>1, Invariant, PTL

\* last_take.json is absent or names the last entry of the history beside it,
\* whatever failed and whenever the bridge died (take_sidecar.py:43-47,
\* recorder.py:197).
THEOREM LastTakeConsistent == Spec => []LastTakeIsLastInHistory
<1>1. IInv => LastTakeIsLastInHistory
  BY DEF IInv
<1> QED
  BY <1>1, Invariant, PTL

\* The pointer file leads to a folder with a history (take_sidecar.py:46).
THEOREM PointerUseful == Spec => []PointerHasHistory
<1>1. IInv => PointerHasHistory
  BY DEF IInv
<1> QED
  BY <1>1, Invariant, PTL

-----------------------------------------------------------------------------
(* No take is published twice                                               *)

\* A recording is in staging, in hand or published, never two of them.
Unpublished ==
    /\ \A f \in staging : f <= take
    /\ fpc \in {"check", "move"} /\ file # None => file \in staging
    /\ fpc \in {"unlink", "history"} => file \notin staging /\ file <= take
    /\ \A d \in Dirs : \A i \in 1..Len(history[d]) :
          /\ history[d][i].take \notin staging
          /\ history[d][i].take <= take
          /\ fpc = "held" => history[d][i].take # take
          /\ fpc \in {"unlink", "history"} => history[d][i].take # file
    /\ PublishedOnce

\* The entries after an append.
LEMMA EntriesOfAppend ==
    ASSUME NEW h \in Seq(Entry), NEW e \in Entry, NEW i \in 1..Len(Append(h, e))
    PROVE  \/ i \in 1..Len(h) /\ Append(h, e)[i] = h[i]
           \/ i = Len(h) + 1 /\ Append(h, e)[i] = e
OBVIOUS

\* The entries after AppendTakeHistory: the new one is this folder's last.
LEMMA EntriesAfterAppend ==
    ASSUME IInv, AppendTakeHistory, NEW d \in Dirs, NEW i \in 1..Len(history'[d])
    PROVE  \/ i \in 1..Len(history[d]) /\ history'[d][i] = history[d][i]
           \/ d = dir /\ i = Len(history[d]) + 1 /\ history'[d][i] = ThisEntry
<1> USE DEF IInv, TypeOK
<1>1. ThisEntry \in Entry
  BY DEF AppendTakeHistory, Go, ThisEntry, Entry, InHand
<1>2. CASE d = dir
  <2>1. history'[d] = Append(history[d], ThisEntry)
    BY <1>2 DEF AppendTakeHistory
  <2> QED
    BY <1>1, <1>2, <2>1, EntriesOfAppend
<1>3. CASE d # dir
  BY <1>3 DEF AppendTakeHistory
<1> QED
  BY <1>2, <1>3

\* Every step keeps recordings apart.
LEMMA UnpublishedKept == IInv /\ Unpublished /\ [Next]_vars => Unpublished'
<1> SUFFICES ASSUME IInv, Unpublished, [Next]_vars PROVE Unpublished'
  OBVIOUS
<1> USE DEF published, context, Return, Go
<1>a. /\ take \in Nat /\ staging \subseteq Nat /\ file \in Nat
      /\ \A d \in Dirs : \A i \in 1..Len(history[d]) : history[d][i] \in Entry
  BY TakeFilesAssumption DEF IInv, TypeOK, Take, None
<1>b. \A e \in Entry : e.take \in Nat /\ e.take # None
  BY DEF Entry, Take, None
<1>c. ASSUME Recorded
      PROVE  /\ take' \in Nat /\ history' = history
             /\ \A f \in staging : f <= take'
             /\ \A d \in Dirs : \A i \in 1..Len(history[d]) : history[d][i].take < take'
  BY <1>a, <1>b, <1>c DEF Recorded, Unpublished
<1>1. CASE StopObs
  <2>1. Recorded /\ staging' \subseteq staging \cup {take'}
    BY <1>1 DEF StopObs
  <2>2. fpc' = "check" /\ (file' = None \/ file' \in staging')
    BY <1>1 DEF StopObs
  <2>3. \A f \in staging' : f <= take'
    BY <1>c, <2>1
  <2>4. \A d \in Dirs : \A i \in 1..Len(history[d]) :
            history[d][i].take \notin staging' /\ history[d][i].take <= take'
    BY <1>b, <1>a, <1>c, <2>1 DEF Unpublished
  <2> QED
    BY <1>c, <2>1, <2>2, <2>3, <2>4 DEF Unpublished, PublishedOnce
<1>12. CASE StopGivesUp
  <2>1. Recorded /\ staging' \subseteq staging \cup {take'} /\ fpc' = "held"
    BY <1>12 DEF StopGivesUp
  <2>2. \A f \in staging' : f <= take'
    BY <1>c, <2>1
  <2>3. \A d \in Dirs : \A i \in 1..Len(history[d]) :
            /\ history[d][i].take \notin staging'
            /\ history[d][i].take <= take' /\ history[d][i].take # take'
    BY <1>b, <1>a, <1>c, <2>1 DEF Unpublished
  <2> QED
    BY <1>c, <2>1, <2>2, <2>3 DEF Unpublished, PublishedOnce
<1>2. CASE RejectTake
  BY <1>2 DEF RejectTake, Unpublished, PublishedOnce
<1>3. CASE AcceptTake
  BY <1>3 DEF AcceptTake, Unpublished, PublishedOnce
<1>4. ASSUME NEW n \in Name, MoveVideo(n) PROVE Unpublished'
  <2>1. file \in staging /\ staging' = staging \ {file} /\ fpc' = "unlink" /\ file' = file
    BY <1>4, NoneIsNoTake DEF MoveVideo, Unpublished, IInv, InHand
  <2>2. history' = history /\ take' = take
    BY <1>4 DEF MoveVideo, PutVideo
  <2> QED
    BY <2>1, <2>2 DEF Unpublished, PublishedOnce
<1>13. CASE MoveLosesVideo
  BY <1>13 DEF MoveLosesVideo, Unpublished, PublishedOnce
<1>5. CASE UnlinkLastTake
  BY <1>5 DEF UnlinkLastTake, Unpublished, PublishedOnce
<1>6. CASE AppendTakeHistory
  <2> DEFINE Old(d, i) == i \in 1..Len(history[d]) /\ history'[d][i] = history[d][i]
             New(d, i) == d = dir /\ i = Len(history[d]) + 1 /\ history'[d][i].take = file
  <2>1. \A d \in Dirs : \A i \in 1..Len(history'[d]) : Old(d, i) \/ New(d, i)
    BY <1>6, EntriesAfterAppend DEF ThisEntry
  <2>2. /\ fpc = "history" /\ fpc' = "lastTake"
        /\ staging' = staging /\ take' = take
    BY <1>6 DEF AppendTakeHistory
  <2>3. file \notin staging /\ file <= take
    BY <2>2 DEF Unpublished
  <2>4. \A d \in Dirs : \A i \in 1..Len(history[d]) : history[d][i].take # file
    BY <2>2 DEF Unpublished
  <2>5. ASSUME NEW d \in Dirs, NEW i \in 1..Len(history'[d])
        PROVE  history'[d][i].take \notin staging /\ history'[d][i].take <= take
    BY <2>1, <2>3 DEF Unpublished
  <2>6. ASSUME NEW d \in Dirs, NEW e \in Dirs,
               NEW i \in 1..Len(history'[d]), NEW j \in 1..Len(history'[e]),
               history'[d][i].take = history'[e][j].take
        PROVE  d = e /\ i = j
    <3>1. CASE Old(d, i) /\ Old(e, j)
      BY <2>6, <3>1 DEF Unpublished, PublishedOnce
    <3>2. CASE New(d, i) /\ New(e, j)
      BY <3>2
    <3>3. ~(Old(d, i) /\ New(e, j)) /\ ~(New(d, i) /\ Old(e, j))
      BY <2>4, <2>6
    <3> QED
      BY <2>1, <3>1, <3>2, <3>3
  <2> QED
    BY <2>2, <2>3, <2>5, <2>6 DEF Unpublished, PublishedOnce
<1>7. CASE WriteLastTake
  BY <1>7 DEF WriteLastTake, Unpublished, PublishedOnce
<1>8. CASE PublishSidecarPointer
  BY <1>8 DEF PublishSidecarPointer, Unpublished, PublishedOnce
<1>9. CASE FinalizeFails
  BY <1>9 DEF FinalizeFails, Fail, Unpublished, PublishedOnce
<1>10. CASE CrashAndRestart
  <2>1. CASE UNCHANGED <<take, staging>>
    BY <1>10, <2>1 DEF CrashAndRestart, Unpublished, PublishedOnce
  <2>2. CASE /\ take' = take + 1 \/ (take' = take /\ fpc = "held")
             /\ staging' = staging \cup {take'}
    <3>1. history' = history /\ fpc' = "idle"
      BY <1>10 DEF CrashAndRestart
    <3>2. \A f \in staging' : f <= take'
      BY <1>a, <2>2 DEF Unpublished
    <3>3. \A d \in Dirs : \A i \in 1..Len(history[d]) :
              history[d][i].take \notin staging' /\ history[d][i].take <= take'
      BY <1>a, <1>b, <2>2 DEF Unpublished
    <3> QED
      BY <3>1, <3>2, <3>3 DEF Unpublished, PublishedOnce
  <2> QED
    BY <1>10, <2>1, <2>2 DEF CrashAndRestart
<1>11. CASE UNCHANGED vars
  BY <1>11 DEF vars, Unpublished, PublishedOnce
<1> QED
  BY <1>1, <1>2, <1>3, <1>4, <1>5, <1>6, <1>7, <1>8, <1>9, <1>10, <1>11,
     <1>12, <1>13 DEF Next

\* No take is published twice, through leftovers, recordings that went on,
\* failures, crashes and names used again (obs_client.py:176, recorder.py:192).
THEOREM NoTakeTwice == Spec => []PublishedOnce
<1>1. Init => Unpublished
  BY DEF Init, Unpublished, PublishedOnce
<1>2. Unpublished => PublishedOnce
  BY DEF Unpublished
<1> QED
  BY <1>1, <1>2, UnpublishedKept, Invariant, PTL DEF Spec

-----------------------------------------------------------------------------
(* Every entry of a history names a video                                   *)

\* The video of the take in hand is where its entry will say.
Named ==
    /\ fpc \in {"unlink", "history"} => videos[dir][name] = file
    /\ HistoryNamesVideos

\* MoveVideo puts the take where none was, or says that it replaced a video.
LEMMA MoveReplaces ==
    ASSUME IInv, NEW n \in Name, MoveVideo(n)
    PROVE  /\ videos'[dir][n] = file
           /\ \A d \in Dirs, m \in Name : videos'[d][m] # videos[d][m] =>
                d = dir /\ m = n /\ (videos[d][m] # None => m \in reused'[d])
           /\ \A d \in Dirs : reused[d] \subseteq reused'[d]
<1>1. /\ videos \in [Dirs -> [Name -> Take \cup {None}]]
      /\ reused \in [Dirs -> SUBSET Name]
      /\ dir \in Dirs
  BY DEF IInv, TypeOK
<1>2. /\ videos' = [videos EXCEPT ![dir][n] = file]
      /\ reused' = [reused EXCEPT ![dir] =
                        IF videos[dir][n] = None THEN @ ELSE @ \cup {n}]
  BY DEF MoveVideo, PutVideo
<1>3. videos'[dir][n] = file
  BY <1>1, <1>2
<1>4. \A d \in Dirs, m \in Name : videos'[d][m] # videos[d][m] => d = dir /\ m = n
  BY <1>1, <1>2
<1>5. \A d \in Dirs : reused[d] \subseteq reused'[d]
  BY <1>1, <1>2
<1>6. videos[dir][n] # None => n \in reused'[dir]
  BY <1>1, <1>2
<1> QED
  BY <1>3, <1>4, <1>5, <1>6

\* The entry's name is one of Name, its take is a recording.
LEMMA EntriesAreNamed ==
    ASSUME IInv, NEW d \in Dirs, NEW i \in 1..Len(history[d])
    PROVE  history[d][i].name \in Name /\ history[d][i].take # None
<1>1. history[d][i] \in Entry
  BY DEF IInv, TypeOK
<1> QED
  BY <1>1, NoneIsNoTake DEF Entry

\* Every step keeps the names right.
LEMMA NamedKept == IInv /\ Named /\ [Next]_vars => Named'
<1> SUFFICES ASSUME IInv, Named, [Next]_vars PROVE Named'
  OBVIOUS
<1> USE DEF published, context, Return, Go
<1>1. CASE StopObs
  BY <1>1 DEF StopObs, Recorded, Named, HistoryNamesVideos
<1>12. CASE StopGivesUp
  BY <1>12 DEF StopGivesUp, Recorded, Named, HistoryNamesVideos
<1>2. CASE RejectTake
  BY <1>2 DEF RejectTake, Named, HistoryNamesVideos
<1>3. CASE AcceptTake
  BY <1>3 DEF AcceptTake, Named, HistoryNamesVideos
<1>4. ASSUME NEW n \in Name, MoveVideo(n) PROVE Named'
  <2>1. /\ fpc' = "unlink" /\ file' = file /\ name' = n
        /\ dir' = dir /\ history' = history
    BY <1>4 DEF MoveVideo, PutVideo
  <2>2. file # None
    BY <1>4, NoneIsNoTake DEF MoveVideo, IInv, InHand
  <2>3. ASSUME NEW d \in Dirs, NEW i \in 1..Len(history[d])
        PROVE  LET entry == history[d][i]
               IN  /\ videos'[d][entry.name] # None
                   /\ entry.name \notin reused'[d] => videos'[d][entry.name] = entry.take
    <3>1. history[d][i].name \in Name
      BY EntriesAreNamed
    <3>2. /\ videos[d][history[d][i].name] # None
          /\ history[d][i].name \notin reused[d] =>
               videos[d][history[d][i].name] = history[d][i].take
      BY DEF Named, HistoryNamesVideos
    <3> QED
      BY <1>4, <2>2, <3>1, <3>2, MoveReplaces
  <2> QED
    BY <1>4, <2>1, <2>3, MoveReplaces DEF Named, HistoryNamesVideos
<1>13. CASE MoveLosesVideo
  BY <1>13 DEF MoveLosesVideo, Named, HistoryNamesVideos
<1>5. CASE UnlinkLastTake
  BY <1>5 DEF UnlinkLastTake, Named, HistoryNamesVideos
<1>6. CASE AppendTakeHistory
  <2>1. fpc' = "lastTake" /\ UNCHANGED <<videos, reused>> /\ videos[dir][name] = file
    BY <1>6 DEF AppendTakeHistory, Named
  <2>2. file # None
    BY <1>6, NoneIsNoTake DEF AppendTakeHistory, IInv, InHand
  <2>3. ASSUME NEW d \in Dirs, NEW i \in 1..Len(history'[d])
        PROVE  LET entry == history'[d][i]
               IN  /\ videos[d][entry.name] # None
                   /\ entry.name \notin reused[d] => videos[d][entry.name] = entry.take
    <3>1. CASE i \in 1..Len(history[d]) /\ history'[d][i] = history[d][i]
      BY <3>1 DEF Named, HistoryNamesVideos
    <3>2. CASE d = dir /\ history'[d][i] = ThisEntry
      BY <2>1, <2>2, <3>2 DEF ThisEntry
    <3> QED
      BY <1>6, <3>1, <3>2, EntriesAfterAppend
  <2> QED
    BY <2>1, <2>3 DEF Named, HistoryNamesVideos
<1>7. CASE WriteLastTake
  BY <1>7 DEF WriteLastTake, Named, HistoryNamesVideos
<1>8. CASE PublishSidecarPointer
  BY <1>8 DEF PublishSidecarPointer, Named, HistoryNamesVideos
<1>9. CASE FinalizeFails
  BY <1>9 DEF FinalizeFails, Fail, Named, HistoryNamesVideos
<1>10. CASE CrashAndRestart
  BY <1>10 DEF CrashAndRestart, Named, HistoryNamesVideos
<1>11. CASE UNCHANGED vars
  BY <1>11 DEF vars, Named, HistoryNamesVideos
<1> QED
  BY <1>1, <1>2, <1>3, <1>4, <1>5, <1>6, <1>7, <1>8, <1>9, <1>10, <1>11,
     <1>12, <1>13 DEF Next

\* Empty folders name nothing.
LEMMA InitNamed == Init => Named
BY DEF Init, Named, HistoryNamesVideos

\* Every entry of a history names a video, and it is that take's unless a later
\* take got its name, through failures and crashes (recorder.py:192-198).
THEOREM VideosNamed == Spec => []HistoryNamesVideos
<1>1. Named => HistoryNamesVideos
  BY DEF Named
<1> QED
  BY <1>1, NamedKept, InitNamed, Invariant, PTL DEF Spec

-----------------------------------------------------------------------------
(* last_take.json is not older than the last recording                      *)

\* The take in hand is its folder's latest; last_take.json of every other folder,
\* and of this one between two takes, has the name of the latest or is gone.
Current ==
    /\ fpc # "idle" => latest[dir] = take
    /\ fpc \in {"unlink", "history", "lastTake", "pointer"} =>
          name \in {take} \cup reused[dir]
    /\ fpc = "pointer" => lastTake[dir].name = name
    /\ \A d \in Dirs : ~raised[d] /\ (d = dir => fpc = "idle") =>
          lastTake[d].name \in {None, latest[d]} \cup reused[d]

\* Every step keeps it.
LEMMA CurrentKept == IInv /\ Current /\ [Next]_vars => Current'
<1> SUFFICES ASSUME IInv, Current, [Next]_vars PROVE Current'
  OBVIOUS
<1> USE DEF published, context, Return, Go
<1>a. /\ dir \in Dirs
      /\ raised \in [Dirs -> BOOLEAN]
      /\ latest \in [Dirs -> 0..MaxTakes]
      /\ lastTake \in [Dirs -> Entry \cup {NoEntry}]
      /\ reused \in [Dirs -> SUBSET Name]
  BY DEF IInv, TypeOK
<1>1. CASE StopObs
  BY <1>1, <1>a DEF StopObs, Recorded, Current
<1>12. CASE StopGivesUp
  BY <1>12, <1>a DEF StopGivesUp, Recorded, Current
<1>2. CASE RejectTake
  BY <1>2, <1>a DEF RejectTake, DropLastTake, NoEntry, Current
<1>3. CASE AcceptTake
  BY <1>3, <1>a DEF AcceptTake, Current
<1>4. ASSUME NEW n \in Name, MoveVideo(n) PROVE Current'
  <2>1. /\ fpc = "move" /\ fpc' = "unlink" /\ name' = n
        /\ UNCHANGED <<context, lastTake>>
    BY <1>4 DEF MoveVideo, PutVideo
  <2>2. \A d \in Dirs : reused[d] \subseteq reused'[d]
    BY <1>4, MoveReplaces
  <2>3. n = take \/ n \in reused'[dir]
    BY <1>4, <1>a DEF MoveVideo, NameOf, PutVideo
  <2> QED
    BY <1>a, <2>1, <2>2, <2>3 DEF Current
<1>13. CASE MoveLosesVideo
  BY <1>13, <1>a DEF MoveLosesVideo, Current
<1>5. CASE UnlinkLastTake
  BY <1>5, <1>a DEF UnlinkLastTake, DropLastTake, Current
<1>6. CASE AppendTakeHistory
  BY <1>6, <1>a DEF AppendTakeHistory, Current
<1>7. CASE WriteLastTake
  BY <1>7, <1>a DEF WriteLastTake, ThisEntry, Current
<1>8. CASE PublishSidecarPointer
  BY <1>8, <1>a DEF PublishSidecarPointer, Current
<1>9. CASE FinalizeFails
  BY <1>9, <1>a DEF FinalizeFails, Fail, Current
<1>10. CASE CrashAndRestart
  <2>1. /\ lastTake' = lastTake /\ fpc' = "idle"
        /\ \A d \in Dirs \ {dir} : raised'[d] = raised[d] /\ latest'[d] = latest[d]
    BY <1>10, <1>a DEF CrashAndRestart
  <2>2. ~raised'[dir] => ~raised[dir] /\ fpc = "idle" /\ latest' = latest
    BY <1>10, <1>a DEF CrashAndRestart
  <2>3. reused' = reused
    BY <1>10 DEF CrashAndRestart
  <2> QED
    BY <2>1, <2>2, <2>3 DEF Current
<1>11. CASE UNCHANGED vars
  BY <1>11 DEF vars, Current
<1> QED
  BY <1>1, <1>2, <1>3, <1>4, <1>5, <1>6, <1>7, <1>8, <1>9, <1>10, <1>11,
     <1>12, <1>13 DEF Next

\* A last_take.json that is older than the last recording means that an exception
\* or a crash cut that recording's handling short, or that it got the name of an
\* older one (recorder.py:179-198).
THEOREM StaleOnlyWhenRaised == Spec => []StaleOnlyAfterException
<1>1. Init => Current
  BY DEF Init, Current, NoEntry
<1>2. IInv /\ Current /\ [Next]_vars => Current'
  BY CurrentKept
<1>3. IInv /\ Current => StaleOnlyAfterException
  BY DEF IInv, TypeOK, Current, StaleOnlyAfterException
<1> QED
  BY <1>1, <1>2, <1>3, Invariant, PTL DEF Spec
=============================================================================
