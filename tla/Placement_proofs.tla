------------------------- MODULE Placement_proofs -------------------------
(***************************************************************************)
(* What the extension reads and imports while the bridge goes on            *)
(* publishing, for any number of takes and folders.  The argument: a        *)
(* history only names videos that are there, and a video that replaces one  *)
(* leaves its name among the reused; so what the command has read stays     *)
(* true of the others however long it takes, and the cache is filled from   *)
(* those videos, or by an ffmpeg that failed.                               *)
(***************************************************************************)
EXTENDS Placement, TakeFiles_proofs

\* The entry's video is there, and its take's unless its name was used again.
EntryTrue(d, entry) ==
    /\ videos[d][entry.name] # None
    /\ entry.name \notin reused[d] => videos[d][entry.name] = entry.take

\* The mp4 of a name was made of its video.
CacheTrue(d, n) ==
    cache[d][n] \in {None, videos[d][n]} \cup (IF remuxFailed THEN {Partial} ELSE {})

\* What the command has read, and what the cache holds, is true of the videos.
ReadIsTrue ==
    /\ xpc # "idle" => folder \in Dirs
    /\ xpc \in {"idle", "resolved"} => todo = <<>>
    /\ \A i \in 1..Len(todo) : EntryTrue(folder, todo[i])
    /\ \A d \in Dirs, n \in Name : n \notin reused[d] => CacheTrue(d, n)
    /\ xpc \in {"remux", "import", "clip"} => todo # <<>>
    /\ PlacesTheTake

PInv == PlacementTypeOK /\ ReadIsTrue

-----------------------------------------------------------------------------
\* Sorting takes no entry from elsewhere.
LEMMA SortedEntries ==
    ASSUME NEW entries \in Seq(Entry), NEW order \in Chronological(entries)
    PROVE  /\ [i \in 1..Len(entries) |-> entries[order[i]]] \in Seq(Entry)
           /\ Len([i \in 1..Len(entries) |-> entries[order[i]]]) = Len(entries)
           /\ \A i \in 1..Len(entries) : order[i] \in 1..Len(entries)
<1>1. order \in [1..Len(entries) -> 1..Len(entries)]
  BY DEF Chronological, Bijection, Injection
<1>2. Len(entries) \in Nat
  OBVIOUS
<1> DEFINE sorted == [i \in 1..Len(entries) |-> entries[order[i]]]
<1>3. sorted \in [1..Len(entries) -> Entry]
  BY <1>1
<1>4. sorted \in Seq(Entry) /\ Len(sorted) = Len(entries)
  BY <1>2, <1>3
<1> QED
  BY <1>1, <1>4

\* One entry is sorted as it is.
LEMMA OneEntrySorted ==
    ASSUME NEW e \in Entry, NEW order \in Chronological(<<e>>)
    PROVE  [i \in 1..Len(<<e>>) |-> <<e>>[order[i]]] = <<e>>
<1>1. Len(<<e>>) = 1 /\ <<e>>[1] = e
  OBVIOUS
<1>2. order \in [1..1 -> 1..1]
  BY <1>1 DEF Chronological, Bijection, Injection
<1>3. order[1] = 1
  BY <1>2
<1>4. [i \in 1..1 |-> <<e>>[order[i]]] = [i \in 1..1 |-> e]
  BY <1>1, <1>2
<1>5. [i \in 1..1 |-> e] = <<e>>
  OBVIOUS
<1> QED
  BY <1>1, <1>4, <1>5

\* The latest take is read alone.
LEMMA LatestIsRead ==
    ASSUME IInv, PInv, ReadLatestTake
    PROVE  /\ todo' = <<lastTake[folder]>>
           /\ lastTake[folder] \in Entry
           /\ folder \in Dirs
<1>1. folder \in Dirs
  BY DEF ReadLatestTake, ReadTakes, At, PInv, ReadIsTrue
<1>2. lastTake[folder] \in Entry
  BY <1>1 DEF IInv, TypeOK, ReadLatestTake, LatestReadable
<1>3. todo' = <<lastTake[folder]>>
  BY <1>2, OneEntrySorted DEF ReadLatestTake, ReadTakes
<1> QED
  BY <1>1, <1>2, <1>3

\* What a command reads are entries of the history of its folder.
LEMMA ReadsFromHistory ==
    ASSUME IInv, PInv, ReadLatestTake \/ ReadTakeHistory
    PROVE  /\ todo' \in Seq(Entry)
           /\ folder \in Dirs
           /\ \A i \in 1..Len(todo') : \E j \in 1..Len(history[folder]) :
                todo'[i] = history[folder][j]
<1>1. folder \in Dirs
  BY DEF ReadLatestTake, ReadTakeHistory, ReadTakes, At, PInv, ReadIsTrue
<1>2. history[folder] \in Seq(Entry)
  BY <1>1 DEF IInv, TypeOK
<1>3. CASE ReadTakeHistory
  <2>1. PICK order \in Chronological(history[folder]) :
            todo' = [i \in 1..Len(history[folder]) |-> history[folder][order[i]]]
    BY <1>3 DEF ReadTakeHistory, ReadTakes
  <2> QED
    BY <1>1, <1>2, <2>1, SortedEntries
<1>4. CASE ReadLatestTake
  <2>1. /\ todo' = <<lastTake[folder]>> /\ lastTake[folder] \in Entry
        /\ history[folder] # <<>> /\ lastTake[folder] = Last(history[folder])
    BY <1>1, <1>4, LatestIsRead, NoneIsNoTake DEF IInv, LastTakeIsLastInHistory
  <2>2. /\ Len(history[folder]) \in 1..Len(history[folder])
        /\ lastTake[folder] = history[folder][Len(history[folder])]
    BY <1>2, <2>1 DEF Last
  <2>3. todo' \in Seq(Entry) /\ Len(todo') = 1 /\ todo'[1] = lastTake[folder]
    BY <2>1
  <2> QED
    BY <1>1, <2>2, <2>3
<1> QED
  BY <1>3, <1>4

-----------------------------------------------------------------------------
\* A command that has ended is well typed.
LEMMA IdleFits ==
    "all" \in Mode /\ None \in Media /\ <<>> \in Seq(Entry) /\ Len(<<>>) = 0
BY DEF Mode, Media

\* A step of the bridge leaves every video that is there, or replaces it and has
\* its name among the reused.
LEMMA VideosStay ==
    ASSUME IInv, [Next]_vars, NEW d \in Dirs, NEW n \in Name, videos[d][n] # None
    PROVE  /\ videos'[d][n] # None
           /\ n \notin reused'[d] => n \notin reused[d] /\ videos'[d][n] = videos[d][n]
<1>1. (\E m \in Name : MoveVideo(m)) \/ UNCHANGED <<videos, reused>>
  BY DEF Next, StopObs, StopGivesUp, Recorded, RejectTake, AcceptTake, MoveLosesVideo,
         UnlinkLastTake, AppendTakeHistory, WriteLastTake, PublishSidecarPointer,
         FinalizeFails, Fail, CrashAndRestart, published, context, vars
<1>2. ASSUME NEW m \in Name, MoveVideo(m)
      PROVE  /\ videos'[d][n] # None
             /\ n \notin reused'[d] => n \notin reused[d] /\ videos'[d][n] = videos[d][n]
  <2>1. file # None
    BY <1>2, NoneIsNoTake DEF MoveVideo, IInv, InHand
  <2> QED
    BY <1>2, <2>1, MoveReplaces
<1> QED
  BY <1>1, <1>2

\* A name once used again stays among the reused.
LEMMA ReusedStay ==
    ASSUME IInv, [Next]_vars, NEW d \in Dirs
    PROVE  reused[d] \subseteq reused'[d]
<1>1. (\E m \in Name : MoveVideo(m)) \/ UNCHANGED <<videos, reused>>
  BY DEF Next, StopObs, StopGivesUp, Recorded, RejectTake, AcceptTake, MoveLosesVideo,
         UnlinkLastTake, AppendTakeHistory, WriteLastTake, PublishSidecarPointer,
         FinalizeFails, Fail, CrashAndRestart, published, context, vars
<1> QED
  BY <1>1, MoveReplaces

\* A step of the bridge leaves alone what the command has read.
LEMMA BridgeStepKeepsPInv ==
    ASSUME IInv, PInv, [Next]_vars, TypeOK', UNCHANGED placementVars
    PROVE  PInv'
<1> USE DEF PInv, placementVars, command, chosen
<1>1. PlacementTypeOK'
  BY DEF PlacementTypeOK
<1>2. ASSUME NEW i \in 1..Len(todo)
      PROVE  EntryTrue(folder, todo[i])'
  <2>1. todo[i] \in Entry
    BY DEF PlacementTypeOK
  <2>2. todo[i].name \in Name /\ EntryTrue(folder, todo[i])
    BY <2>1 DEF Entry, ReadIsTrue
  <2>3. folder \in Dirs
    BY <1>2 DEF ReadIsTrue
  <2> QED
    BY <2>2, <2>3, VideosStay DEF EntryTrue
<1>3. ASSUME NEW d \in Dirs, NEW n \in Name, n \notin reused'[d]
      PROVE  CacheTrue(d, n)'
  <2>1. n \notin reused[d]
    BY <1>3, ReusedStay
  <2>2. CacheTrue(d, n)
    BY <2>1 DEF ReadIsTrue
  <2>3. videos[d][n] # None => videos'[d][n] = videos[d][n]
    BY <1>3, VideosStay
  <2> QED
    BY <2>2, <2>3 DEF CacheTrue
<1>4. PlacesTheTake'
  <2> SUFFICES ASSUME xpc \in {"import", "clip"}, ThisTake.name \notin reused'[folder]
               PROVE  media = ThisTake.take \/ (remuxFailed /\ media = Partial)
    BY DEF PlacesTheTake, ThisTake
  <2>1. folder \in Dirs
    BY DEF ReadIsTrue
  <2>2. ThisTake.name \notin reused[folder]
    BY <2>1, ReusedStay
  <2> QED
    BY <2>2 DEF ReadIsTrue, PlacesTheTake
<1>5. \A i \in 1..Len(todo) : EntryTrue(folder, todo[i])'
  BY <1>2
<1> QED
  BY <1>1, <1>3, <1>4, <1>5 DEF ReadIsTrue

\* So does every step of the command itself.
LEMMA PlacementStepKeepsPInv ==
    ASSUME IInv, Named, PInv, PlacementStep, UNCHANGED vars
    PROVE  PInv'
<1> USE DEF PInv, At, End, PlacesTheTake, EntryTrue, CacheTrue, chosen
<1>0. TypeOK' /\ videos' = videos /\ reused' = reused
  BY DEF PlacementTypeOK, TypeOK, vars
<1>1. ASSUME NEW m \in Mode, ResolveSidecarPath(m) PROVE PInv'
  <2>1. folder' \in Dirs
    BY <1>1, <1>0 DEF ResolveSidecarPath, PlacementTypeOK, TypeOK
  <2> QED
    BY <1>0, <1>1, <2>1 DEF ResolveSidecarPath, PlacementTypeOK, ReadIsTrue
<1>2. CASE ReadLatestTake \/ ReadTakeHistory
  <2>1. UNCHANGED <<chosen, media, cache, remuxFailed>> /\ xpc' = "next"
    BY <1>2 DEF ReadLatestTake, ReadTakeHistory, ReadTakes
  <2>2. todo' \in Seq(Entry) /\ folder \in Dirs
    BY <1>2, ReadsFromHistory
  <2>3. \A i \in 1..Len(todo') : EntryTrue(folder, todo'[i])
    BY <1>2, ReadsFromHistory DEF Named, HistoryNamesVideos
  <2> QED
    BY <1>0, <2>1, <2>2, <2>3 DEF PlacementTypeOK, ReadIsTrue
<1>3. CASE ReadFails \/ DurationTooShort \/ Finish \/ Abort
  <2>1. /\ xpc' = "idle" /\ mode' = "all" /\ folder' = None /\ todo' = <<>>
        /\ asked' = FALSE /\ media' = None
        /\ cache' = cache /\ remuxFailed' = remuxFailed
    BY <1>3 DEF ReadFails, DurationTooShort, Finish, Abort
  <2>2. PlacementTypeOK'
    BY <1>0, <2>1, IdleFits DEF PlacementTypeOK
  <2>3. \A i \in 1..Len(todo') : EntryTrue(folder, todo[i])'
    BY <2>1, IdleFits
  <2> QED
    BY <1>0, <2>1, <2>2, <2>3 DEF ReadIsTrue
<1>4. CASE CheckDuration
  BY <1>0, <1>4 DEF CheckDuration, PlacementTypeOK, ReadIsTrue
<1>5. CASE UseCachedMp4 \/ Remux
  <2>1. /\ xpc = "remux" /\ xpc' = "import" /\ folder \in Dirs
        /\ todo \in Seq(Entry) /\ todo # <<>>
    BY <1>5 DEF UseCachedMp4, Remux, PlacementTypeOK, ReadIsTrue
  <2>2. ThisTake = todo[1] /\ 1 \in 1..Len(todo) /\ ThisTake \in Entry
    BY <2>1 DEF ThisTake
  <2>3. /\ ThisTake.name \in Name
        /\ ThisTake.name \notin reused[folder] => Video = ThisTake.take
        /\ Video \in Take
    <3>1. ThisTake.name \in Name
      BY <2>2 DEF Entry
    <3>2. EntryTrue(folder, ThisTake)
      BY <2>2 DEF ReadIsTrue
    <3>3. Video \in Take \cup {None}
      BY <2>1, <3>1 DEF Video, PlacementTypeOK, TypeOK
    <3> QED
      BY <3>1, <3>2, <3>3 DEF Video
  <2>4. CASE UseCachedMp4
    <3>1. media' = Cached /\ Cached # None
      BY <2>4 DEF UseCachedMp4
    <3>2. ThisTake.name \in reused[folder]
            \/ Cached \in {None, Video} \cup (IF remuxFailed THEN {Partial} ELSE {})
      BY <2>1, <2>3 DEF Cached, Video, ReadIsTrue
    <3>3. media' \in Media
      BY <2>1, <2>3, <3>1 DEF Cached, PlacementTypeOK
    <3> QED
      BY <1>0, <2>1, <2>3, <2>4, <3>1, <3>2, <3>3
         DEF UseCachedMp4, PlacementTypeOK, ReadIsTrue, ThisTake
  <2>5. CASE Remux
    <3>1. media' = Video /\ media' \in Media /\ UNCHANGED <<chosen, todo, remuxFailed>>
      BY <2>3, <2>5 DEF Remux, Media
    <3>2. cache' = [cache EXCEPT ![folder][ThisTake.name] = Video]
      BY <2>5 DEF Remux
    <3>3. cache' \in [Dirs -> [Name -> Media]]
      BY <3>1, <3>2, <2>1, <2>3 DEF PlacementTypeOK
    <3>4. \A d \in Dirs, n \in Name : cache'[d][n] = cache[d][n] \/ cache'[d][n] = videos[d][n]
      BY <2>1, <2>3, <3>2 DEF PlacementTypeOK, Video
    <3>5. \A d \in Dirs, n \in Name : n \notin reused[d] =>
            cache'[d][n] \in {None, videos[d][n]} \cup (IF remuxFailed THEN {Partial} ELSE {})
      BY <3>4 DEF ReadIsTrue
    <3> QED
      BY <1>0, <2>1, <2>3, <3>1, <3>3, <3>5 DEF PlacementTypeOK, ReadIsTrue, ThisTake
  <2> QED
    BY <1>5, <2>4, <2>5
<1>6. CASE RemuxFails
  <2>1. folder \in Dirs /\ ThisTake.name \in Name
    <3>1. folder \in Dirs /\ todo \in Seq(Entry) /\ todo # <<>>
      BY <1>6 DEF RemuxFails, PlacementTypeOK, ReadIsTrue
    <3>2. ThisTake \in Entry
      BY <3>1 DEF ThisTake
    <3> QED
      BY <3>1, <3>2 DEF Entry
  <2>2. Partial \in Media
    BY DEF Media
  <2>3. cache' \in [Dirs -> [Name -> Media]]
    <3>1. cache \in [Dirs -> [Name -> Media]]
      BY DEF PlacementTypeOK
    <3>2. [cache EXCEPT ![folder][ThisTake.name] = Partial] \in [Dirs -> [Name -> Media]]
      BY <2>1, <2>2, <3>1
    <3> QED
      BY <1>6, <3>1, <3>2 DEF RemuxFails
  <2>4. \A d \in Dirs, n \in Name : cache'[d][n] \in {cache[d][n], Partial}
    BY <1>6, <2>1 DEF RemuxFails, PlacementTypeOK
  <2>5. \A d \in Dirs, n \in Name : n \notin reused[d] =>
            cache'[d][n] \in {None, videos[d][n]} \cup {Partial}
    BY <2>4 DEF ReadIsTrue
  <2>6. /\ xpc' = "idle" /\ mode' = "all" /\ folder' = None /\ todo' = <<>>
        /\ asked' = FALSE /\ media' = None /\ remuxFailed' = TRUE
    BY <1>6 DEF RemuxFails
  <2>7. PlacementTypeOK'
    BY <1>0, <2>3, <2>6, IdleFits DEF PlacementTypeOK
  <2>8. \A i \in 1..Len(todo') : EntryTrue(folder, todo[i])'
    BY <2>6, IdleFits
  <2> QED
    BY <1>0, <2>5, <2>6, <2>7, <2>8 DEF ReadIsTrue
<1>7. CASE ImportIntoProject
  BY <1>0, <1>7 DEF ImportIntoProject, PlacementTypeOK, ReadIsTrue, ThisTake
<1>8. CASE CreateAudioClip
  <2>1. todo \in Seq(Entry) /\ todo # <<>> /\ todo' = Tail(todo)
    BY <1>8 DEF CreateAudioClip, PlacementTypeOK, ReadIsTrue
  <2>2. todo' \in Seq(Entry)
    BY <2>1
  <2>3. \A i \in 1..Len(todo') : i + 1 \in 1..Len(todo) /\ todo'[i] = todo[i + 1]
    BY <2>1
  <2>4. \A i \in 1..Len(todo') : EntryTrue(folder, todo'[i])
    BY <2>3 DEF ReadIsTrue
  <2> QED
    BY <1>0, <1>8, <2>2, <2>4 DEF CreateAudioClip, PlacementTypeOK, ReadIsTrue, Media
<1> QED
  BY <1>1, <1>2, <1>3, <1>4, <1>5, <1>6, <1>7, <1>8 DEF PlacementStep

-----------------------------------------------------------------------------
\* The bridge beside the extension is the bridge of TakeFiles.
LEMMA PlacedIsTakeFiles == PlacedSpec => Spec
<1>1. PlacedInit => Init
  BY DEF PlacedInit
<1>2. [PlacedNext]_allVars => [Next]_vars
  BY DEF PlacedNext, allVars
<1> QED
  BY <1>1, <1>2, PTL DEF PlacedSpec, Spec

\* The invariant holds in every reachable state of the two processes.
LEMMA PlacedInvariant ==
    PlacedSpec => [](IInv /\ Named /\ Current /\ PInv)
<1>1. PlacedInit => PInv
  <2> SUFFICES ASSUME PlacedInit PROVE PInv
    OBVIOUS
  <2>1. TypeOK
    BY InitIInv DEF PlacedInit, IInv
  <2>2. PlacementTypeOK
    BY <2>1, IdleFits DEF PlacedInit, PlacementInit, PlacementTypeOK
  <2>3. ReadIsTrue
    <3>1. \A i \in 1..Len(todo) : EntryTrue(folder, todo[i])
      BY IdleFits DEF PlacedInit, PlacementInit
    <3>2. \A d \in Dirs, n \in Name : CacheTrue(d, n)
      BY DEF PlacedInit, PlacementInit, CacheTrue
    <3> QED
      BY <3>1, <3>2 DEF PlacedInit, PlacementInit, ReadIsTrue, PlacesTheTake
  <2> QED
    BY <2>2, <2>3 DEF PInv
<1>2. Init => Current
  BY DEF Init, Current, NoEntry
<1>3. IInv /\ Named /\ [Next]_vars => Named'
  BY NamedKept
<1>4. IInv /\ Current /\ [Next]_vars => Current'
  BY CurrentKept
<1>5. IInv /\ Named /\ PInv /\ IInv' /\ [PlacedNext]_allVars => PInv'
  <2> SUFFICES ASSUME IInv, Named, PInv, IInv', [PlacedNext]_allVars PROVE PInv'
    OBVIOUS
  <2>1. CASE Next /\ UNCHANGED placementVars
    BY <2>1, BridgeStepKeepsPInv DEF IInv
  <2>2. CASE PlacementStep /\ UNCHANGED vars
    BY <2>2, PlacementStepKeepsPInv
  <2>3. CASE UNCHANGED allVars
    BY <2>3, BridgeStepKeepsPInv DEF IInv, allVars
  <2> QED
    BY <2>1, <2>2, <2>3 DEF PlacedNext
<1>6. Spec => []IInv /\ []Named /\ []Current
  BY <1>2, <1>3, <1>4, InitNamed, Invariant, PTL DEF Spec
<1> QED
  BY <1>1, <1>5, <1>6, PlacedIsTakeFiles, PTL DEF PlacedSpec

\* The types of the two processes.
THEOREM PlacementTypeCorrect == PlacedSpec => []PlacementTypeOK
<1>1. PInv => PlacementTypeOK
  BY DEF PInv
<1> QED
  BY <1>1, PlacedInvariant, PTL

\* What Live imports for a take is its own recording, whatever the bridge
\* publishes meanwhile, unless it published that under the name of an older take
\* or a failed ffmpeg left a part (extension.ts:66-95, 299-325, naming.py:17).
THEOREM OwnRecordingPlaced == PlacedSpec => []PlacesTheTake
<1>1. PInv => PlacesTheTake
  BY DEF PInv, ReadIsTrue
<1> QED
  BY <1>1, PlacedInvariant, PTL

\* The command for the latest take reads the latest recording of the bridge's
\* folder, unless an exception or a crash cut its handling short or it got the
\* name of an older one (extension.ts:56-61, recorder.py:179-198).
THEOREM LatestRead == PlacedSpec => LatestTakeRead
<1>1. IInv /\ Named /\ Current /\ PInv /\ [PlacedNext]_allVars =>
        [ReadsLatest /\ fpc = "idle" /\ ~raised[folder] /\ dir = folder =>
            Head(todo').name \in {latest[folder]} \cup reused[folder]]_allVars
  <2> SUFFICES ASSUME IInv, Current, PInv, PlacedNext, ReadsLatest,
                      fpc = "idle", ~raised[folder]
               PROVE  Head(todo').name \in {latest[folder]} \cup reused[folder]
    OBVIOUS
  <2>1. ReadLatestTake
    BY DEF PlacedNext, placementVars, command, chosen, ReadsLatest, PlacementStep,
           ResolveSidecarPath, ReadTakeHistory, ReadFails, CheckDuration, DurationTooShort, UseCachedMp4, Remux,
           RemuxFails, ImportIntoProject, CreateAudioClip, Finish, Abort, At, End
  <2>2. Head(todo') = lastTake[folder] /\ lastTake[folder] \in Entry /\ folder \in Dirs
    BY <2>1, LatestIsRead
  <2>3. lastTake[folder].name # None
    BY <2>2, NoneIsNoTake DEF Entry, Name
  <2> QED
    BY <2>2, <2>3 DEF Current
<1> QED
  BY <1>1, PlacedInvariant, PTL DEF PlacedSpec, LatestTakeRead
=============================================================================
