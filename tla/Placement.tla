----------------------------- MODULE Placement -----------------------------
(***************************************************************************)
(* The Live extension (extensions/ableton-camera-video/src) beside the      *)
(* bridge: a command reads the pointer, then last_take.json or              *)
(* take_history.json, and places the takes it read one by one, while the    *)
(* bridge goes on publishing (module TakeFiles).  Nothing keeps the two     *)
(* processes apart.                                                         *)
(*                                                                          *)
(* OBS records .mkv, so every video is remuxed into a cache beside the      *)
(* sidecars before Live imports it.  Left out: the clip a video is placed   *)
(* under, which is the user's choice, the position, the camera track.       *)
(***************************************************************************)
EXTENDS TakeFiles

CONSTANT
    PlacementFaults     \* what may go wrong, a subset of PlacementFaultKinds

PlacementFaultKinds == {"abort", "duration", "remux"}

ASSUME PlacementAssumption == PlacementFaults \subseteq PlacementFaultKinds

Mode == {"latest", "all"}
Partial == MaxTakes + 1         \* an mp4 that ffmpeg did not finish
Media == Take \cup {None, Partial}

VARIABLES
    xpc,            \* where the command is
    mode,           \* which command
    folder,         \* of sidecarPath
    asked,          \* auxiliary: did the user choose it in the path dialog?
    todo,           \* takes still to be placed
    media,          \* what mediaPath holds
    cache,          \* .ableton-camera-cache of each folder: the mp4 of each name
    remuxFailed     \* auxiliary: has ffmpeg failed?

chosen == <<mode, folder, asked>>
command == <<xpc, chosen, todo, media>>
placementVars == <<command, cache, remuxFailed>>
allVars == <<vars, placementVars>>

PlacementTypeOK ==
    /\ TypeOK
    /\ xpc \in {"idle", "resolved", "next", "remux", "import", "clip"}
    /\ mode \in Mode
    /\ folder \in Dirs \cup {None}
    /\ asked \in BOOLEAN
    /\ todo \in Seq(Entry)
    /\ media \in Media
    /\ cache \in [Dirs -> [Name -> Media]]
    /\ remuxFailed \in BOOLEAN

PlacementInit ==
    /\ xpc = "idle"
    /\ mode = "all"
    /\ folder = None
    /\ asked = FALSE
    /\ todo = <<>>
    /\ media = None
    /\ cache = [d \in Dirs |-> [n \in Name |-> None]]
    /\ remuxFailed = FALSE

Can(fault) == fault \in PlacementFaults

At(from, to) == xpc = from /\ xpc' = to

\* The command ends: done, canceled, or with an error dialog.
End ==
    /\ xpc' = "idle" /\ mode' = "all" /\ folder' = None /\ asked' = FALSE
    /\ todo' = <<>> /\ media' = None
    /\ UNCHANGED <<cache, remuxFailed>>

-----------------------------------------------------------------------------
\* resolveAutomaticSidecarPath; the path dialog when there is no pointer.
ResolveSidecarPath(m) ==
    /\ At("idle", "resolved")
    /\ mode' = m
    /\ IF pointer # None THEN folder' = pointer ELSE folder' \in Dirs
    /\ asked' = (pointer = None)
    /\ UNCHANGED <<todo, media, cache, remuxFailed>>

\* validateTake: the video is there (an empty one is never published).
Valid(entries) == \A i \in 1..Len(entries) : videos[folder][entries[i].name] # None

\* selectTakeClipPairs: recorded_start decides, and names are numbered by it.
Chronological(entries) ==
    {order \in Bijection(1..Len(entries), 1..Len(entries)) :
        \A i, j \in 1..Len(entries) :
            i < j => entries[order[i]].name <= entries[order[j]].name}

\* readTakes and selectTakeClipPairs; as many clips are selected.
ReadTakes(entries) ==
    /\ At("resolved", "next")
    /\ Valid(entries)
    /\ \E order \in Chronological(entries) :
        todo' = [i \in 1..Len(entries) |-> entries[order[i]]]
    /\ UNCHANGED <<chosen, media, cache, remuxFailed>>

LatestReadable == lastTake[folder] # NoEntry /\ Valid(<<lastTake[folder]>>)

\* Mutant of ReadLatestTake: when last_take.json is gone, the end of the history.
ReadLatestOfHistory ==
    /\ mode = "latest"
    /\ history[folder] # <<>>
    /\ ReadTakes(<<Last(history[folder])>>)

ReadLatestTake == mode = "latest" /\ LatestReadable /\ ReadTakes(<<lastTake[folder]>>)
ReadTakeHistory == mode = "all" /\ ReadTakes(history[folder])

\* No such file, no such video; or another number of clips is selected.
ReadFails ==
    /\ xpc = "resolved"
    /\ mode = "latest" => ~LatestReadable
    /\ End

ThisTake == Head(todo)

\* validateVideoDurationForClip lets the video pass.
CheckDuration ==
    /\ todo # <<>>
    /\ At("next", "remux")
    /\ UNCHANGED <<chosen, todo, media, cache, remuxFailed>>

\* It is shorter than the clip, or cannot be read.
DurationTooShort ==
    /\ Can("duration")
    /\ xpc = "next" /\ todo # <<>>
    /\ End

Cached == cache[folder][ThisTake.name]
Video == videos[folder][ThisTake.name]

\* ensureImportableMedia, isFresh: an mp4 that is not older than the video.  A
\* video is never newer than the mp4 made of it, but one that replaced another
\* may be newer or older than what was made of that.
MustRemux == Cached = None \/ ThisTake.name \in reused[folder]

UseCachedMp4 ==
    /\ At("remux", "import")
    /\ Cached # None
    /\ media' = Cached
    /\ UNCHANGED <<chosen, todo, cache, remuxFailed>>

\* Mutant of Remux: one mp4 for the folder.
RemuxToOneName ==
    /\ At("remux", "import")
    /\ MustRemux
    /\ media' = Video
    /\ cache' = [cache EXCEPT ![folder] = [n \in Name |-> Video]]
    /\ UNCHANGED <<chosen, todo, remuxFailed>>

Remux ==
    /\ At("remux", "import")
    /\ MustRemux
    /\ media' = Video
    /\ cache' = [cache EXCEPT ![folder][ThisTake.name] = Video]
    /\ UNCHANGED <<chosen, todo, remuxFailed>>

\* ffmpeg exits with an error and leaves what it has written, if anything.
RemuxFails ==
    /\ Can("remux")
    /\ xpc = "remux"
    /\ MustRemux
    /\ cache' \in {cache, [cache EXCEPT ![folder][ThisTake.name] = Partial]}
    /\ remuxFailed' = TRUE
    /\ xpc' = "idle" /\ mode' = "all" /\ folder' = None /\ asked' = FALSE
    /\ todo' = <<>> /\ media' = None

ImportIntoProject ==
    /\ At("import", "clip")
    /\ UNCHANGED <<chosen, todo, media, cache, remuxFailed>>

\* The camera track is found or made, and the clip created on it.
CreateAudioClip ==
    /\ At("clip", "next")
    /\ todo' = Tail(todo)
    /\ media' = None
    /\ UNCHANGED <<chosen, cache, remuxFailed>>

Finish == xpc = "next" /\ todo = <<>> /\ End

\* signal.throwIfAborted, which every step but the remux begins with.
Abort ==
    /\ Can("abort")
    /\ xpc \notin {"idle", "remux"}
    /\ End

PlacementStep ==
    \/ \E m \in Mode : ResolveSidecarPath(m)
    \/ ReadLatestTake \/ ReadTakeHistory \/ ReadFails
    \/ CheckDuration \/ DurationTooShort
    \/ UseCachedMp4 \/ Remux \/ RemuxFails
    \/ ImportIntoProject \/ CreateAudioClip
    \/ Finish \/ Abort

PlacedInit == Init /\ PlacementInit

PlacedNext ==
    \/ Next /\ UNCHANGED placementVars
    \/ PlacementStep /\ UNCHANGED vars

PlacedSpec == PlacedInit /\ [][PlacedNext]_allVars

DirSymmetry == Permutations(Dirs)

-----------------------------------------------------------------------------
\* What Live gets for a take is that take's own recording, whatever the bridge
\* has published since the command read the history - unless a take of the same
\* second replaced it, or, after ffmpeg once failed, the rest that it left in the
\* cache (extension.ts:299-325, naming.py:17).
PlacesTheTake ==
    xpc \in {"import", "clip"} =>
        \/ media = ThisTake.take
        \/ ThisTake.name \in reused[folder]
        \/ remuxFailed /\ media = Partial

\* The command reads the latest take only when there is one to read.
ReadsLatest == mode = "latest" /\ xpc = "resolved" /\ xpc' = "next"

\* "Place Camera Video Below" takes the latest recording of the folder, if no
\* take is being stopped or finalized, the last one's handling was not cut short by
\* an exception or a crash, no take of its second had the name before, and the bridge
\* works in the folder the command reads (extension.ts:56-61 reads what
\* recorder.py:179-198 keeps up to date).
LatestTakeRead ==
    [][ReadsLatest /\ fpc = "idle" /\ ~raised[folder] /\ dir = folder =>
            Head(todo').name \in {latest[folder]} \cup reused[folder]]_allVars

\* VIDEO_PLACEMENT.md:84, "A failed latest recording clears stale last_take.json
\* metadata so the command cannot silently place the previous take by mistake":
\* with no take being stopped or finalized, and none whose handling was cut short, a
\* command that follows the pointer reads the last recording or nothing.
NeverThePreviousTake ==
    [][ReadsLatest /\ ~asked /\ fpc = "idle" /\ (\A d \in Dirs : ~raised[d]) =>
            Head(todo').name = take]_allVars
=============================================================================
