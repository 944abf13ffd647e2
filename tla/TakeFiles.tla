----------------------------- MODULE TakeFiles -----------------------------
(***************************************************************************)
(* From a finished OBS recording to a published take: the second half of    *)
(* Recorder._on_stop and bridge/take_sidecar.py.  The worker moves the file *)
(* out of the staging folder, drops last_take.json, appends to              *)
(* take_history.json, writes last_take.json and publishes the pointer file  *)
(* through which the Live extension finds both.  Every step may fail, and   *)
(* the process may die between any two; the next run of the bridge may      *)
(* publish into another project folder.                                     *)
(*                                                                          *)
(* _write_json_atomic writes a temporary file and renames it, so each JSON  *)
(* file changes in one step or not at all.                                  *)
(***************************************************************************)
EXTENDS Naturals, Sequences, FiniteSets, SequencesExt

CONSTANTS
    MaxTakes,       \* bound: takes recorded in a behaviour
    Dirs,           \* project folders
    FileFaults      \* what may go wrong, a subset of FileFaultKinds

FileFaultKinds ==
    { "giveUp", "noFile", "leftover", "empty", "stat", "move", "vanish",
      "unlink", "history", "lastTake", "pointer", "sameSecond", "crash" }

ASSUME TakeFilesAssumption ==
    /\ MaxTakes \in Nat
    /\ FileFaults \subseteq FileFaultKinds

Take == 1..MaxTakes             \* a recording, numbered as OBS makes them
None == 0

\* build_filename: track label and start time to the second.  A take's name has
\* its number, unless it starts in the same second as an older take of the track
\* and gets that one's.
Name == Take

Entry == [take : Take, name : Name]
NoEntry == [take |-> None, name |-> None]

VARIABLES
    dir,        \* _output_dir of the running bridge
    take,       \* the recording last made
    staging,    \* finished recordings in the staging folder
    videos,     \* what each file name of each folder holds
    history,    \* takes of take_history.json
    lastTake,   \* last_take.json
    pointer,    \* the folder sidecar_path.json points into
    fpc,        \* where _on_stop is
    file,       \* staged: the recording it takes for the one just stopped
    name,       \* the name it is published under
    latest,     \* auxiliary: the last recording made for each folder
    raised,     \* auxiliary: did an exception or a crash end its handling?
    reused      \* auxiliary: names under which a video replaced another

vars == <<dir, take, staging, videos, history, lastTake, pointer, fpc, file, name,
          latest, raised, reused>>
published == <<videos, history, lastTake, pointer, reused>>
context == <<dir, take, latest, raised>>

TypeOK ==
    /\ dir \in Dirs
    /\ take \in 0..MaxTakes
    /\ staging \subseteq Take
    /\ videos \in [Dirs -> [Name -> Take \cup {None}]]
    /\ history \in [Dirs -> Seq(Entry)]
    /\ lastTake \in [Dirs -> Entry \cup {NoEntry}]
    /\ pointer \in Dirs \cup {None}
    /\ fpc \in { "idle", "held", "check", "move", "lost",
                 "unlink", "history", "lastTake", "pointer" }
    /\ file \in Take \cup {None}
    /\ name \in Name \cup {None}
    /\ latest \in [Dirs -> 0..MaxTakes]
    /\ raised \in [Dirs -> BOOLEAN]
    /\ reused \in [Dirs -> SUBSET Name]

Init ==
    /\ dir \in Dirs
    /\ take = 0
    /\ staging = {}
    /\ videos = [d \in Dirs |-> [n \in Name |-> None]]
    /\ history = [d \in Dirs |-> <<>>]
    /\ lastTake = [d \in Dirs |-> NoEntry]
    /\ pointer = None
    /\ fpc = "idle"
    /\ file = None
    /\ name = None
    /\ latest = [d \in Dirs |-> 0]
    /\ raised = [d \in Dirs |-> FALSE]
    /\ reused = [d \in Dirs |-> {}]

May(fault) == fault \in FileFaults

\* The worker is done with the take, published or not.
Return == fpc' = "idle" /\ file' = None /\ name' = None

Go(from, to) == fpc = from /\ fpc' = to /\ UNCHANGED <<file, name>>

\* An exception in _on_stop: "Failed to finalize recording".
Fail(fault, from) ==
    /\ May(fault)
    /\ fpc = from
    /\ Return
    /\ raised' = [raised EXCEPT ![dir] = TRUE]
    /\ UNCHANGED <<dir, take, latest, staging, published>>

-----------------------------------------------------------------------------
\* A STOPPED reaches the recorder: OBS has made one more recording - or still
\* makes the one it was not stopped in when the recorder gave up ("held").
Recorded ==
    /\ \/ fpc = "idle" /\ take < MaxTakes /\ take' = take + 1
       \/ fpc = "held" /\ take' = take
    /\ latest' = [latest EXCEPT ![dir] = take']
    /\ raised' = [raised EXCEPT ![dir] = FALSE]
    /\ UNCHANGED <<dir, published, name>>

\* stop_record returns: the path OBS reported, the newest stable file of the
\* staging folder, or nothing.
StopObs ==
    /\ Recorded
    /\ \/ staging' = staging \cup {take'} /\ file' = take'
       \/ /\ May("noFile")      \* not finished in 10 s, or nowhere to be found
          /\ staging' \in {staging, staging \cup {take'}}
          /\ file' = None
       \/ /\ May("leftover")    \* OBS wrote elsewhere: the newest is an older one
          /\ \E f \in staging : (\A g \in staging : g <= f) /\ file' = f
          /\ staging' = staging
    /\ fpc' = "check"

\* _stop_obs_with_retries gave up, and _on_stop returns at once: OBS may still
\* record, or have stopped unseen.  The next STOPPED tries again.
StopGivesUp ==
    /\ May("giveUp")
    /\ Recorded
    /\ staging' \in {staging, staging \cup {take'}}
    /\ fpc' = "held"
    /\ UNCHANGED file

DropLastTake == lastTake' = [lastTake EXCEPT ![dir] = NoEntry]

\* Mutant of RejectTake: last_take.json is left as it was.
RejectTakeSilently ==
    /\ fpc = "check"
    /\ file = None \/ May("empty")
    /\ Return
    /\ UNCHANGED <<context, staging, published>>

\* No file, one that is empty now (OBS may fill it later), or none where it was
\* moved to: last_take.json must not name the take before.
RejectTake ==
    /\ \/ fpc = "lost"
       \/ fpc = "check" /\ (file = None \/ May("empty"))
    /\ DropLastTake
    /\ Return
    /\ UNCHANGED <<context, staging, videos, history, pointer, reused>>

AcceptTake ==
    /\ file # None
    /\ Go("check", "move")
    /\ UNCHANGED <<context, staging, published>>

\* The name the take gets: its own, or that of an older video.
NameOf(n) == n = take \/ (May("sameSecond") /\ videos[dir][n] # None)

\* The video is in the folder under n, in the place of any other of that name.
PutVideo(n) ==
    /\ videos' = [videos EXCEPT ![dir][n] = file]
    /\ reused' = [reused EXCEPT ![dir] = IF videos[dir][n] = None THEN @ ELSE @ \cup {n}]
    /\ name' = n

\* Mutant of MoveVideo: the video is copied.
CopyVideo(n) ==
    /\ fpc = "move"
    /\ NameOf(n)
    /\ PutVideo(n)
    /\ fpc' = "unlink"
    /\ UNCHANGED <<context, staging, history, lastTake, pointer, file>>

\* shutil.move: an existing file of that name is replaced.
MoveVideo(n) ==
    /\ fpc = "move"
    /\ NameOf(n)
    /\ PutVideo(n)
    /\ staging' = staging \ {file}
    /\ fpc' = "unlink"
    /\ UNCHANGED <<context, history, lastTake, pointer, file>>

\* Mutant of MoveLosesVideo: nobody looks whether the video is there.
LostVideoPublished ==
    /\ May("vanish")
    /\ fpc = "move"
    /\ staging' = staging \ {file}
    /\ name' = take
    /\ fpc' = "unlink"
    /\ UNCHANGED <<context, published, file>>

\* shutil.move returned and there is no such file: a folder has that name, or
\* somebody has already taken the file away.
MoveLosesVideo ==
    /\ May("vanish")
    /\ Go("move", "lost")
    /\ staging' = staging \ {file}
    /\ UNCHANGED <<context, published>>

\* Mutants of UnlinkLastTake: it is skipped; the pointer is published first.
KeepLastTake ==
    /\ Go("unlink", "history")
    /\ UNCHANGED <<context, staging, published>>

PointFirst ==
    /\ Go("unlink", "history")
    /\ DropLastTake
    /\ pointer' = dir
    /\ UNCHANGED <<context, staging, videos, history, reused>>

UnlinkLastTake ==
    /\ Go("unlink", "history")
    /\ DropLastTake
    /\ UNCHANGED <<context, staging, videos, history, pointer, reused>>

ThisEntry == [take |-> file, name |-> name]

AppendTakeHistory ==
    /\ Go("history", "lastTake")
    /\ history' = [history EXCEPT ![dir] = Append(@, ThisEntry)]
    /\ UNCHANGED <<context, staging, videos, lastTake, pointer, reused>>

WriteLastTake ==
    /\ Go("lastTake", "pointer")
    /\ lastTake' = [lastTake EXCEPT ![dir] = ThisEntry]
    /\ UNCHANGED <<context, staging, videos, history, pointer, reused>>

\* Mutant of PublishSidecarPointer: it holds the file's name.
PublishName ==
    /\ fpc = "pointer"
    /\ pointer' = name
    /\ Return
    /\ UNCHANGED <<context, staging, videos, history, lastTake, reused>>

PublishSidecarPointer ==
    /\ fpc = "pointer"
    /\ pointer' = dir
    /\ Return
    /\ UNCHANGED <<context, staging, videos, history, lastTake, reused>>

\* OSError of stat, move, unlink or a write; ValueError of _read_history.
FinalizeFails ==
    \/ Fail("stat", "check") \/ Fail("move", "move")
    \/ Fail("unlink", "unlink") \/ Fail("unlink", "lost")
    \/ Fail("history", "history") \/ Fail("lastTake", "lastTake")
    \/ Fail("pointer", "pointer")

\* The bridge dies and is started again, maybe for another project.  If it dies
\* while OBS records, the next run stops the orphan, whose file stays in staging.
CrashAndRestart ==
    /\ May("crash")
    /\ \/ /\ fpc # "held"
          /\ raised' = [raised EXCEPT ![dir] = @ \/ fpc # "idle"]
          /\ UNCHANGED <<take, latest, staging>>
       \/ /\ \/ fpc = "idle" /\ take < MaxTakes /\ take' = take + 1
             \/ fpc = "held" /\ take' = take
          /\ raised' = [raised EXCEPT ![dir] = TRUE]
          /\ latest' = [latest EXCEPT ![dir] = take']
          /\ staging' = staging \cup {take'}
    /\ dir' \in Dirs
    /\ Return
    /\ UNCHANGED published

Next ==
    \/ StopObs \/ StopGivesUp
    \/ RejectTake \/ AcceptTake
    \/ \E n \in Name : MoveVideo(n)
    \/ MoveLosesVideo
    \/ UnlinkLastTake \/ AppendTakeHistory \/ WriteLastTake \/ PublishSidecarPointer
    \/ FinalizeFails
    \/ CrashAndRestart

Spec == Init /\ [][Next]_vars

-----------------------------------------------------------------------------
\* At every moment, crashed or not, last_take.json is absent or names the last
\* entry of the history beside it (take_sidecar.py:43, and the unlink before it
\* in recorder.py:197): the extension may read either at any time.
LastTakeIsLastInHistory ==
    \A d \in Dirs : lastTake[d] # NoEntry =>
        history[d] # <<>> /\ lastTake[d] = Last(history[d])

\* Every entry of a history names a video that exists, and that holds its take
\* unless a later one of the same second has replaced it (recorder.py:192: the
\* video is moved before anything names it; naming.py:17).
HistoryNamesVideos ==
    \A d \in Dirs : \A i \in 1..Len(history[d]) :
        LET entry == history[d][i]
        IN  /\ videos[d][entry.name] # None
            /\ entry.name \notin reused[d] => videos[d][entry.name] = entry.take

\* No take is published twice, though stop_record may fall back on whatever
\* file is the newest in staging (obs_client.py:176).
PublishedOnce ==
    \A d, e \in Dirs : \A i \in 1..Len(history[d]), j \in 1..Len(history[e]) :
        history[d][i].take = history[e][j].take => d = e /\ i = j

\* The pointer never leads the extension to a folder without a history.
PointerHasHistory == pointer # None => history[pointer] # <<>>

\* When _on_stop is done (recorder.py:179-198), last_take.json is not older
\* than the last recording - by its name, as the video may be a leftover - unless
\* an exception or a crash cut that recording's handling short, or it got the
\* name of an older one.  (A recorder that gave up stopping OBS is not done.)
StaleOnlyAfterException ==
    fpc = "idle" /\ ~raised[dir] =>
        lastTake[dir].name \in {None, latest[dir]} \cup reused[dir]
=============================================================================
