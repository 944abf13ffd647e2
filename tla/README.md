# A verification of the ableton-camera bridge

ableton-camera films what a musician records in Ableton Live. A Python process,
the *bridge*, listens to Live over OSC and starts and stops OBS Studio over a
WebSocket; each finished video is renamed, moved to the project's folder and
described in JSON files, which a Live extension reads to place the video on the
timeline. This directory holds TLA+ modules of the bridge, the TLC
configurations that check them, and TLAPS proofs. `src/...` paths are those of
the repository; line numbers in comments are of the files named there.

## 1. Inventory

| Component | Source | State | Operations | Module |
|---|---|---|---|---|
| recording state machine | `bridge/recording_state.py` | `was_start_active`, `was_stop_active` | `apply`, `sync_initial` | `RecordingState`, `Listener` |
| OSC listener | `bridge/osc_client.py` | three signals of Live, count-in flags, callback queue, reply slots | OSC handlers, clip poll loop, boot sync, `_stop_obs_if_idle`, `_start_obs_if_session_recording`, queries | `Shared`, `Listener`, `ClipScan`, `TrackQuery` |
| recorder | `bridge/recorder.py` | `_is_recording`, `_pending_obs_start`, `_started_at`, track label and its generation | `on_edge`, `on_count_in_finished`, stop with retries, finalize, the resolver threads of the label | `Recorder`, `ObsStop`, `TakeFiles`, `TrackLabel` |
| OBS client | `bridge/obs_client.py` | the connection | `start_record`, `stop_record`, `stop_orphan_recording`, search of the staging folder | `Recorder`, `ObsStop`, `TakeFiles` |
| take publication | `bridge/take_sidecar.py`, `bridge/naming.py` | videos, `take_history.json`, `last_take.json`, `sidecar_path.json` | move, append, write, publish | `TakeFiles` |
| bridge process | `bridge/__main__.py` | - | boot, orphan check, shutdown | `Bridge`, `DelayedSwitch` |
| clip scan, OSC queries | `bridge/clip_recording.py`, `osc_clip_probe.py`, `osc_query.py` | slots seen last, reply slots, events | scan, fetch | `ClipScan`, `TrackQuery` |
| track label | `bridge/metadata.py` | tracks and names found so far | `resolve_track_label` | `TrackQuery` |
| Live extension | `extensions/ableton-camera-video/src/*.ts` | sidecars it has read, the cache of remuxed videos | place last, place all | `Placement` |
| configuration, prompts, scripts, menus, build | `bridge/config.py`, `prompts.py`, `scripts/`, ... | - | input and packaging | not modelled |

### How they interact

    Live --OSC--> osc thread --+
                               |  RecordingStateMachine   callback    worker
    Live <-query- poll thread -+  (no lock) ------------> queue ----> Recorder --> OBS
                               |                                        |
         main thread (boot) ---+  <--- is_recording, read at any time --+
                                                                        |
                         extension <--- JSON files <--- TakeFiles <-----+
                                                                        |
    Live <-query- resolver threads, one per take ---> track label ------+

* The **osc thread** handles one message at a time: it stores Live's value in an
  attribute, then runs `_dispatch_edges`.
* The **poll thread** asks Live every 0.15 s whether any clip records. It too
  runs `_dispatch_edges`, and two shortcuts around the state machine: a clip that
  begins while session record is on starts a take; when a clip ends with Live
  idle and OBS rolling, a stop is forced.
* The **main thread** stops an orphaned OBS recording, starts the server and the
  poll thread, and then runs `sync_initial` beside both of them.
* The **worker** takes callbacks from the queue in order. Its handlers take long:
  OBS requests, retries, up to ten seconds for the file to become stable.
* A **resolver thread** per take asks Live for the track's name and writes it
  where the worker looks when it names the file. Older ones may still be alive.
* The **extension** is another process. Its commands read the pointer and a
  sidecar, then the videos, one after the other, without asking the bridge.
* The listener reads the recorder's `is_recording` without the queue; the recorder
  reads the listener's count-in flag, and the time of the last record_mode, likewise.

### What is hard, and what makes each part right

* *Lag.* The listener decides on `is_recording`, which is as old as the queue is
  long. Right is: when both have caught up, OBS does what Live does.
* *No locks.* Two threads run one state machine, each step of it a separate
  attribute access.
* *Count-in.* A session take starts when Live's count-in ends. The worker decides
  to wait, the osc thread reports the end: the report must not fall into the gap.
* *OBS answers late, wrongly or not at all.* The recorder must not give up a take
  OBS goes on recording, nor start one over another.
* *Replies without identity.* A fetch waits for an event that a late reply, or
  another message, may set. A scan may then miss a recording, but must neither
  invent one nor hang.
* *One event for all replies.* Whatever sets `_meta_event` ends the wait of the
  fetch that runs. A take must not get the name of a track it has nothing to do with.
* *Resolvers of older takes.* Nothing stops them; a generation number does, but it
  is compared first and the label written afterwards.
* *A crash in the middle of publishing.* The extension may read the files at any
  time; they must agree at every moment.
* *Start times.* A take that fails to start, or is canceled, must not leave its
  start time to the next one. One exception does leave it: `ms_since_record_mode_on`
  compares an attribute with None and then subtracts it, while the osc thread sets it
  to None.

`PROJECT.json` lists each hazard at its line with the properties about it.

## 2. The modules

**`RecordingState`** - the signals and the predicates `StartActive` (record is
engaged) and `StopActive` (audio is being written). They differ: STARTED is an
edge of the first, STOPPED of the second.

**`Shared`** - what crosses threads: the queue, `isRecording`, the count-in flags, and whether
`_record_mode_on_at` is set (`recordModeOn`). A queued callback keeps what its handler reads of the
captured signals: for STARTED whether arrangement record was on, for count-in-finished whether
record was still engaged.

**`Listener`** - `OscListener`. Each thread has a program counter, `pc[t]`, and
its locals: `seen`, the snapshot that `apply(self.signals)` works on; `edges`,
found and not emitted yet; `after`, where `_dispatch_edges` returns to. An action
reads or writes at most one attribute another thread can write; this is the
granularity at which CPython may switch threads. `Snapshot ... EmitEdge` are one
run of `apply` and its emission; `CheckLiveIdle ... ForceStop` are
`_stop_obs_if_idle`; `CheckSessionOn ... StartTake` are
`_start_obs_if_session_recording`; `BootScan ... BootSetStop` are `start()`;
`OscRecordMode` and `StampRecordMode` are the two assignments of `_on_record_mode`. The
signals are read as one: the three attributes have two writers, of which a
snapshot can at most miss the later write, as it does when it comes before it.

**`Recorder`** - `Recorder` on the worker thread, with OBS. `_start_obs` calls
`ms_since_record_mode_on` before its `try`: when record mode was on at the comparison
(place `"lag"`), the subtraction works (`MeasureLag`) or raises, as the osc thread has
cleared the attribute since (`LagRaises`: no start, `_started_at` kept, the exception
caught by `_callback_loop` only). `obs` says what OBS does and what of it the bridge was
told: `"take"`, it records and has answered; `"unanswered"`, it records and the answer of
StartRecord was lost; `"orphan"`, what a bridge started that has died; `"ended"`, it has
stopped and the answer was lost; `"idle"`. Requests to OBS are steps with the outcomes of
`Faults`. An `"unanswered"` recording stays until the bridge is restarted: every STOPPED
is ignored, as the recorder holds nothing, and every StartRecord refused.

**`Bridge`** - composes both; boot and orphan check, crash and restart. A
shutdown is a crash here: `shutdown()` does not stop OBS and leaves the worker
after two seconds. `Pace` restricts Live for some runs: the next change comes at
any time, when the listener's threads have finished, or when the worker has, too.

**`Session`** - `Bridge` when session record is used and Live waits for the bridge
(`SlowSessions`), and the inductive invariant for it, `SessionInv`: definitions only,
which the run `session_slow_user` checks and `Bridge_proofs` proves.

**`ObsStop`**, **`StopOutcome`** - the step of `Recorder` that stops OBS, request
by request: five attempts of `stop_record` inside three of
`_stop_obs_with_retries`, any of them unanswered. `StopOutcome` is the abstract
specification, the three outcomes `Recorder` has; `ObsStop` implements it under
`busy <- pc # "done"`.

**`DelayedSwitch`** - the abstract specification of arrangement recording: a switch, what it was
switched to and not followed yet, and OBS, which follows in order and in the end; it may `Skip` a
switch-on that has been switched off again. `Bridge` implements it, when only arrangement record is
used, with `pending` read off the edge the worker is at, the queue, the edges the osc thread has not
emitted, and whether `apply` has yet to see the switch (`OnTheirWay`, `Unseen`). Its `Spec` is
`Safety` with the fairness of `Follow`: the properties `ImplementsSwitch` and `CopiesSwitch`, of
which the second is proved.

**`TakeFiles`** - from the stopped recording to the published take: move the
video, drop `last_take.json`, append to the history, write `last_take.json`,
publish the pointer. Takes are numbered; a file name stands for label and start
second: a take has its own, or, with `"sameSecond"`, that of an older video, which it
replaces. A recorder that gave up stopping OBS is `"held"` until the next STOPPED; a video
that is not where it was moved to leaves the handler `"lost"` before it drops
`last_take.json` and returns. Any step may raise and the process may die between any two;
the next run may use another folder. Files are replaced by rename in the code, so they
change in one step. `latest`, `raised` and `reused` (the names used again) are auxiliary.
Of these only `Placement` reads one, `reused`, for what file times say of such names.

**`ClipScan`** - what is one step of `Listener`: `any_clip_recording` with each
fetch it makes (`Ask`, then `Wake` or `Timeout`), the two slots of
`_slots_to_check`, the memory of the slot that recorded last. Requests and
answers are queues, as UDP on one host keeps their order; a fault loses the
newest of them, or lets a fetch give up before its answer comes. Live may change
between any two steps. A reply slot is empty when its fetch begins, so only the
one of the running fetch is kept. `sounded`, `steady` and `disturbed` are
auxiliary. `ClipScan` is not composed with `Listener`, which allows any result at
any time and therefore all of `ClipScan`'s.

**`TrackLabel`** - the label between the worker and the resolver threads. The worker
is `Recorder` reduced to what touches the label: `phase` is what its flags say,
`wpc` where it is. `resolver[g]` is the thread of generation `g`: it finds a name
(or none), compares generations (`CheckGeneration`), writes (`SetLabel`), each a step
of its own. A label is the generation and the source that wrote it. A take uses two
generations, one when it begins and one when its context is cleared; `ClearTakeContext`
and `DropLabel`, and `BeginResolution` and `StartResolver`, are two steps each because
the code assigns twice. `found`, `overtaken` and `file` are auxiliary.

**`TrackQuery`** - what `FindName` of `TrackLabel` abstracts: `resolve_track_label`
over the four fetches it makes, with Live arming and selecting tracks in between. Built
like `ClipScan`, but replies carry their track here, and one event serves them all:
`OnReply` ends the wait of any fetch, and stores for the running one only what it asked
for. `OnOtherMeta` is a notification of `record_mode` or `is_playing`.

**`Placement`** - the extension beside `TakeFiles`, their steps interleaved. A command
is resolved to a folder, reads `last_take.json` or the history, and then takes its
entries one by one: duration, cache or ffmpeg, import, clip. It may be aborted or fail
anywhere; what it has placed stays. `asked` (auxiliary) tells a folder chosen in the path
dialog from one the pointer led to. Media are identified by the take they hold, or
`Partial` for what a failed ffmpeg leaves behind.

**`Bridge_proofs`, `Arrangement_proofs`, `TakeFiles_proofs`, `Placement_proofs`,
`ObsStop_proofs`, `ClipScan_proofs`, `TrackLabel_proofs`, `TrackQuery_proofs`** - the
theorems.

## 3. The runs

| Run | Question | Answer |
|---|---|---|
| `session_threads` | osc thread, main and worker with count-in, all faults and crashes, no clips: can a deferred start be forgotten or hang, can the recorder be wrong about OBS, can a start time outlive its take? | the first no (`CountInHandover`, `DeferredStartResolves`); the second only by a lost answer, whose leavings it never takes for a take (`RecorderMatchesObs`); the third only by the exception in `ms_since_record_mode_on` (`StartTimeOfThisTake`); with `IInv`, the invariant of the proofs |
| `arrangement` | with arrangement record alone, does OBS follow? | yes: once settled (`SettledMatchesLive`), and it does settle (`ArrangementEventuallyFilmed`); every time the switch goes on becomes a take of its own, in order, but for one that is off again before OBS was asked (`CopiesSwitch`, and with the fairness of the threads `ImplementsSwitch`); none begins with an older start time (`FreshStartTime`) |
| `session_slow_user` | is every session clip filmed? | yes for a user who waits for the bridge: `RecordingClipFilmed`; nor is OBS left rolling for such a user: `IdleLiveStopsObs`; crashes included, with the invariant of the proofs, `SessionInv` |
| `placement` | do the published files agree at every moment, and does Live get the right ones? | yes; with two takes of one second the video of the first is replaced, and only names used so are affected (`HistoryNamesVideos`); a command that runs while the bridge publishes, fails or moves to another folder places each take's own recording, with the same exception (`PlacesTheTake`), and the latest one where the code can know it (`LatestTakeRead`) |
| `obs_stop` | does stopping end, and only in the ways `Recorder` knows? | yes: `ImplementsStop`, `ReleasedMeansStopped`, `StopHandlerEnds`; every step uses up a part of the attempts (`StepsRunOut`) |
| `clip_scan` | what may a scan answer when replies are lost, late or mistaken? | it may miss a recording, but only if a reply was disturbed (`ScanSeesRecording`); it invents none (`NoPhantomRecording`) and ends (`ScanEnds`) |
| `labels` | is a file named after its own take's track? | yes, but for a resolver overtaken between its comparison and its write (`OwnLabelUnlessOvertaken`, `LabelIsCurrent`); what was found in time is used (`FoundNameUsed`), and naming ends (`FinalizeEnds`) |
| `track_query` | what may a search for the track's name find? | with all replies in time what the documented rule says (`RuleFollowed`), otherwise perhaps nothing, but never a track that was neither armed, selected nor recording (`NoStrangeTrack`); it ends (`ResolutionEnds`) |
| `violation_latched` | "OBS starts when you engage arrangement record" (SYNC.md) | not when it is switched off and on again under session record: `start_active` never fell, so there is no STARTED |
| `violation_quick_toggle` | "Stop OBS when Live is no longer writing audio but we missed the STOP edge" (`osc_client.py`) | not when session record goes off before the worker has started OBS: `is_recording` is still false, and OBS starts afterwards |
| `violation_one_armed` | "If exactly one armed track -> use its name" (DESIGN.md) | not when another notification comes during one of the fetches, though every reply comes in time: each reply then ends the wait of the fetch after its own |
| `violation_stale_pointer` | "the command cannot silently place the previous take by mistake" (VIDEO_PLACEMENT.md) | it can after a change of project, as the pointer moves only with a published take: it leads to the old project until then |

Other values of the constants show more of what the passing runs leave out:

* `arrangement` with `ClipScans = {FALSE, TRUE}`, `MaxBacklog = 2`: the osc and the poll
  thread are in `apply` together; STARTED and STOPPED are queued in the wrong order or
  swallowed, `ArrangementFilmed` fails, and an arrangement recording is not filmed.
  With `Pace = "listener"` (the two threads do not overlap) `ArrangementFilmed` and
  `IdleLiveStopsObs` hold with clip tails, though the worker lags behind.
* `session_threads` with clip scans, without arrangement record and `BootRace`: all its
  invariants and `StartTimeOfThisTake` hold (1.6 million states). That they hold with
  everything together is what the theorems say.
* `arrangement` with `BootRace = TRUE`: a notification during the boot sync makes
  `sync_initial` overwrite newer flags with older ones; a STOPPED is lost, and
  `SettledMatchesLive` and `FreshStartTime` fail.
* `arrangement` with `Sessions = {0, 1}`, or with clip scans, `MaxBacklog = 2`:
  `FreshStartTime` fails. Arrangement record goes off while the worker computes the lag,
  the exception drops the start and leaves `_started_at`; the signals that follow give a
  STARTED without a STOPPED before it, and that take has the older start time in its
  sidecar and its file name.
* `arrangement` with `Faults = {"startLate"}`: OBS answers too late, the start counts as
  failed, and OBS rolls on with Live idle: `SettledMatchesLive` fails. TDD_PLAN.md:260
  expects to recover on the next edge.
* `session_slow_user` with `Pace = "listener"` and `MaxBacklog = 2`: a clip that
  begins while the take of the clip before is being stopped is not filmed
  (`osc_client.py:225` sees `is_recording` still set).
* `session_slow_user` with `Arrangements = {0, 1}`, all buttons together:
  `IdleLiveStopsObs` still holds, `RecordingClipFilmed` does not:
  arrangement and session record mixed may leave a clip unfilmed (the latched
  start again). DESIGN.md:248 asks for a stop only when both are off; the code
  stops when no audio is written.
* `clip_scan` without `~disturbed` in `ScanSeesRecording`: a `record_mode`
  notification that comes while the scan asks for the number of tracks makes it
  answer "no" while a clip records; SYNC.md:112 says that OBS keeps recording.
  The two safety properties also hold with two slots per track, and with
  `MaxLate = 2` for one track of two slots.
* `placement`, if one asks that no video be replaced: two takes of one track that start
  within the same second share a name (`"sameSecond"`), and `shutil.move` replaces the
  first's video. PLAN.md:124 expects "no overwrite".
* `placement`, if one asks that `last_take.json` be gone after every failed take, raised
  exceptions included: a move that raises leaves it naming the take before, which
  `StaleOnlyAfterException` excuses.
* `labels` without `overtaken`: an older take's resolver that has compared and not yet
  written names the next take's file.
* `placement` without `remuxFailed`: `isFresh` compares times only, so what an ffmpeg
  that failed half way left in the cache is imported by the next command.

### Bounds, and why they are enough

* `MaxBacklog`: new input arrives while fewer callbacks wait. What input has
  begun may still add to the queue, so that a bound of 1 has queues of several
  callbacks. In `arrangement` it is 3: STARTED and STOPPED alternate, so that a
  fourth adds no new order.
* `Sessions = {0, 1}`: the code only asks whether the status is 0. `session_slow_user`
  has `{0, 1, 2}` as well: one status after another without a 0 in between, which
  starts nothing.
  `Arrangements = {0, 1}`: the values Live sends.
* `session_threads` has `ClipScans = {FALSE}`: the poll thread has nothing to do there.
* A run that leaves one of Live's controls out (`{0}`, `{FALSE}`) asks about the
  others; the list above says what all of them together show.
* `MaxGeneration = 3`: a full take (two generations) and the next one up to its file, or
  three starts of which none is recorded yet, with the resolvers of all of them alive.
* `NumTracks = 3` in `track_query`: a first, a last and a middle turn of its loop, two
  armed tracks and one that is not.
* Two tracks of one slot, one reply still to come (`MaxLate`): a reply of one
  track can wake the fetch of the next, and one of a scan a fetch of the next scan.
* `MaxTakes = 3`, two folders: the last take, the one before, and a leftover; a command
  that has read two takes while the third is published.
* `StopRecordAttempts = 5`, `StopFinalizeAttempts = 3` are the code's own.

Deadlock is checked in the runs of `Bridge`, `ClipScan` and `TrackQuery`. `Placement`
stops after `MaxTakes` takes, `TrackLabel` after `MaxGeneration` generations, `ObsStop`
when the handler is done, so these runs say `CHECK_DEADLOCK FALSE`.

### Fairness

Weak fairness of each thread's own steps: every wait of these threads has a
timeout, the one lock held across a wait (`_query_lock`) is therefore released, and the
interpreter schedules runnable threads. Live, crashes and the choice of a fault are owed nothing:
`RecorderNext` is fair as a whole, so that OBS may refuse for ever. In
`DeferredStartResolves` Live is assumed to stop counting in again and again,
which Live, not the bridge, decides. `ScanEnds` and `ResolutionEnds` need only the
search's own steps; Live and the server thread may stop altogether. `FinalizeEnds` needs
the worker only, and only while it runs a callback: the resolvers it waits for may hang
for ever, since its `join` has a timeout. `ImplementsSwitch` includes the weak fairness
of `DelayedSwitch`'s `Follow`, which follows from that of the bridge's threads (OBS
refuses nothing in that run).

## 4. The proofs

For every value of the constants that the modules' named assumptions allow
(`ConstantsAssumption`, `PaceAssumption`, `TakeFilesAssumption`, `PlacementAssumption`,
`AttemptsAssumption`, `ClipScanAssumption`, `GenerationAssumption`,
`TrackQueryAssumption`) - any backlog, any faults, any number of takes, folders, tracks.
Those of `Session` and `Arrangement` say what they assume of Live besides.

**Bridge.** `TypeCorrect`; `NoForgottenStart`, `RecorderKnowsObs` and `StartTimeFresh` from `IInv`.
None of the three is inductive: `RecorderMatchesObs` needs to know that the worker asks OBS to start
only when it holds `isRecording` false, and what OBS does between its answer and the assignment
(`WorkerPlaces`); that the two drift apart by a fault only is `DriftNeedsFault`;
`StartTimeOfThisTake` goes through every step at which the worker lets a take go; the orphan check
needs that no worker step came before it (`OrphanCheckFirst`).

The proof of a step splits by thread: a listener step leaves the worker's variables alone and only
appends to the queue (`ListenerFrame`), which leaves only `CountInHandover` to show; a worker step
leaves the listener alone. The key of `CountInHandover` is that the worker reads `countingIn`
itself: when it reads TRUE, the osc thread's 1 -> 0 is still to come, and reaches the queue behind
everything the worker has taken from it. `counted` is part of the property because the flag is read
one step before the start is deferred.

**Session.** `ClipFilmed` and `IdleStopsObs`, under `SlowSessions`: arrangement record is
not used, Live waits for the bridge, no notification meets the boot sync, no fault but
crashes; for any values of the session status, clips and count-ins. Both say that
something holds when nothing is under way, so neither is inductive: what they need is
where a start or a stop is meanwhile. `SessionInv` says it: as long as record is engaged
and a clip records, OBS records or a start is coming (`StartNotLost`: pending for the
count-in, in the worker's hands, in the queue, an edge that the osc thread has not
emitted, or the check after a scan); as long as neither is, OBS is idle or a stop is
coming (`StopNotLost`). Since Live waits, everything found fits the signals of now
(`EverythingFits`): no start is coming that a stop should overtake, or the reverse. The
remaining parts are about the threads: only one is under way (`TakingTurns`), and
the flags of the state machine follow the signals (`ApplyFollows`). The assumption on
Live cannot be dropped or weakened to the listener's pace: `violation_quick_toggle` and
the clip that begins while the one before is being stopped (the list in section 3) are
the two ways in which a user who does not wait defeats the bridge.

**Arrangement.** `SwitchFollowed`: `SettledMatchesLive`, under `ArrangementOnly` (no session record,
no clip, no notification during the boot sync, no fault but crashes) and for any backlog, the
exception of `ms_since_record_mode_on` included. Under that assumption one thread is in `apply()`,
and its flags say which edge it found last (`FlagsFollow`, `EdgesFound`). The edges on their way
lead OBS from what it does to what the flags say (`Leads`: there is a sequence of states, one
between each two callbacks, which each callback turns as it should; the count-in's callback turns
nothing). What it leads from is `_started_at`, not OBS: a start that raised sets it and leaves OBS
idle, and then a STOPPED is on its way, because record mode went off (`StaleEnds`, with
`ModeStamped`: the attribute follows the switch). When none is on its way the two are equal, and at
rest the flags say what Live does. With session record or the poll thread the flags need not
alternate; that is what `violation_latched` shows.

`SwitchCopied`: under the same assumption the bridge implements `DelayedSwitch!Safety`. A
`record_mode` message that changes the switch is a `Flip`; the steps of `apply()` and of the queue
leave what is pending as it is (`Unnoticed`, `ListenerCopied`); OBS starting or stopping is a
`Follow` of the oldest edge, a start that raises a `Skip` of it, because the edges alternate
(`Leads`) and the worker holds back nothing but what `InWork` shows; a crash is a `Restart`.

`StartTimeOfItsTake`: no take begins with an older start time, since the edge before each STARTED is
a STOPPED, which clears it.

That a step on the queue does to the pending edges what it does to the queue are lemmas on
`EdgesAmong`, a recursive function on sequences (`EdgesAmongAppend`, `EdgesAmongTail`). They are
proved by induction on the length all the same: not with the library's induction theorems, which
take a predicate, but with the least element of a set (`NatSets`, from `WFMin` and the
well-foundedness of `<`), where the "predicate" is the set of the lengths for which the claim holds.

**TakeFiles.** `LastTakeConsistent` and `PointerUseful`. The invariant adds what
the handler knows at each place (`Progress`): `last_take.json` is gone from the
unlink until it is written, and by then the history ends with this take. This is
where the order of the calls at the end of `_on_stop` matters.
`NoTakeTwice` needs that an unpublished take is in no history and a take in hand is
unpublished (`Unpublished`), for which `shutil.move` taking the file out of staging is
essential, and that OBS which goes on recording still makes the same take (`"held"`).
`VideosNamed` rests on `Named`: the video of the take in hand is there before its entry is,
and a move that replaces a video adds its name to `reused` (`MoveReplaces`).
`StaleOnlyWhenRaised` rests on `Current`, which follows the last recording
through the handler until `last_take.json` is dropped or replaced.

**Placement.** `PlacedIsTakeFiles`: the two processes together are a behaviour of
`TakeFiles`, so that its invariants carry over. `OwnRecordingPlaced` adds `ReadIsTrue`:
what a command has read of a history names videos that hold these takes, and no later
step of the bridge disturbs that but by using a name again (`VideosStay`). `LatestRead` combines
`StaleOnlyAfterException` with the reading of one entry (`OneEntrySorted`).

**TrackLabel.** `OwnLabel`, `CurrentLabel`, `FoundName` from `IInv`: a thread about to
write is current or overtaken (`WriterIsCurrent`); as long as none is overtaken, the
place of the take's resolver determines the label (`LabelOfOwnResolver`).

**TrackQuery.** `NoTrackFromNowhere`: every answer on its way that says a track is armed
or selected is about one that was (`AnswersTrue`), and so are the locals of the
search (`LocalsTrue`), whatever was lost, late or taken for another reply.
`RuleIsFollowed`: while nothing disturbs the search and Live does not change, each fetch is
one request, then its answer, then a wake-up (`Conversation`), so that what is read is
what Live has, and the armed tracks below the current one are those found (`Found`).

**ObsStop.** `Released`, and `Refinement`: every step of the retry loops is a step
of `StopOutcome` or none. The invariant says that a file is looked for only when
OBS has stopped.

**ClipScan.** `NoPhantom`, from `Truthful`: a yes about `is_recording` is true when
Live says it, and afterwards exists only in an answer on its way or in the reply
slot of a fetch of the same kind. The scan before may have left such an answer;
therefore `sounded` is kept while replies are still to come.
`SeesRecording` rests on the same `Conversation` as above, but Live may change: only
answers about a track that is still `steady` must be what Live says. Such a track is
ahead of the scan, and its recording slot is among those to be asked about (`Ahead`).

**Ends.** What can be proved of `StopHandlerEnds`, `ScanEnds` and `ResolutionEnds` is their
safety half: a number of steps still possible, `StepsLeft`, which each step of the stop
handler, the scan or the resolution makes smaller and no step of Live, the wire or the
server thread makes larger (`StopUsesUpSteps`, `ScanUsesUpSteps`,
`ResolutionUsesUpSteps`). So no sequence of lost, late and wrong replies sends one of them
round its loop for ever, for any number of attempts, tracks and slots; and the number it
begins with is a bound: `6 StopRecordAttempts StopFinalizeAttempts` steps, `1 + 6 NumTracks`
and `4 + 2 NumTracks` fetches, each of which has its timeout. For the scan this needs that
`_slots_to_check` never returns more than two slots (`FewSlots`). The other half, that
the next step is taken, is fairness.

Only model-checked: the liveness properties `ArrangementEventuallyFilmed`,
`DeferredStartResolves`, `StopHandlerEnds`, `ScanEnds`, `FinalizeEnds` and
`ResolutionEnds`, and the fairness in `ImplementsSwitch`, since fairness and ENABLED are
out of the prover's reach. Every invariant and every action property that a run checks
is stated by a theorem. `ScanRunsOut` and `ResolutionRunsOut` are stated beside their
proofs, as no run is about them.

## 5. Not modelled

* The user's own use of OBS: nobody else starts or stops it.
* The content of OSC messages that cannot be parsed (the handlers ignore them),
  `is_playing` (logged only), and the log.
* Fetches of other threads between those of a scan. `_query_lock` keeps them
  apart; a late reply to one of them would disturb a scan as its own late replies do.
* That a WebSocket once broken stays so (`_connect` keeps the client): the models let
  requests fail in any order, all of them to the end included.
* What `_started_at` left by the exception at `recorder.py:149` does to the file name: the
  files of `TakeFiles` have the start second of their take, or one that is taken.
* How several track names are joined to one label, and how a label becomes a file name:
  a label is the set of its tracks, a file name is compared only.
* `recorded_start` compared as a string: names are numbered in the order the strings
  have, which is that of time unless the clock is set back or its offset changes.
* The extension's clip selection, positions, tempo and camera track, its overrides
  through environment variables, menu, dialogs and build.
* Configuration, prompts, and the scripts that install, patch and try AbletonOSC: input
  checked once before anything runs, without state or concurrency.

## 6. Plan

1. The theorems of section 4 for a faster user: with `Pace = "listener"` and no session
   record, that arrangement record with clip tails is filmed (first item of the list in
   section 3), for any backlog.
2. `TrackLabel` composed with `Recorder`, so that the count-in and the OBS faults
   decide `phase`, and its theorems carried over as those of `TakeFiles` are to
   `Placement`.
