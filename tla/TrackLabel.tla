----------------------------- MODULE TrackLabel -----------------------------
(***************************************************************************)
(* Which track name a take's file gets (bridge/recorder.py:244-303).  When  *)
(* record is engaged the worker starts a thread that asks Live for the name *)
(* and writes Recorder._track_label; when the take ends, the worker names   *)
(* the file after what it finds there, after a bounded wait.  Nothing stops *)
(* the threads of earlier takes, so several may be alive at once: each      *)
(* compares its generation with Recorder._track_label_generation and then   *)
(* writes, without a lock around the two.                                   *)
(*                                                                          *)
(* The worker's side is module Recorder reduced to what touches the label.  *)
(* What a resolver finds in Live is left open here; module TrackQuery says  *)
(* how it asks.                                                             *)
(***************************************************************************)
EXTENDS Naturals

CONSTANT
    MaxGeneration   \* bound: generations in a behaviour; a take uses two

ASSUME GenerationAssumption == MaxGeneration \in Nat

Generation == 1..MaxGeneration

\* Where a label comes from, worst to best; "fallback" is UNKNOWN_TRACK_LABEL.
Source == {"fallback", "selected", "metadata"}

\* A value of _track_label, by the resolver that wrote it.
Label == [gen : Generation, source : Source]
NoLabel == [gen |-> 0, source |-> "none"]

\* A thread is at a step for a source: it looks for a name, has one and
\* compares generations, or has compared and writes.
Step == {"find", "check", "set"}
Unborn == [step |-> "unborn", source |-> "none"]
Finished == [step |-> "finished", source |-> "none"]
Place == [step : Step, source : Source] \cup {Unborn, Finished}

VARIABLES
    wpc,            \* where the worker is
    phase,          \* "pending": _pending_obs_start; "recording": _is_recording
    generation,     \* _track_label_generation
    label,          \* _track_label
    thread,         \* _track_label_thread, by its generation; 0 is None
    resolver,       \* where the resolver thread of each generation is
    found,          \* auxiliary: the best source each resolver got a name from
    overtaken,      \* auxiliary: resolvers that had compared, not yet written,
                    \*   when the generation moved on
    file            \* auxiliary: the last file named, of which take and how

vars == <<wpc, phase, generation, label, thread, resolver, found, overtaken, file>>
resolverVars == <<resolver, found>>
fileVars == <<overtaken, file>>

WorkerPlace ==
    {"rest", "begun", "probe", "start", "look", "join", "name", "clear", "drop"}

TypeOK ==
    /\ wpc \in WorkerPlace
    /\ phase \in {"none", "pending", "recording"}
    /\ generation \in 0..MaxGeneration
    /\ label \in Label \cup {NoLabel}
    /\ thread \in 0..MaxGeneration
    /\ resolver \in [Generation -> Place]
    /\ found \in [Generation -> Source]
    /\ overtaken \subseteq Generation
    /\ file \in [take : 0..MaxGeneration, label : Label \cup {NoLabel}]

Init ==
    /\ wpc = "rest"
    /\ phase = "none"
    /\ generation = 0
    /\ label = NoLabel
    /\ thread = 0
    /\ resolver = [g \in Generation |-> Unborn]
    /\ found = [g \in Generation |-> "fallback"]
    /\ overtaken = {}
    /\ file = [take |-> 0, label |-> NoLabel]

Goto(from, to) == wpc = from /\ wpc' = to

Writing == {g \in Generation : resolver[g].step = "set"}

\* self._track_label_generation += 1
Advance ==
    /\ generation < MaxGeneration
    /\ generation' = generation + 1
    /\ overtaken' = overtaken \cup Writing

-----------------------------------------------------------------------------
(* The worker                                                               *)

\* _on_live_start, unless OBS is recording; maybe once more while a start is
\* pending.  Arrangement record prefers the selected track's name.
BeginResolution ==
    /\ phase # "recording"
    /\ Goto("rest", "begun")
    /\ Advance
    /\ UNCHANGED <<phase, label, thread, resolverVars, file>>

StartResolver(preferSelected) ==
    /\ Goto("begun", IF preferSelected THEN "start" ELSE "probe")
    /\ label' = NoLabel
    /\ thread' = generation
    /\ resolver' = [resolver EXCEPT ![generation] =
           [step |-> "find", source |-> IF preferSelected THEN "selected" ELSE "metadata"]]
    /\ UNCHANGED <<phase, generation, found, fileVars>>

\* The count-in probe defers the start, or does not.
Probed ==
    /\ \/ Goto("probe", "rest") /\ phase' = "pending"
       \/ Goto("probe", "start") /\ UNCHANGED phase
    /\ UNCHANGED <<generation, label, thread, resolverVars, fileVars>>

CountInFinished ==
    /\ phase = "pending"
    /\ Goto("rest", "start")
    /\ UNCHANGED <<phase, generation, label, thread, resolverVars, fileVars>>

\* _start_obs: OBS records, or the request raised.
ObsStarts ==
    /\ Goto("start", "rest")
    /\ phase' = "recording"
    /\ UNCHANGED <<generation, label, thread, resolverVars, fileVars>>

ObsStartFails ==
    /\ Goto("start", "clear")
    /\ phase' = "none"
    /\ UNCHANGED <<generation, label, thread, resolverVars, fileVars>>

\* It raised before the request (module Recorder, LagRaises): the label stays.
StartRaises ==
    /\ Goto("start", "rest")
    /\ phase' = "none"
    /\ UNCHANGED <<generation, label, thread, resolverVars, fileVars>>

\* on_count_in_finished after record was canceled; _on_stop with OBS idle.
CancelTake ==
    /\ phase # "recording"
    /\ Goto("rest", "clear")
    /\ phase' = "none"
    /\ UNCHANGED <<generation, label, thread, resolverVars, fileVars>>

\* _on_stop once OBS has stopped: with a usable file, or without.
ObsStops ==
    /\ phase = "recording"
    /\ Goto("rest", "look") \/ Goto("rest", "clear")
    /\ phase' = "none"
    /\ UNCHANGED <<generation, label, thread, resolverVars, fileVars>>

Named == label.source \in {"selected", "metadata"}

NameFile == file' = [take |-> generation, label |-> label]

\* _track_label_for_finalize: a name is there.
TakeLabel ==
    /\ Named
    /\ Goto("look", "clear")
    /\ NameFile
    /\ UNCHANGED <<phase, generation, label, thread, resolverVars, overtaken>>

ResolverAlive == thread # 0 /\ resolver[thread] # Finished

AwaitResolver ==
    /\ ~Named
    /\ Goto("look", IF ResolverAlive THEN "join" ELSE "name")
    /\ UNCHANGED <<phase, generation, label, thread, resolverVars, fileVars>>

\* Mutant of Joined: no timeout.
JoinedForGood ==
    /\ ~ResolverAlive
    /\ Goto("join", "name")
    /\ UNCHANGED <<phase, generation, label, thread, resolverVars, fileVars>>

\* thread.join(timeout=TRACK_LABEL_STOP_WAIT_S): it ended, or time is up.
Joined ==
    /\ Goto("join", "name")
    /\ UNCHANGED <<phase, generation, label, thread, resolverVars, fileVars>>

\* return self._track_label or UNKNOWN_TRACK_LABEL
TakeLabelOrUnknown ==
    /\ Goto("name", "clear")
    /\ NameFile
    /\ UNCHANGED <<phase, generation, label, thread, resolverVars, overtaken>>

\* Mutant of DropLabel: the label is dropped by the next take only.
KeepLabel ==
    /\ Goto("drop", "rest")
    /\ thread' = 0
    /\ UNCHANGED <<phase, generation, label, resolverVars, fileVars>>

\* _clear_take_context: the generation first, then the label.
ClearTakeContext ==
    /\ Goto("clear", "drop")
    /\ Advance
    /\ UNCHANGED <<phase, label, thread, resolverVars, file>>

DropLabel ==
    /\ Goto("drop", "rest")
    /\ label' = NoLabel
    /\ thread' = 0
    /\ UNCHANGED <<phase, generation, resolverVars, fileVars>>

WorkerStep ==
    \/ BeginResolution
    \/ \E preferSelected \in BOOLEAN : StartResolver(preferSelected)
    \/ Probed \/ CountInFinished \/ ObsStarts \/ ObsStartFails
    \/ StartRaises \/ CancelTake
    \/ ObsStops \/ TakeLabel \/ AwaitResolver \/ Joined \/ TakeLabelOrUnknown
    \/ ClearTakeContext \/ DropLabel

-----------------------------------------------------------------------------
(* The resolver thread of generation g                                      *)

Move(g, from, source, place) ==
    /\ resolver[g] = [step |-> from, source |-> source]
    /\ resolver' = [resolver EXCEPT ![g] = place]

\* Once the selected track's name is dealt with, the full search begins; once
\* that is, the thread ends.
Following(source) ==
    IF source = "selected" THEN [step |-> "find", source |-> "metadata"] ELSE Finished

\* _resolve_selected_track_label or resolve_track_label returns a name.
FindName(g, source) ==
    /\ source # "fallback"
    /\ Move(g, "find", source, [step |-> "check", source |-> source])
    /\ found' = [found EXCEPT ![g] = source]
    /\ UNCHANGED <<wpc, phase, generation, label, thread, fileVars>>

\* No track is selected, or its name did not arrive.
FindNothingSelected(g) ==
    /\ Move(g, "find", "selected", Following("selected"))
    /\ UNCHANGED <<wpc, phase, generation, label, thread, found, fileVars>>

\* resolve_track_label returns UnknownTrack, or any query raised.
FindUnknown(g, source) ==
    /\ source # "fallback"
    /\ Move(g, "find", source, [step |-> "find", source |-> "fallback"])
    /\ UNCHANGED <<wpc, phase, generation, label, thread, found, fileVars>>

\* Mutant of FallBack: whatever stands in _track_label is replaced.
FallBackAlways(g) ==
    /\ Move(g, "find", "fallback", [step |-> "check", source |-> "fallback"])
    /\ UNCHANGED <<wpc, phase, generation, label, thread, found, fileVars>>

\* elif self._track_label is None
FallBack(g) ==
    /\ Move(g, "find", "fallback",
            IF label = NoLabel THEN [step |-> "check", source |-> "fallback"] ELSE Finished)
    /\ UNCHANGED <<wpc, phase, generation, label, thread, found, fileVars>>

\* Mutant of CheckGeneration: always current.
CheckNothing(g, source) ==
    /\ Move(g, "check", source, [step |-> "set", source |-> source])
    /\ UNCHANGED <<wpc, phase, generation, label, thread, found, fileVars>>

\* _set_track_label_if_current: compare, then write.
CheckGeneration(g, source) ==
    /\ Move(g, "check", source,
            IF g = generation THEN [step |-> "set", source |-> source] ELSE Following(source))
    /\ UNCHANGED <<wpc, phase, generation, label, thread, found, fileVars>>

SetLabel(g, source) ==
    /\ Move(g, "set", source, Following(source))
    /\ label' = [gen |-> g, source |-> source]
    /\ UNCHANGED <<wpc, phase, generation, thread, found, fileVars>>

ResolverStep(g) ==
    \/ \E source \in Source :
        FindName(g, source) \/ FindUnknown(g, source)
        \/ CheckGeneration(g, source) \/ SetLabel(g, source)
    \/ FindNothingSelected(g)
    \/ FallBack(g)

Next == WorkerStep \/ \E g \in Generation : ResolverStep(g)

Spec == Init /\ [][Next]_vars

\* The worker goes on with the callback it runs (from "rest" it may wait for
\* Live for ever).  The resolvers owe nothing: Live may never answer.
FairSpec == Spec /\ WF_vars(WorkerStep /\ wpc # "rest")

-----------------------------------------------------------------------------
\* A file is named after its own take's track (recorder.py:283), except in the
\* window the code leaves open: an older take's resolver had passed the
\* comparison, and the generation moved on before it wrote.
OwnLabelUnlessOvertaken ==
    file.label # NoLabel => file.label.gen \in {file.take} \cup overtaken

\* The same of the label the recorder holds: whatever is left of an older take
\* between two takes or in the next one was written by an overtaken resolver.
\* Only the worker's drop of the label may still be to come.
LabelIsCurrent ==
    label # NoLabel =>
        label.gen \in {generation} \cup overtaken \/ wpc \in {"begun", "drop"}

\* A name that was found is used: if the take's own resolver has ended when the
\* file is named (recorder.py:294, _track_label_for_finalize) and no overtaken
\* one interferes, the file has the best name found, UnknownTrack only if none
\* was - the fallback never replaces a name (recorder.py:273).
FoundNameUsed ==
    [][\A g \in Generation :
        file' # file /\ file'.take = g /\ resolver[g] = Finished /\ overtaken = {} =>
            file'.label = [gen |-> g, source |-> found[g]]]_vars

\* Naming a file never hangs on Live (recorder.py:294, join with a timeout).
FinalizeEnds == (wpc = "look") ~> (wpc = "rest" \/ generation = MaxGeneration)

-----------------------------------------------------------------------------
(* The inductive invariant behind the first three.                          *)

\* A thread that is about to write compared in this generation or is overtaken.
WriterIsCurrent ==
    \A g \in Generation : resolver[g].step = "set" => g \in {generation} \cup overtaken

\* A take has begun and its context is not cleared yet.
Underway ==
    \/ wpc \in {"probe", "start", "look", "join", "name"}
    \/ wpc = "rest" /\ phase # "none"

\* A take that ends or is given up is neither recorded nor pending any more.
EndedTakeIsIdle == wpc \in {"look", "join", "name", "clear", "drop"} => phase = "none"

\* A resolver is not there before its take, and has found nothing then.
NotYetBorn ==
    \A g \in Generation :
        /\ g > generation \/ (g = generation /\ wpc = "begun") => resolver[g] = Unborn
        /\ resolver[g] = Unborn => found[g] = "fallback"

\* What the place of the take's own resolver tells of the label, as long as
\* no older one interferes.
NothingYet(g) == label = NoLabel /\ found[g] = "fallback"
AllUsed(g) == label = [gen |-> g, source |-> found[g]]
LabelAtPlace(g, place) ==
    /\ place.step = "find" /\ place.source = "selected" => NothingYet(g)
    /\ place.step = "find" /\ place.source # "selected" =>
          NothingYet(g) \/ (AllUsed(g) /\ found[g] = "selected")
    /\ place.step \in {"check", "set"} => found[g] = place.source
    /\ place.step \in {"check", "set"} /\ place.source = "fallback" => label = NoLabel
    /\ place = Finished => AllUsed(g)

LabelOfOwnResolver ==
    Underway /\ overtaken = {} =>
        \A g \in Generation : g = generation =>
            resolver[g] # Unborn /\ LabelAtPlace(g, resolver[g])

IInv ==
    /\ TypeOK
    /\ WriterIsCurrent
    /\ LabelIsCurrent
    /\ OwnLabelUnlessOvertaken
    /\ EndedTakeIsIdle
    /\ NotYetBorn
    /\ LabelOfOwnResolver
=============================================================================
