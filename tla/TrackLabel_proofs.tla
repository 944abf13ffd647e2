-------------------------- MODULE TrackLabel_proofs --------------------------
(***************************************************************************)
(* Module TrackLabel for any number of takes: whose name a file gets, and   *)
(* that a name which was found is used.                                     *)
(***************************************************************************)
EXTENDS TrackLabel, TLAPS

\* Where a thread can be, spelled out.
LEMMA Places ==
    /\ Unborn \notin [step : Step, source : Source]
    /\ Finished \notin [step : Step, source : Source]
    /\ Unborn # Finished
    /\ Unborn.step = "unborn" /\ Finished.step = "finished"
    /\ \A source \in Source : Following(source) \in Place /\ Following(source) # Unborn
    /\ \A s \in Step, c \in Source : [step |-> s, source |-> c] \in Place \ {Unborn, Finished}
    /\ \A g \in Generation, c \in Source : [gen |-> g, source |-> c] \in Label \ {NoLabel}
    /\ 0 \notin Generation
BY GenerationAssumption
   DEF Unborn, Finished, Step, Source, Following, Place, Label, NoLabel, Generation

\* A thread that leaves one place for another is in no other place meanwhile,
\* and the other threads stay where they are.
LEMMA Moving ==
    ASSUME TypeOK, NEW g \in Generation, NEW from \in Step, NEW source \in Source,
           NEW place \in Place, Move(g, from, source, place)
    PROVE  /\ resolver' \in [Generation -> Place]
           /\ resolver'[g] = place
           /\ \A h \in Generation \ {g} : resolver'[h] = resolver[h]
           /\ resolver[g].step = from /\ resolver[g].source = source
           /\ resolver[g] # Unborn /\ resolver[g] # Finished
BY Places DEF TypeOK, Move

\* Nothing has begun.
LEMMA InitIInv == Init => IInv
<1> SUFFICES ASSUME Init PROVE IInv
  OBVIOUS
<1>1. TypeOK
  BY GenerationAssumption DEF Init, TypeOK, Place, Source, Label, WorkerPlace
<1>2. NotYetBorn /\ WriterIsCurrent
  BY DEF Init, NotYetBorn, WriterIsCurrent, Unborn
<1>3. LabelIsCurrent /\ OwnLabelUnlessOvertaken /\ EndedTakeIsIdle /\ LabelOfOwnResolver
  BY DEF Init, LabelIsCurrent, OwnLabelUnlessOvertaken, EndedTakeIsIdle,
         LabelOfOwnResolver, Underway
<1> QED
  BY <1>1, <1>2, <1>3 DEF IInv

-----------------------------------------------------------------------------
\* A worker step that neither moves the generation nor touches the label, the
\* threads or the file: only its place changes.
LEMMA WorkerMoves ==
    ASSUME IInv, wpc' \in WorkerPlace, phase' \in {"none", "pending", "recording"},
           UNCHANGED <<generation, label, thread, resolverVars, fileVars>>,
           wpc \notin {"begun", "drop"}, wpc' \notin {"begun", "drop"},
           EndedTakeIsIdle', Underway' => Underway
    PROVE  IInv'
<1> USE DEF IInv, resolverVars, fileVars
<1>1. TypeOK'
  BY DEF TypeOK
<1>2. WriterIsCurrent' /\ OwnLabelUnlessOvertaken'
  BY DEF WriterIsCurrent, OwnLabelUnlessOvertaken
<1>3. LabelIsCurrent'
  BY DEF LabelIsCurrent
<1>4. NotYetBorn'
  BY DEF NotYetBorn
<1>5. LabelOfOwnResolver'
  BY DEF LabelOfOwnResolver, LabelAtPlace, NothingYet, AllUsed
<1> QED
  BY <1>1, <1>2, <1>3, <1>4, <1>5

\* Moving the generation on makes its writers overtaken ones.
LEMMA Advancing ==
    ASSUME IInv, Advance, UNCHANGED <<label, thread, resolverVars, phase, file>>,
           wpc' \in {"begun", "drop"}, wpc # "begun", EndedTakeIsIdle'
    PROVE  IInv'
<1> USE GenerationAssumption DEF IInv, Advance, resolverVars
<1>1. TypeOK'
  <2>1. generation' \in 0..MaxGeneration /\ overtaken' \subseteq Generation
    BY DEF TypeOK, Writing
  <2> QED
    BY <2>1 DEF TypeOK, WorkerPlace
<1>2. WriterIsCurrent'
  BY DEF WriterIsCurrent, Writing
<1>3. LabelIsCurrent' /\ OwnLabelUnlessOvertaken'
  BY DEF LabelIsCurrent, OwnLabelUnlessOvertaken
<1>4. NotYetBorn'
  BY DEF NotYetBorn, TypeOK, Generation
<1>5. LabelOfOwnResolver'
  BY DEF LabelOfOwnResolver, Underway
<1> QED
  BY <1>1, <1>2, <1>3, <1>4, <1>5

\* A file is named with what the recorder holds, between begin and clear.
LEMMA Naming ==
    ASSUME IInv, NameFile, wpc \in {"look", "name"}, wpc' = "clear",
           UNCHANGED <<phase, generation, label, thread, resolverVars, overtaken>>
    PROVE  IInv'
<1> USE DEF IInv, resolverVars
<1>1. TypeOK'
  BY DEF TypeOK, NameFile, WorkerPlace
<1>2. WriterIsCurrent' /\ LabelIsCurrent'
  BY DEF WriterIsCurrent, LabelIsCurrent
<1>3. OwnLabelUnlessOvertaken'
  BY DEF LabelIsCurrent, OwnLabelUnlessOvertaken, NameFile
<1>4. NotYetBorn'
  BY DEF NotYetBorn
<1>5. LabelOfOwnResolver' /\ EndedTakeIsIdle'
  BY DEF LabelOfOwnResolver, Underway, EndedTakeIsIdle
<1> QED
  BY <1>1, <1>2, <1>3, <1>4, <1>5

\* Every step of the worker keeps the invariant.
LEMMA WorkerKeeps ==
    ASSUME IInv, WorkerStep
    PROVE  IInv'
<1> USE GenerationAssumption DEF IInv, EndedTakeIsIdle, Goto, resolverVars, fileVars
<1>1. CASE BeginResolution
  BY <1>1, Advancing DEF BeginResolution
<1>2. ASSUME NEW preferSelected \in BOOLEAN, StartResolver(preferSelected)
      PROVE  IInv'
  <2> DEFINE first == [step |-> "find",
                       source |-> IF preferSelected THEN "selected" ELSE "metadata"]
  <2>0. first \in Place \ {Unborn, Finished}
    BY Places DEF Step, Source
  <2>1. /\ wpc = "begun" /\ wpc' \in {"start", "probe"} /\ label' = NoLabel
        /\ thread' = generation /\ resolver' = [resolver EXCEPT ![generation] = first]
        /\ UNCHANGED <<phase, generation, found, overtaken, file>>
    BY <1>2 DEF StartResolver
  <2>2. /\ resolver' \in [Generation -> Place]
        /\ \A g \in Generation :
             resolver'[g] = IF g = generation THEN first ELSE resolver[g]
    BY <2>0, <2>1 DEF TypeOK
  <2>3. TypeOK'
    BY <2>1, <2>2 DEF TypeOK, WorkerPlace
  <2>4. WriterIsCurrent' /\ LabelIsCurrent' /\ OwnLabelUnlessOvertaken'
    BY <2>1, <2>2 DEF WriterIsCurrent, LabelIsCurrent, OwnLabelUnlessOvertaken
  <2>5. NotYetBorn'
    BY <2>0, <2>1, <2>2, GenerationAssumption DEF NotYetBorn, TypeOK, Generation
  <2>6. LabelOfOwnResolver'
    <3>1. \A g \in Generation : g = generation => found'[g] = "fallback"
      BY <2>1 DEF NotYetBorn
    <3> QED
      BY <2>0, <2>1, <2>2, <3>1 DEF LabelOfOwnResolver, LabelAtPlace, NothingYet
  <2>7. EndedTakeIsIdle'
    BY <2>1
  <2> QED
    BY <2>3, <2>4, <2>5, <2>6, <2>7
<1>3. CASE Probed
  <2>1. Underway' => Underway
    BY <1>3 DEF Probed, Underway
  <2>2. /\ wpc = "probe" /\ wpc' \in {"rest", "start"}
        /\ phase' \in {"none", "pending", "recording"}
        /\ UNCHANGED <<generation, label, thread, resolverVars, fileVars>>
    BY <1>3 DEF Probed, TypeOK
  <2>3. EndedTakeIsIdle' /\ wpc' \in WorkerPlace
    BY <2>2 DEF WorkerPlace
  <2> QED
    BY <2>1, <2>2, <2>3, WorkerMoves
<1>4. CASE CountInFinished
  BY <1>4, WorkerMoves DEF CountInFinished, WorkerPlace, Underway, TypeOK
<1>5. CASE ObsStarts
  BY <1>5, WorkerMoves DEF ObsStarts, WorkerPlace, Underway
<1>6. CASE ObsStartFails \/ StartRaises
  BY <1>6, WorkerMoves DEF ObsStartFails, StartRaises, WorkerPlace, Underway
<1>7. CASE CancelTake
  BY <1>7, WorkerMoves DEF CancelTake, WorkerPlace, Underway
<1>8. CASE ObsStops
  BY <1>8, WorkerMoves DEF ObsStops, WorkerPlace, Underway
<1>9. CASE TakeLabel
  BY <1>9, Naming DEF TakeLabel
<1>10. CASE AwaitResolver
  <2>1. wpc = "look" /\ wpc' \in {"join", "name"}
    BY <1>10 DEF AwaitResolver
  <2> QED
    BY <1>10, <2>1, WorkerMoves DEF AwaitResolver, WorkerPlace, Underway, TypeOK
<1>11. CASE Joined
  BY <1>11, WorkerMoves DEF Joined, WorkerPlace, Underway, TypeOK
<1>12. CASE TakeLabelOrUnknown
  BY <1>12, Naming DEF TakeLabelOrUnknown
<1>13. CASE ClearTakeContext
  BY <1>13, Advancing DEF ClearTakeContext
<1>14. CASE DropLabel
  <2>1. TypeOK'
    BY <1>14 DEF DropLabel, TypeOK, WorkerPlace
  <2>2. WriterIsCurrent' /\ LabelIsCurrent' /\ OwnLabelUnlessOvertaken' /\ NotYetBorn'
    BY <1>14 DEF DropLabel, WriterIsCurrent, LabelIsCurrent, OwnLabelUnlessOvertaken,
                 NotYetBorn
  <2>3. LabelOfOwnResolver'
    BY <1>14 DEF DropLabel, LabelOfOwnResolver, Underway
  <2>4. EndedTakeIsIdle'
    BY <1>14 DEF DropLabel
  <2> QED
    BY <2>1, <2>2, <2>3, <2>4
<1> QED
  BY <1>1, <1>2, <1>3, <1>4, <1>5, <1>6, <1>7, <1>8, <1>9, <1>10, <1>11, <1>12, <1>13,
     <1>14 DEF WorkerStep

-----------------------------------------------------------------------------
\* What a resolver step leaves alone, whichever it is, as long as it is a thread
\* at some step for some source that moves to a place which is not Unborn.
LEMMA ResolverMoves ==
    ASSUME IInv, NEW g \in Generation, NEW from \in Step, NEW source \in Source,
           NEW place \in Place, Move(g, from, source, place), place # Unborn,
           found' \in [Generation -> Source], label' \in Label \cup {NoLabel},
           \A h \in Generation \ {g} : found'[h] = found[h],
           UNCHANGED <<wpc, phase, generation, thread, fileVars>>
    PROVE  TypeOK' /\ NotYetBorn' /\ EndedTakeIsIdle' /\ OwnLabelUnlessOvertaken'
<1>0. TypeOK
  BY DEF IInv
<1>1. TypeOK'
  BY <1>0, Moving DEF TypeOK, fileVars
<1>2. NotYetBorn'
  BY <1>0, Moving DEF IInv, NotYetBorn
<1>3. EndedTakeIsIdle' /\ OwnLabelUnlessOvertaken'
  BY DEF IInv, EndedTakeIsIdle, OwnLabelUnlessOvertaken, fileVars
<1> QED
  BY <1>1, <1>2, <1>3

\* A step of a thread that leaves the label alone keeps the invariant if it
\* enters "set" only as the current one, and its own place still tells the truth.
LEMMA ResolverThinks ==
    ASSUME IInv, NEW g \in Generation, NEW from \in Step, NEW source \in Source,
           NEW place \in Place, Move(g, from, source, place), place # Unborn,
           place.step = "set" => g = generation,
           found' \in [Generation -> Source],
           \A h \in Generation \ {g} : found'[h] = found[h],
           UNCHANGED <<wpc, phase, generation, label, thread, fileVars>>,
           LabelAtPlace(g, resolver[g]) /\ g = generation => LabelAtPlace(g, place)'
    PROVE  IInv'
<1>0. TypeOK /\ label' \in Label \cup {NoLabel}
  BY DEF IInv, TypeOK
<1>1. TypeOK' /\ NotYetBorn' /\ EndedTakeIsIdle' /\ OwnLabelUnlessOvertaken'
  BY <1>0, ResolverMoves
<1>2. WriterIsCurrent'
  BY <1>0, Moving DEF IInv, WriterIsCurrent, fileVars
<1>3. LabelIsCurrent'
  BY DEF IInv, LabelIsCurrent, fileVars
<1>4. LabelOfOwnResolver'
  <2> SUFFICES ASSUME Underway, overtaken = {}, generation \in Generation
               PROVE  resolver'[generation] # Unborn
                      /\ LabelAtPlace(generation, resolver[generation])'
    BY DEF LabelOfOwnResolver, Underway, fileVars
  <2>1. resolver[generation] # Unborn /\ LabelAtPlace(generation, resolver[generation])
    BY DEF IInv, LabelOfOwnResolver
  <2>2. CASE g = generation
    BY <1>0, <2>1, <2>2, Moving
  <2>3. CASE g # generation
    <3>1. resolver'[generation] = resolver[generation] /\ found'[generation] = found[generation]
      BY <1>0, <2>3, Moving
    <3> QED
      BY <2>1, <3>1 DEF LabelAtPlace, NothingYet, AllUsed
  <2> QED
    BY <2>2, <2>3
<1> QED
  BY <1>1, <1>2, <1>3, <1>4 DEF IInv

\* A write by a current or overtaken resolver.
LEMMA Writes ==
    ASSUME IInv, NEW g \in Generation, NEW source \in Source, SetLabel(g, source)
    PROVE  IInv'
<1>0. TypeOK /\ label' \in Label \cup {NoLabel} /\ Following(source) \in Place \ {Unborn}
  BY Places DEF IInv, SetLabel
<1> DEFINE next == Following(source)
<1>1. /\ Move(g, "set", source, next)
      /\ label' = [gen |-> g, source |-> source]
      /\ UNCHANGED <<wpc, phase, generation, thread, found, fileVars>>
  BY DEF SetLabel
<1>2. /\ resolver'[g] = next /\ resolver[g].step = "set" /\ resolver[g].source = source
      /\ \A h \in Generation \ {g} : resolver'[h] = resolver[h]
  BY <1>0, <1>1, Moving DEF Step
<1>3. TypeOK' /\ NotYetBorn' /\ EndedTakeIsIdle' /\ OwnLabelUnlessOvertaken'
  <2>1. found \in [Generation -> Source] /\ found' = found
    BY <1>0, <1>1 DEF TypeOK
  <2> QED
    BY <1>0, <1>1, <2>1, ResolverMoves DEF Step
<1>4. next.step # "set"
  BY DEF Following, Finished
<1>5. WriterIsCurrent'
  BY <1>1, <1>2, <1>4 DEF IInv, WriterIsCurrent, fileVars
<1>6. LabelIsCurrent'
  BY <1>1, <1>2 DEF IInv, WriterIsCurrent, LabelIsCurrent, fileVars
<1>7. LabelOfOwnResolver'
  <2> SUFFICES ASSUME Underway, overtaken = {}, generation \in Generation
               PROVE  resolver'[generation] # Unborn
                      /\ LabelAtPlace(generation, resolver[generation])'
    BY <1>1 DEF LabelOfOwnResolver, Underway, fileVars
  <2>1. g = generation
    BY <1>2 DEF IInv, WriterIsCurrent
  <2>2. found[g] = source
    BY <1>2, <2>1 DEF IInv, LabelOfOwnResolver, LabelAtPlace
  <2>3. AllUsed(g)'
    BY <1>1, <2>2 DEF AllUsed
  <2>4. LabelAtPlace(g, next)'
    BY <1>1, <2>2, <2>3 DEF LabelAtPlace, Following, Finished
  <2> QED
    BY <1>0, <1>1, <1>2, <2>1, <2>4
<1> QED
  BY <1>3, <1>5, <1>6, <1>7 DEF IInv

\* Every step of a resolver thread keeps the invariant.
LEMMA ResolverKeeps ==
    ASSUME IInv, NEW g \in Generation, ResolverStep(g)
    PROVE  IInv'
<1>0. TypeOK /\ found \in [Generation -> Source] /\ Finished \in Place \ {Unborn}
  BY DEF IInv, TypeOK, Place, Finished, Unborn
<1>1. ASSUME NEW source \in Source, FindName(g, source) PROVE IInv'
  <2> DEFINE next == [step |-> "check", source |-> source]
  <2>1. /\ Move(g, "find", source, next) /\ next \in Place \ {Unborn}
        /\ source # "fallback"
        /\ found' = [found EXCEPT ![g] = source]
        /\ UNCHANGED <<wpc, phase, generation, label, thread, fileVars>>
    BY <1>1, Places DEF FindName, Step
  <2>2. LabelAtPlace(g, next)'
    BY <1>0, <2>1 DEF LabelAtPlace, Finished
  <2> QED
    BY <1>0, <2>1, <2>2, ResolverThinks DEF Step
<1>2. ASSUME NEW source \in Source, FindUnknown(g, source) PROVE IInv'
  <2> DEFINE next == [step |-> "find", source |-> "fallback"]
  <2>1. /\ Move(g, "find", source, next) /\ next \in Place \ {Unborn}
        /\ UNCHANGED <<wpc, phase, generation, label, thread, found, fileVars>>
    BY <1>2, Places DEF FindUnknown, Step, Source
  <2>2. resolver[g].step = "find"
    BY <1>0, <2>1, Moving DEF Step
  <2>3. LabelAtPlace(g, resolver[g]) => LabelAtPlace(g, next)'
    BY <2>1, <2>2 DEF LabelAtPlace, NothingYet, AllUsed, Finished
  <2> QED
    BY <1>0, <2>1, <2>3, ResolverThinks DEF Step
<1>3. ASSUME NEW source \in Source, CheckGeneration(g, source) PROVE IInv'
  <2> DEFINE next == IF g = generation THEN [step |-> "set", source |-> source]
                                       ELSE Following(source)
  <2>1. /\ Move(g, "check", source, next) /\ next \in Place \ {Unborn}
        /\ UNCHANGED <<wpc, phase, generation, label, thread, found, fileVars>>
    BY <1>3, Places DEF CheckGeneration, Step
  <2>2. resolver[g].step = "check" /\ resolver[g].source = source
    BY <1>0, <2>1, Moving DEF Step
  <2>3. g = generation /\ LabelAtPlace(g, resolver[g]) => LabelAtPlace(g, next)'
    BY <2>1, <2>2 DEF LabelAtPlace, Finished
  <2>4. next.step = "set" => g = generation
    BY DEF Following, Finished
  <2> QED
    BY <1>0, <2>1, <2>3, <2>4, ResolverThinks DEF Step
<1>4. ASSUME NEW source \in Source, SetLabel(g, source) PROVE IInv'
  BY <1>4, Writes
<1>5. CASE FindNothingSelected(g)
  <2> DEFINE next == [step |-> "find", source |-> "metadata"]
  <2>1. /\ Move(g, "find", "selected", next) /\ next \in Place \ {Unborn}
        /\ UNCHANGED <<wpc, phase, generation, label, thread, found, fileVars>>
    BY <1>5, Places DEF FindNothingSelected, Following, Step, Source
  <2>2. resolver[g].step = "find"
    BY <1>0, <2>1, Moving DEF Step, Source
  <2>3. LabelAtPlace(g, resolver[g]) => LabelAtPlace(g, next)'
    BY <2>1, <2>2 DEF LabelAtPlace, NothingYet, AllUsed, Finished
  <2> QED
    BY <1>0, <2>1, <2>3, ResolverThinks DEF Step, Source
<1>6. CASE FallBack(g)
  <2> DEFINE next == IF label = NoLabel THEN [step |-> "check", source |-> "fallback"]
                                        ELSE Finished
  <2>1. /\ Move(g, "find", "fallback", next) /\ next \in Place \ {Unborn}
        /\ UNCHANGED <<wpc, phase, generation, label, thread, found, fileVars>>
    BY <1>0, <1>6, Places DEF FallBack, Step, Source
  <2>2. resolver[g].step = "find" /\ resolver[g].source = "fallback"
    BY <1>0, <2>1, Moving DEF Step, Source
  <2>3. LabelAtPlace(g, resolver[g]) => LabelAtPlace(g, next)'
    <3>0. g \in Generation /\ \A c \in Source : [gen |-> g, source |-> c] # NoLabel
      BY Places
    <3>1. CASE label = NoLabel
      BY <1>0, <2>1, <2>2, <3>0, <3>1 DEF LabelAtPlace, NothingYet, AllUsed, Finished
    <3>2. CASE label # NoLabel
      BY <2>1, <2>2, <3>2 DEF LabelAtPlace, NothingYet, AllUsed, Finished
    <3> QED
      BY <3>1, <3>2
  <2>4. next.step # "set"
    BY DEF Finished
  <2> QED
    BY <1>0, <2>1, <2>3, <2>4, ResolverThinks DEF Step, Source
<1> QED
  BY <1>1, <1>2, <1>3, <1>4, <1>5, <1>6 DEF ResolverStep

-----------------------------------------------------------------------------
LEMMA Inductive == IInv /\ [Next]_vars => IInv'
<1> SUFFICES ASSUME IInv, [Next]_vars PROVE IInv'
  OBVIOUS
<1>1. CASE WorkerStep
  BY <1>1, WorkerKeeps
<1>2. ASSUME NEW g \in Generation, ResolverStep(g) PROVE IInv'
  BY <1>2, ResolverKeeps
<1>3. CASE UNCHANGED vars
  <2> USE <1>3 DEF vars, resolverVars, fileVars
  <2>1. TypeOK' /\ WriterIsCurrent' /\ LabelIsCurrent' /\ OwnLabelUnlessOvertaken'
    BY DEF IInv, TypeOK, WriterIsCurrent, LabelIsCurrent, OwnLabelUnlessOvertaken
  <2>2. EndedTakeIsIdle' /\ NotYetBorn' /\ LabelOfOwnResolver'
    BY DEF IInv, EndedTakeIsIdle, NotYetBorn, LabelOfOwnResolver, Underway,
           LabelAtPlace, NothingYet, AllUsed
  <2> QED
    BY <2>1, <2>2 DEF IInv
<1> QED
  BY <1>1, <1>2, <1>3 DEF Next

\* Through every interleaving of the worker with the resolver threads of older
\* takes, a thread that is about to write its label is current or was overtaken
\* between its comparison and its write (recorder.py:244-303).
THEOREM Invariant == Spec => []IInv
BY InitIInv, Inductive, PTL DEF Spec

\* The types of TrackLabel.
THEOREM TypeCorrect == Spec => []TypeOK
<1>1. IInv => TypeOK
  BY DEF IInv
<1> QED
  BY <1>1, Invariant, PTL

\* However many takes and resolver threads there are, a file is named after the
\* track of another take only by a resolver that had compared generations
\* before they moved on (recorder.py:283-285).
THEOREM OwnLabel == Spec => []OwnLabelUnlessOvertaken
<1>1. IInv => OwnLabelUnlessOvertaken
  BY DEF IInv
<1> QED
  BY <1>1, Invariant, PTL

\* The same of the label the recorder holds between and during takes.
THEOREM CurrentLabel == Spec => []LabelIsCurrent
<1>1. IInv => LabelIsCurrent
  BY DEF IInv
<1> QED
  BY <1>1, Invariant, PTL

\* A take whose resolver has ended in time is named with the best name that
\* resolver found (recorder.py:262-274, 290-299).
THEOREM FoundName == Spec => FoundNameUsed
<1> DEFINE NamesFoundName ==
      \A g \in Generation :
        file' # file /\ file'.take = g /\ resolver[g] = Finished /\ overtaken = {} =>
            file'.label = [gen |-> g, source |-> found[g]]
<1>1. IInv /\ [Next]_vars => [NamesFoundName]_vars
  <2> SUFFICES ASSUME IInv, Next, NEW g \in Generation,
                      file' # file, file'.take = g, resolver[g] = Finished, overtaken = {}
               PROVE  file'.label = [gen |-> g, source |-> found[g]]
    BY DEF NamesFoundName
  <2>1. NameFile /\ wpc \in {"look", "name"}
    <3>1. CASE WorkerStep
      BY <3>1 DEF WorkerStep, BeginResolution, StartResolver, Probed, CountInFinished,
                  ObsStarts, ObsStartFails, StartRaises, CancelTake, ObsStops, TakeLabel,
                  AwaitResolver, Joined, TakeLabelOrUnknown, ClearTakeContext, DropLabel,
                  fileVars, Goto
    <3>2. ASSUME NEW h \in Generation, ResolverStep(h) PROVE FALSE
      BY <3>2 DEF ResolverStep, FindName, FindUnknown, CheckGeneration, SetLabel,
                  FindNothingSelected, FallBack, fileVars
    <3> QED
      BY <3>1, <3>2 DEF Next
  <2>2. g = generation /\ file'.label = label
    BY <2>1 DEF NameFile
  <2>3. LabelAtPlace(g, resolver[g])
    BY <2>1, <2>2 DEF IInv, LabelOfOwnResolver, Underway
  <2> QED
    BY <2>2, <2>3 DEF LabelAtPlace, AllUsed
<1> QED
  BY <1>1, Invariant, PTL DEF Spec, FoundNameUsed
=============================================================================
