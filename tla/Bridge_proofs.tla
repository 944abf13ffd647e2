--------------------------- MODULE Bridge_proofs ---------------------------
(***************************************************************************)
(* Proofs about module Bridge, for every value of its constants: any        *)
(* backlog, any faults, with and without a race at boot.                    *)
(*                                                                          *)
(* The second part is session recording by a user slower than the bridge    *)
(* (module Session).  The argument: what the threads and the queue hold was *)
(* found under the signals of now, so a start that a recording clip calls   *)
(* for, or a stop that an idle Live calls for, is somewhere on its way, and *)
(* once nothing is on its way any more it has been carried out.             *)
(***************************************************************************)
EXTENDS Session, TLAPS

\* Putting a callback keeps the queue well-typed and every callback in it.
LEMMA PutType ==
    ASSUME NEW Q, NEW q \in Seq(Q), NEW c \in Q
    PROVE  Append(q, c) \in Seq(Q)
OBVIOUS

\* The sequences of edges and callbacks that are written out have their type.
LEMMA ShortType ==
    /\ \A Q : <<>> \in Seq(Q)
    /\ \A Q : \A c \in Q : <<c>> \in Seq(Q)
OBVIOUS

\* Signals are sampled and updated within their type.
LEMMA NoSignalsType == NoSignals \in Signals
BY ConstantsAssumption DEF NoSignals, Signals, SignalsOf

\* Every callback the listener makes is a callback.
LEMMA CallbackType ==
    /\ \A e \in Edge, s \in Signals : EdgeCallback(e, s) \in Callback
    /\ \A s \in Signals : CountInFinishedCallback(s) \in Callback
BY DEF EdgeCallback, CountInFinishedCallback, Callback, CallbackKind, Edge, Signals,
       SignalsOf, StartActive

\* The initial state is well-typed.
LEMMA InitTypeOK == Init => TypeOK
<1> SUFFICES ASSUME Init PROVE TypeOK
  OBVIOUS
<1>1. SharedTypeOK
  BY ShortType DEF Init, SharedInit, SharedTypeOK
<1>2. ListenerTypeOK
  BY NoSignalsType, ShortType DEF Init, ListenerInit, ListenerTypeOK, Thread, Place, AfterDispatch
<1>3. RecorderTypeOK
  BY DEF Init, RecorderInit, RecorderTypeOK, WorkerPlace, ObsState, NoJob, Callback,
         CallbackKind, Edge
<1> QED
  BY <1>1, <1>2, <1>3 DEF TypeOK

\* What Live does keeps the types.
LEMMA LiveTypeOK == TypeOK /\ LiveNext => TypeOK'
<1> SUFFICES ASSUME TypeOK, LiveNext PROVE TypeOK'
  OBVIOUS
<1> USE DEF TypeOK, SharedTypeOK, ListenerTypeOK, recorderVars, workerVars, takeVars,
            sharedVars, attributes, stateMachine, Thread, Place, AfterDispatch, Goto, CallDispatch
<1>1. RecorderTypeOK'
  BY DEF LiveNext, RecorderTypeOK
<1>2. ASSUME NEW value \in Arrangements, OscRecordMode(value) PROVE SharedTypeOK' /\ ListenerTypeOK'
  BY <1>2 DEF OscRecordMode, Signals, SignalsOf
<1>3. ASSUME NEW value \in Sessions, OscSessionStatus(value) PROVE SharedTypeOK' /\ ListenerTypeOK'
  BY <1>3 DEF OscSessionStatus, Signals, SignalsOf
<1>4. ASSUME NEW value \in CountIns, OscCountingIn(value) PROVE SharedTypeOK' /\ ListenerTypeOK'
  BY <1>4, ConstantsAssumption DEF OscCountingIn
<1>5. ASSUME NEW clip \in ClipScans, PollScan(clip) PROVE SharedTypeOK' /\ ListenerTypeOK'
  BY <1>5, ConstantsAssumption DEF PollScan, Signals, SignalsOf
<1> QED
  BY <1>1, <1>2, <1>3, <1>4, <1>5 DEF LiveNext, LiveInput

\* So do the listener's threads.
LEMMA ListenerNextTypeOK == TypeOK /\ ListenerNext => TypeOK'
<1> SUFFICES ASSUME TypeOK, ListenerNext PROVE TypeOK'
  OBVIOUS
<1> USE DEF TypeOK, SharedTypeOK, ListenerTypeOK, recorderVars, workerVars, takeVars,
            sharedVars, attributes, stateMachine, Thread, Place, AfterDispatch, BootSync, Goto
<1>1. RecorderTypeOK'
  BY DEF ListenerNext, RecorderTypeOK
<1>2. CASE OscStep
  <2>1. CASE EmitCountInFinished
    BY <2>1, <1>1, CallbackType, PutType DEF EmitCountInFinished, Put
  <2>2. CASE CheckLiveIdle("osc")
    BY <2>2, <1>1 DEF CheckLiveIdle
  <2>3. CASE CheckStillRolling("osc")
    BY <2>3, <1>1 DEF CheckStillRolling
  <2>4. CASE Disarm("osc")
    BY <2>4, <1>1 DEF Disarm
  <2>5. CASE ForceStop("osc")
    BY <2>5, <1>1, CallbackType, PutType DEF ForceStop, Put, Edge
  <2>6. CASE StampRecordMode
    BY <2>6, <1>1 DEF StampRecordMode
  <2> QED
    BY <1>2, <2>1, <2>2, <2>3, <2>4, <2>5, <2>6 DEF OscStep
<1>3. CASE PollStep
  <2>1. CASE CheckLiveIdle("poll")
    BY <2>1, <1>1 DEF CheckLiveIdle
  <2>2. CASE CheckStillRolling("poll")
    BY <2>2, <1>1 DEF CheckStillRolling
  <2>3. CASE Disarm("poll")
    BY <2>3, <1>1 DEF Disarm
  <2>4. CASE ForceStop("poll")
    BY <2>4, <1>1, CallbackType, PutType DEF ForceStop, Put, Edge
  <2>5. CASE CheckSessionOn
    BY <2>5, <1>1 DEF CheckSessionOn
  <2>6. CASE CheckNotRolling
    BY <2>6, <1>1 DEF CheckNotRolling
  <2>7. CASE StartTake
    BY <2>7, <1>1, CallbackType, PutType DEF StartTake, Put, Edge
  <2> QED
    BY <1>3, <2>1, <2>2, <2>3, <2>4, <2>5, <2>6, <2>7 DEF PollStep
<1>4. CASE BootStep
  <2>1. ASSUME NEW clip \in ClipScans, BootScan(clip) PROVE TypeOK'
    BY <2>1, <1>1, ConstantsAssumption DEF BootScan, Signals, SignalsOf
  <2>2. CASE BootSnapshot
    BY <2>2, <1>1 DEF BootSnapshot
  <2>3. CASE BootCompare
    BY <2>3, <1>1, ShortType DEF BootCompare, Edge
  <2>4. CASE BootSetStart
    BY <2>4, <1>1 DEF BootSetStart
  <2>5. CASE BootSetStop
    <3>1. StopActive(seen["main"]) \in BOOLEAN
      BY DEF StopActive, Signals, SignalsOf
    <3> QED
      BY <2>5, <3>1, <1>1, NoSignalsType DEF BootSetStop
  <2> QED
    BY <1>4, <2>1, <2>2, <2>3, <2>4, <2>5 DEF BootStep
<1>5. ASSUME NEW t \in Thread, DispatchStep(t) PROVE TypeOK'
  <2>1. CASE Snapshot(t)
    BY <2>1, <1>1 DEF Snapshot
  <2>2. CASE CompareStart(t)
    BY <2>2, <1>1, ShortType DEF CompareStart, Edge
  <2>3. CASE SetStart(t)
    <3>1. StartActive(seen[t]) \in BOOLEAN
      BY DEF StartActive
    <3> QED
      BY <2>3, <3>1, <1>1 DEF SetStart
  <2>4. CASE CompareStop(t)
    <3>1. Append(edges[t], "STOPPED") \in Seq(Edge)
      BY PutType DEF Edge
    <3> QED
      BY <2>4, <3>1, <1>1 DEF CompareStop
  <2>5. CASE SetStop(t)
    <3>1. StopActive(seen[t]) \in BOOLEAN
      BY DEF StopActive, Signals, SignalsOf
    <3> QED
      BY <2>5, <3>1, <1>1, NoSignalsType DEF SetStop
  <2>6. CASE EmitEdge(t)
    <3>1. Head(edges[t]) \in Edge /\ Tail(edges[t]) \in Seq(Edge)
      BY <2>6 DEF EmitEdge
    <3>2. EdgeCallback(Head(edges[t]), signals) \in Callback
      BY <3>1, CallbackType
    <3>3. queue' \in Seq(Callback)
      BY <2>6, <3>2, PutType DEF EmitEdge, Put
    <3> QED
      BY <2>6, <3>1, <3>3, <1>1 DEF EmitEdge
  <2> QED
    BY <1>5, <2>1, <2>2, <2>3, <2>4, <2>5, <2>6 DEF DispatchStep
<1> QED
  BY <1>2, <1>3, <1>4, <1>5 DEF ListenerNext, ListenerStep

\* So does the worker.
LEMMA RecorderNextTypeOK == TypeOK /\ RecorderNext => TypeOK'
<1> SUFFICES ASSUME TypeOK, RecorderNext PROVE TypeOK'
  OBVIOUS
<1> USE DEF TypeOK, SharedTypeOK, RecorderTypeOK, WorkerPlace, ObsState, listenerVars,
            localVars, stateMachine, takeVars, sharedVars, attributes, Step, Done, Running,
            BeginStart,
            ClearTakeContext
<1>1. ListenerTypeOK'
  BY DEF RecorderNext, ListenerTypeOK
<1>2. NoJob \in Callback
  BY DEF NoJob, Callback, CallbackKind, Edge
<1>3. CASE GetCallback
  <2>1. Head(queue) \in Callback /\ Tail(queue) \in Seq(Callback)
    BY <1>3 DEF GetCallback
  <2> QED
    BY <1>3, <2>1, <1>1 DEF GetCallback
<1>4. CASE IgnoreStart \/ StartArrangement \/ ProbeCountIn \/ FetchCountIn
  BY <1>4, <1>1, <1>2 DEF IgnoreStart, StartArrangement, ProbeCountIn, FetchCountIn
<1>5. CASE DeferStart \/ StartSession
  BY <1>5, <1>1, <1>2 DEF DeferStart, StartSession
<1>6. CASE IgnoreCountInFinished \/ CancelPendingStart \/ StartAfterCountIn
  BY <1>6, <1>1, <1>2 DEF IgnoreCountInFinished, CancelPendingStart, StartAfterCountIn
<1>7. CASE MeasureLag \/ LagRaises \/ ObsStarts \/ ObsStartFails \/ StartReturns
  BY <1>7, <1>1, <1>2 DEF MeasureLag, LagRaises, ObsStarts, ObsStartFails, StartReturns
<1>8. CASE IgnoreStop \/ BeginStop \/ ObsStops \/ ObsStopFails
  BY <1>8, <1>1, <1>2 DEF IgnoreStop, BeginStop, ObsStops, ObsStopFails
<1>9. CASE StopReturns \/ Finalized
  BY <1>9, <1>1, <1>2 DEF StopReturns, Finalized
<1> QED
  BY <1>3, <1>4, <1>5, <1>6, <1>7, <1>8, <1>9 DEF RecorderNext, RecorderStep

\* Every step keeps the types.
LEMMA TypeKept == TypeOK /\ [Next]_vars => TypeOK'
<1> SUFFICES ASSUME TypeOK, [Next]_vars PROVE TypeOK'
  OBVIOUS
<1>1. CASE LiveNext
  BY <1>1, LiveTypeOK
<1>2. CASE ListenerNext
  BY <1>2, ListenerNextTypeOK
<1>3. CASE RecorderNext
  BY <1>3, RecorderNextTypeOK
<1>4. CASE StopOrphan
  BY <1>4 DEF StopOrphan, TypeOK, SharedTypeOK, ListenerTypeOK, RecorderTypeOK, ObsState,
     Goto, sharedVars, attributes, stateMachine, workerVars, takeVars, Thread, Place
<1>5. CASE CrashAndRestart
  <2>1. SharedTypeOK'
    BY <1>5, ShortType DEF CrashAndRestart, SharedTypeOK
  <2>2. ListenerTypeOK'
    BY <1>5, NoSignalsType, ShortType
    DEF CrashAndRestart, ListenerTypeOK, Thread, Place, AfterDispatch
  <2>3. RecorderTypeOK'
    BY <1>5 DEF CrashAndRestart, RecorderTypeOK, WorkerPlace, ObsState, NoJob, Callback,
       CallbackKind, Edge
  <2> QED
    BY <2>1, <2>2, <2>3 DEF TypeOK
<1>6. CASE UNCHANGED vars
  BY <1>6 DEF vars, TypeOK, SharedTypeOK, ListenerTypeOK, RecorderTypeOK, sharedVars, attributes,
     listenerVars, localVars, stateMachine, recorderVars, workerVars, takeVars
<1> QED
  BY <1>1, <1>2, <1>3, <1>4, <1>5, <1>6 DEF Next

\* Every value a variable of the bridge takes has its type (Bridge!Spec).
THEOREM TypeCorrect == Spec => []TypeOK
BY TypeKept, InitTypeOK, PTL DEF Spec

-----------------------------------------------------------------------------
(* What the listener's threads leave alone, and what they do to the queue.  *)

\* A step of the listener, or an input, leaves the recorder's attributes and
\* OBS alone, and only ever appends to the queue.
ListenerFrame ==
    /\ UNCHANGED <<wpc, job, counted, pendingObsStart, hasStart, obs, isRecording>>
    /\ \/ queue' = queue
       \/ \E c \in Callback : queue' = Append(queue, c)

\* An OSC message or a scan touches no worker state and puts nothing in the
\* queue before its thread has a next step to take.
LEMMA LiveFrame == LiveNext => ListenerFrame
BY DEF LiveNext, LiveInput, OscRecordMode, OscSessionStatus, OscCountingIn, PollScan,
       ListenerFrame, recorderVars, workerVars, takeVars, sharedVars, attributes

\* A listener step leaves the worker alone and only appends to the queue
\* (_dispatch_callback).
LEMMA ListenerNextFrame == TypeOK /\ ListenerNext => ListenerFrame
<1> SUFFICES ASSUME TypeOK, ListenerNext PROVE ListenerFrame
  OBVIOUS
<1> USE DEF ListenerFrame, ListenerNext, recorderVars, workerVars, takeVars, sharedVars,
            attributes, Put
<1>1. signals \in Signals /\ "STARTED" \in Edge /\ "STOPPED" \in Edge
  BY DEF TypeOK, ListenerTypeOK, Edge
<1>2. CASE EmitCountInFinished
  BY <1>1, <1>2, CallbackType DEF EmitCountInFinished
<1>3. ASSUME NEW t \in Thread, ForceStop(t) PROVE ListenerFrame
  BY <1>1, <1>3, CallbackType DEF ForceStop
<1>4. CASE StartTake
  BY <1>1, <1>4, CallbackType DEF StartTake
<1>5. ASSUME NEW t \in Thread, EmitEdge(t) PROVE ListenerFrame
  <2>1. Head(edges[t]) \in Edge
    BY <1>5 DEF EmitEdge, TypeOK, ListenerTypeOK
  <2> QED
    BY <1>1, <1>5, <2>1, CallbackType DEF EmitEdge
<1>6. ASSUME NEW t \in Thread,
             CheckLiveIdle(t) \/ CheckStillRolling(t) \/ Disarm(t)
      PROVE  ListenerFrame
  BY <1>6 DEF CheckLiveIdle, CheckStillRolling, Disarm
<1>7. CASE CheckSessionOn \/ CheckNotRolling \/ StampRecordMode
  BY <1>7 DEF CheckSessionOn, CheckNotRolling, StampRecordMode
<1>8. CASE BootStep
  BY <1>8 DEF BootStep, BootScan, BootSnapshot, BootCompare, BootSetStart, BootSetStop
<1>9. ASSUME NEW t \in Thread,
             Snapshot(t) \/ CompareStart(t) \/ SetStart(t) \/ CompareStop(t) \/ SetStop(t)
      PROVE  ListenerFrame
  BY <1>9 DEF Snapshot, CompareStart, SetStart, CompareStop, SetStop
<1> QED
  BY <1>2, <1>3, <1>4, <1>5, <1>6, <1>7, <1>8, <1>9
  DEF ListenerStep, OscStep, PollStep, DispatchStep, Thread

\* Appending to the queue loses no callback.
LEMMA AppendKeeps ==
    ASSUME NEW q \in Seq(Callback), NEW c \in Callback, NEW i \in 1..Len(q)
    PROVE  i \in 1..Len(Append(q, c)) /\ Append(q, c)[i] = q[i]
OBVIOUS

\* The callback that was appended is the last one.
LEMMA AppendLast ==
    ASSUME NEW q \in Seq(Callback), NEW c \in Callback
    PROVE  /\ Len(Append(q, c)) \in 1..Len(Append(q, c))
           /\ Append(q, c)[Len(Append(q, c))] = c
OBVIOUS

\* When a step leaves osc's place and _counting_in alone, the end of the
\* count-in stays on its way.
LEMMA ComingKept ==
    ASSUME TypeOK, ListenerFrame, CountInFinishedComing,
           countingIn' = countingIn, pc["osc"] # "countInDone" \/ pc'["osc"] = pc["osc"]
    PROVE  CountInFinishedComing'
<1>1. CASE countingIn \/ pc["osc"] = "countInDone"
  BY <1>1 DEF CountInFinishedComing
<1>2. CASE \E i \in 1..Len(queue) : queue[i].kind = "COUNT_IN_FINISHED"
  <2>1. PICK i \in 1..Len(queue) : queue[i].kind = "COUNT_IN_FINISHED"
    BY <1>2
  <2>2. queue \in Seq(Callback)
    BY DEF TypeOK, SharedTypeOK
  <2>3. i \in 1..Len(queue') /\ queue'[i] = queue[i]
    BY <2>2, AppendKeeps DEF ListenerFrame
  <2> QED
    BY <2>1, <2>3 DEF CountInFinishedComing
<1> QED
  BY <1>1, <1>2 DEF CountInFinishedComing

\* A step of any thread that is not about the count-in keeps it on its way.
LEMMA OtherStepComing ==
    ASSUME TypeOK, ListenerFrame, CountInFinishedComing, countingIn' = countingIn,
           NEW t \in Thread, NEW from, NEW to, Goto(t, from, to), from # "countInDone"
    PROVE  CountInFinishedComing'
<1>1. pc["osc"] # "countInDone" \/ pc'["osc"] = pc["osc"]
  BY DEF Goto, TypeOK, ListenerTypeOK, Thread
<1> QED
  BY <1>1, ComingKept

\* No message of Live loses the end of a count-in: a 1 -> 0 of is_counting_in
\* becomes the pending EmitCountInFinished (_on_counting_in).
LEMMA LiveComing == TypeOK /\ LiveNext /\ CountInFinishedComing => CountInFinishedComing'
<1> SUFFICES ASSUME TypeOK, LiveNext, CountInFinishedComing PROVE CountInFinishedComing'
  OBVIOUS
<1>1. ListenerFrame
  BY LiveFrame
<1>2. ASSUME NEW value \in Arrangements, OscRecordMode(value) PROVE CountInFinishedComing'
  BY <1>1, <1>2, OtherStepComing DEF OscRecordMode, sharedVars, attributes, Thread
<1>3. ASSUME NEW value \in Sessions, OscSessionStatus(value) PROVE CountInFinishedComing'
  BY <1>1, <1>3, OtherStepComing DEF OscSessionStatus, CallDispatch, sharedVars, attributes, Thread
<1>4. ASSUME NEW value \in CountIns, OscCountingIn(value) PROVE CountInFinishedComing'
  <2>1. CASE countingIn /\ ~value
    BY <1>4, <2>1 DEF OscCountingIn, Goto, CountInFinishedComing, TypeOK, ListenerTypeOK, Thread
  <2>2. CASE ~countingIn \/ value
    <3>1. CASE countingIn
      BY <1>4, <2>2, <3>1 DEF OscCountingIn, CountInFinishedComing
    <3>2. CASE ~countingIn
      BY <1>4, <3>2 DEF OscCountingIn, Goto, CountInFinishedComing
    <3> QED
      BY <3>1, <3>2
  <2> QED
    BY <2>1, <2>2
<1>5. ASSUME NEW clip \in ClipScans, PollScan(clip) PROVE CountInFinishedComing'
  BY <1>1, <1>5, OtherStepComing DEF PollScan, CallDispatch, sharedVars, attributes, Thread
<1> QED
  BY <1>2, <1>3, <1>4, <1>5 DEF LiveNext, LiveInput

\* Nor does a step of the listener: EmitCountInFinished hands it to the queue.
LEMMA ListenerComing ==
    TypeOK /\ ListenerNext /\ CountInFinishedComing => CountInFinishedComing'
<1> SUFFICES ASSUME TypeOK, ListenerNext, CountInFinishedComing PROVE CountInFinishedComing'
  OBVIOUS
<1>1. ListenerFrame
  BY ListenerNextFrame
<1>2. CASE EmitCountInFinished
  <2>1. CountInFinishedCallback(signals) \in Callback
    BY CallbackType DEF TypeOK, ListenerTypeOK
  <2>2. queue'[Len(queue')].kind = "COUNT_IN_FINISHED" /\ Len(queue') \in 1..Len(queue')
    BY <1>2, <2>1, AppendLast
    DEF EmitCountInFinished, Put, TypeOK, SharedTypeOK, CountInFinishedCallback
  <2> QED
    BY <2>2 DEF CountInFinishedComing
<1>3. ASSUME NEW t \in Thread,
             CheckLiveIdle(t) \/ CheckStillRolling(t) \/ Disarm(t) \/ ForceStop(t)
      PROVE  CountInFinishedComing'
  BY <1>1, <1>3, OtherStepComing
  DEF CheckLiveIdle, CheckStillRolling, Disarm, ForceStop, sharedVars, attributes
<1>4. CASE StampRecordMode \/ CheckSessionOn \/ CheckNotRolling \/ StartTake
  BY <1>1, <1>4, OtherStepComing
  DEF StampRecordMode, CheckSessionOn, CheckNotRolling, StartTake, sharedVars, attributes, Thread
<1>5. CASE BootStep
  BY <1>1, <1>5, OtherStepComing
  DEF BootStep, BootScan, BootSnapshot, BootCompare, BootSetStart, BootSetStop, sharedVars,
      attributes,
      Thread
<1>6. ASSUME NEW t \in Thread, DispatchStep(t) PROVE CountInFinishedComing'
  BY <1>1, <1>6, OtherStepComing
  DEF DispatchStep, Snapshot, CompareStart, SetStart, CompareStop, SetStop, EmitEdge,
      sharedVars, attributes
<1> QED
  BY <1>2, <1>3, <1>4, <1>5, <1>6 DEF ListenerNext, ListenerStep, OscStep, PollStep, Thread

-----------------------------------------------------------------------------
(* The inductive invariant IInv.                                            *)

\* A bridge that starts satisfies IInv.
LEMMA InitIInv == Init => IInv
<1> SUFFICES ASSUME Init PROVE IInv
  OBVIOUS
<1>1. TypeOK
  BY InitTypeOK
<1>2. pc["main"] = "orphan" /\ pc["osc"] = "rest" /\ pc["poll"] = "rest"
  BY DEF Init, ListenerInit, Thread
<1> QED
  BY <1>1, <1>2
  DEF Init, SharedInit, RecorderInit, IInv, WorkerPlaces, OrphanCheckFirst, CountInHandover,
      RecorderMatchesObs, DriftNeedsFault

\* Main does not return to the check for an orphaned recording, and while it is
\* in it no other thread of the listener has anything to do.
LEMMA OrphanNotReentered ==
    IInv /\ (LiveNext \/ ListenerNext) => pc["main"] # "orphan" /\ pc'["main"] # "orphan"
<1> SUFFICES ASSUME IInv, LiveNext \/ ListenerNext
             PROVE  pc["main"] # "orphan" /\ pc'["main"] # "orphan"
  OBVIOUS
<1> USE DEF Thread, Goto, IInv, TypeOK, ListenerTypeOK, AfterDispatch
<1>1. CASE LiveNext
  BY <1>1
  DEF LiveNext, LiveInput, Listening, OscRecordMode, OscSessionStatus, OscCountingIn,
      PollScan, CallDispatch
<1>2. ASSUME NEW t \in Thread, NEW from, NEW to, pc[t] = from, pc' = [pc EXCEPT ![t] = to],
             to # "orphan", from # "orphan", t = "main" \/ from # "rest"
      PROVE  pc["main"] # "orphan" /\ pc'["main"] # "orphan"
  BY <1>2 DEF OrphanCheckFirst
<1>3. CASE ListenerNext
  <2>1. CASE OscStep
    BY <1>2, <2>1
    DEF OscStep, StampRecordMode, EmitCountInFinished, CheckLiveIdle, CheckStillRolling,
        Disarm, ForceStop
  <2>2. CASE PollStep
    BY <1>2, <2>2
    DEF PollStep, CheckLiveIdle, CheckStillRolling, Disarm, ForceStop, CheckSessionOn,
        CheckNotRolling, StartTake
  <2>3. CASE BootStep
    BY <1>2, <2>3
    DEF BootStep, BootScan, BootSnapshot, BootCompare, BootSetStart, BootSetStop
  <2>4. ASSUME NEW t \in Thread, DispatchStep(t)
           PROVE  pc["main"] # "orphan" /\ pc'["main"] # "orphan"
    BY <1>2, <2>4
    DEF DispatchStep, Snapshot, CompareStart, SetStart, CompareStop, SetStop, EmitEdge
  <2> QED
    BY <1>3, <2>1, <2>2, <2>3, <2>4 DEF ListenerNext, ListenerStep
<1> QED
  BY <1>1, <1>3

\* A step of Live or of a listener thread.
LEMMA ListenerIInv == IInv /\ (LiveNext \/ ListenerNext) => IInv'
<1> SUFFICES ASSUME IInv, LiveNext \/ ListenerNext PROVE IInv'
  OBVIOUS
<1>1. TypeOK'
  BY LiveTypeOK, ListenerNextTypeOK DEF IInv
<1>2. ListenerFrame
  BY LiveFrame, ListenerNextFrame DEF IInv
<1>3. OrphanCheckFirst'
  BY OrphanNotReentered DEF OrphanCheckFirst
<1>4. WorkerPlaces' /\ RecorderMatchesObs' /\ DriftNeedsFault'
  BY <1>2, OrphanNotReentered DEF IInv, ListenerFrame, WorkerPlaces, RecorderMatchesObs,
       DriftNeedsFault
<1>5. CountInHandover'
  <2>1. CountInFinishedComing => CountInFinishedComing'
    BY LiveComing, ListenerComing DEF IInv
  <2> QED
    BY <1>2, <2>1 DEF IInv, CountInHandover, ListenerFrame, Running
<1> QED
  BY <1>1, <1>3, <1>4, <1>5 DEF IInv

\* Taking the first callback off the queue.
LEMMA GetCallbackIInv == IInv /\ GetCallback /\ UNCHANGED listenerVars => IInv'
<1> SUFFICES ASSUME IInv, GetCallback, UNCHANGED listenerVars PROVE IInv'
  OBVIOUS
<1>1. TypeOK'
  BY RecorderNextTypeOK DEF IInv, RecorderNext, RecorderStep
<1>2. OrphanCheckFirst'
  BY DEF IInv, OrphanCheckFirst, GetCallback, listenerVars, localVars
<1>3. WorkerPlaces' /\ RecorderMatchesObs' /\ DriftNeedsFault'
  BY DEF IInv, GetCallback, takeVars, listenerVars, localVars, WorkerPlaces, RecorderMatchesObs,
         DriftNeedsFault
<1>4. CountInHandover'
  <2>1. SUFFICES ASSUME pendingObsStart
                 PROVE  CountInFinishedComing' \/ Running("COUNT_IN_FINISHED")'
    BY DEF GetCallback, CountInHandover, takeVars
  <2>2. CountInFinishedComing
    BY <2>1 DEF IInv, CountInHandover, GetCallback, Running
  <2>3. CASE countingIn \/ pc["osc"] = "countInDone"
    BY <2>3 DEF CountInFinishedComing, GetCallback, listenerVars, localVars, attributes
  <2>4. CASE \E i \in 1..Len(queue) : queue[i].kind = "COUNT_IN_FINISHED"
    <3>1. PICK i \in 1..Len(queue) : queue[i].kind = "COUNT_IN_FINISHED"
      BY <2>4
    <3>2. CASE i = 1
      BY <3>1, <3>2 DEF GetCallback, Running, IInv, TypeOK, SharedTypeOK
    <3>3. CASE i # 1
      <4>1. i - 1 \in 1..Len(queue') /\ queue'[i - 1] = queue[i]
        BY <3>1, <3>3 DEF GetCallback, IInv, TypeOK, SharedTypeOK
      <4> QED
        BY <3>1, <4>1 DEF CountInFinishedComing
    <3> QED
      BY <3>2, <3>3
  <2> QED
    BY <2>2, <2>3, <2>4 DEF CountInFinishedComing
<1> QED
  BY <1>1, <1>2, <1>3, <1>4 DEF IInv

\* The worker's other steps leave the queue and the count-in alone.
LEMMA RecorderIInv == IInv /\ RecorderNext => IInv'
<1> SUFFICES ASSUME IInv, RecorderNext PROVE IInv'
  OBVIOUS
<1> DEFINE Rest == OrphanCheckFirst' /\ WorkerPlaces' /\ CountInHandover'
                     /\ RecorderMatchesObs' /\ DriftNeedsFault'
<1>1. TypeOK'
  BY RecorderNextTypeOK DEF IInv
<1>2. CASE GetCallback
  BY <1>2, GetCallbackIInv DEF RecorderNext
<1>3. ASSUME queue' = queue, countingIn' = countingIn
      PROVE  CountInFinishedComing => CountInFinishedComing'
  BY <1>3 DEF CountInFinishedComing, RecorderNext, listenerVars, localVars
<1>4. pc["main"] = "orphan" => pc'["main"] = "orphan" /\ wpc = "get"
  BY DEF IInv, OrphanCheckFirst, RecorderNext, listenerVars, localVars
<1>5. pc' = pc
  BY DEF RecorderNext, listenerVars, localVars
<1> USE DEF IInv, OrphanCheckFirst, WorkerPlaces, CountInHandover, RecorderMatchesObs,
            DriftNeedsFault, Step, Done, Running, BeginStart, ClearTakeContext,
            takeVars, sharedVars, attributes
<1>6. CASE IgnoreStart \/ StartArrangement
  <2>1. Rest
    BY <1>3, <1>5, <1>6 DEF IgnoreStart, StartArrangement
  <2> QED
    BY <1>1, <2>1
<1>7. CASE ProbeCountIn
  <2>1. Rest
    BY <1>3, <1>5, <1>7 DEF ProbeCountIn
  <2> QED
    BY <1>1, <2>1
<1>8. CASE FetchCountIn
  <2>1. Rest
    BY <1>3, <1>5, <1>8 DEF FetchCountIn, CountInFinishedComing
  <2> QED
    BY <1>1, <2>1
<1>9. CASE DeferStart
  <2>1. Rest
    BY <1>3, <1>5, <1>9 DEF DeferStart
  <2> QED
    BY <1>1, <2>1
<1>10. CASE StartSession
  <2>1. Rest
    BY <1>3, <1>5, <1>10 DEF StartSession
  <2> QED
    BY <1>1, <2>1
<1>11. CASE IgnoreCountInFinished \/ CancelPendingStart
  <2>1. Rest
    BY <1>3, <1>5, <1>11 DEF IgnoreCountInFinished, CancelPendingStart
  <2> QED
    BY <1>1, <2>1
<1>12. CASE StartAfterCountIn
  <2>1. Rest
    BY <1>3, <1>5, <1>12 DEF StartAfterCountIn
  <2> QED
    BY <1>1, <2>1
<1>13. CASE MeasureLag \/ LagRaises \/ ObsStarts \/ ObsStartFails
  <2>1. Rest
    BY <1>3, <1>5, <1>13 DEF MeasureLag, LagRaises, ObsStarts, ObsStartFails
  <2> QED
    BY <1>1, <2>1
<1>14. CASE StartReturns
  <2>1. Rest
    BY <1>3, <1>5, <1>14 DEF StartReturns
  <2> QED
    BY <1>1, <2>1
<1>15. CASE IgnoreStop \/ BeginStop
  <2>1. Rest
    BY <1>3, <1>5, <1>15 DEF IgnoreStop, BeginStop
  <2> QED
    BY <1>1, <2>1
<1>16. CASE ObsStops \/ ObsStopFails
  <2>1. Rest
    BY <1>3, <1>5, <1>16 DEF ObsStops, ObsStopFails
  <2> QED
    BY <1>1, <2>1
<1>17. CASE StopReturns \/ Finalized
  <2>1. Rest
    BY <1>3, <1>5, <1>17 DEF StopReturns, Finalized
  <2> QED
    BY <1>1, <2>1
<1> QED
  BY <1>2, <1>6, <1>7, <1>8, <1>9, <1>10, <1>11, <1>12, <1>13, <1>14, <1>15, <1>16, <1>17
  DEF RecorderNext, RecorderStep

\* Stopping an orphaned recording at boot.
LEMMA OrphanIInv == IInv /\ StopOrphan => IInv'
<1> SUFFICES ASSUME IInv, StopOrphan PROVE IInv'
  OBVIOUS
<1>1. TypeOK'
  BY DEF IInv, StopOrphan, TypeOK, SharedTypeOK, ListenerTypeOK, RecorderTypeOK, ObsState,
         Goto, sharedVars, attributes, stateMachine, workerVars, takeVars, Thread, Place
<1>2. wpc = "get" /\ ~isRecording /\ pc' = [pc EXCEPT !["main"] = "scan"]
  BY DEF IInv, StopOrphan, Goto, OrphanCheckFirst
<1>3. pc'["main"] # "orphan" /\ pc'["osc"] = pc["osc"]
  BY <1>2 DEF IInv, TypeOK, ListenerTypeOK, Thread
<1>4. UNCHANGED <<wpc, job, counted, pendingObsStart, hasStart, isRecording, queue, countingIn>>
  BY DEF StopOrphan, workerVars, takeVars, sharedVars, attributes
<1>5. OrphanCheckFirst' /\ WorkerPlaces'
  BY <1>2, <1>3, <1>4 DEF IInv, OrphanCheckFirst, WorkerPlaces
<1>6. RecorderMatchesObs' /\ DriftNeedsFault'
  BY <1>2, <1>4 DEF IInv, StopOrphan, RecorderMatchesObs, DriftNeedsFault
<1>7. CountInHandover'
  BY <1>3, <1>4 DEF IInv, CountInHandover, CountInFinishedComing, Running
<1> QED
  BY <1>1, <1>5, <1>6, <1>7 DEF IInv

\* A restart begins from nothing.
LEMMA CrashIInv == TypeOK' /\ CrashAndRestart => IInv'
<1> SUFFICES ASSUME TypeOK', CrashAndRestart PROVE IInv'
  OBVIOUS
<1>1. pc'["osc"] = "rest" /\ pc'["poll"] = "rest" /\ pc'["main"] = "orphan"
  BY DEF CrashAndRestart, Thread
<1> QED
  BY <1>1 DEF Rolling, CrashAndRestart, IInv, OrphanCheckFirst, WorkerPlaces, CountInHandover,
              RecorderMatchesObs, DriftNeedsFault

\* IInv is inductive: no step of Live, of a thread, of OBS, and no crash breaks it.
THEOREM Inductive == IInv /\ [Next]_vars => IInv'
<1> SUFFICES ASSUME IInv, [Next]_vars PROVE IInv'
  OBVIOUS
<1>1. CASE LiveNext \/ ListenerNext
  BY <1>1, ListenerIInv
<1>2. CASE RecorderNext
  BY <1>2, RecorderIInv
<1>3. CASE StopOrphan
  BY <1>3, OrphanIInv
<1>4. CASE CrashAndRestart
  BY <1>4, CrashIInv, TypeKept DEF IInv
<1>5. CASE UNCHANGED vars
  BY <1>5 DEF vars, sharedVars, attributes, listenerVars, localVars, stateMachine, recorderVars,
     workerVars, takeVars, IInv, TypeOK, SharedTypeOK, ListenerTypeOK, RecorderTypeOK,
     OrphanCheckFirst, WorkerPlaces, CountInHandover, CountInFinishedComing, Running,
     RecorderMatchesObs, DriftNeedsFault
<1> QED
  BY <1>1, <1>2, <1>3, <1>4, <1>5 DEF Next

\* Every reachable state satisfies the inductive invariant.
THEOREM Invariant == Spec => []IInv
BY InitIInv, Inductive, PTL DEF Spec

\* A start deferred for the count-in is never forgotten (recorder.py,
\* _on_live_start and on_count_in_finished against the OSC thread).
THEOREM NoForgottenStart == Spec => []CountInHandover
<1>1. IInv => CountInHandover
  BY DEF IInv
<1> QED
  BY <1>1, Invariant, PTL

\* The recorder and OBS agree on what is recorded, but for lost answers, and what
\* those leave behind is never taken for a take (recorder.py, _start_obs, _on_stop).
THEOREM RecorderKnowsObs == Spec => []RecorderMatchesObs
<1>1. IInv => RecorderMatchesObs
  BY DEF IInv
<1> QED
  BY <1>1, Invariant, PTL

\* A start time survives its take only if ms_since_record_mode_on raised
\* (recorder.py, _started_at: every other way out clears it).
THEOREM StartTimeFresh == Spec => StartTimeOfThisTake
<1> DEFINE Kept == ~StaleStartTime /\ StaleStartTime' => wpc = "lag" /\ ~recordModeOn
<1>1. IInv /\ [Next]_vars => [Kept]_vars
  <2> SUFFICES ASSUME IInv, [Next]_vars PROVE Kept
    OBVIOUS
  <2> USE DEF StaleStartTime
  <2>1. CASE LiveNext \/ ListenerNext
    <3>1. ListenerFrame
      BY <2>1, LiveFrame, ListenerNextFrame DEF IInv
    <3> QED
      BY <3>1 DEF ListenerFrame
  <2>2. CASE RecorderNext
    <3> USE DEF Step, Done, Running, BeginStart, ClearTakeContext, takeVars, sharedVars, attributes
    <3>1. CASE GetCallback \/ IgnoreStart \/ StartArrangement \/ ProbeCountIn \/ FetchCountIn
      BY <3>1 DEF GetCallback, IgnoreStart, StartArrangement, ProbeCountIn, FetchCountIn
    <3>2. CASE DeferStart \/ StartSession \/ IgnoreCountInFinished \/ CancelPendingStart
      BY <3>2 DEF DeferStart, StartSession, IgnoreCountInFinished, CancelPendingStart
    <3>3. CASE StartAfterCountIn
      BY <3>3 DEF StartAfterCountIn
    <3>4. CASE MeasureLag \/ LagRaises \/ ObsStarts \/ ObsStartFails \/ StartReturns
      BY <3>4 DEF MeasureLag, LagRaises, ObsStarts, ObsStartFails, StartReturns
    <3>5. CASE IgnoreStop \/ BeginStop \/ ObsStops \/ ObsStopFails \/ StopReturns \/ Finalized
      BY <3>5 DEF IInv, WorkerPlaces, IgnoreStop, BeginStop, ObsStops, ObsStopFails, StopReturns,
         Finalized
    <3> QED
      BY <2>2, <3>1, <3>2, <3>3, <3>4, <3>5 DEF RecorderNext, RecorderStep
  <2>3. CASE StopOrphan \/ CrashAndRestart \/ UNCHANGED vars
    BY <2>3 DEF StopOrphan, CrashAndRestart, vars, recorderVars, workerVars, takeVars, sharedVars
  <2> QED
    BY <2>1, <2>2, <2>3 DEF Next
<1>2. [][Kept]_vars => StartTimeOfThisTake
  BY PTL DEF StartTimeOfThisTake
<1> QED
  BY <1>1, <1>2, Invariant, PTL DEF Spec

-----------------------------------------------------------------------------
(* Session recording by a slow user.  Live changes when nothing is on its   *)
(* way, so whatever a thread, the queue or the worker holds before the next  *)
(* change fits the signals of now (EverythingFits): a STOPPED cannot undo a   *)
(* start, nor a STARTED a stop.  It remains that a start the signals call     *)
(* for is always somewhere between the listener and OBS, and a stop too.      *)

\* A step of one thread moves that thread only.
LEMMA Moves ==
    ASSUME TypeOK, NEW t \in Thread, NEW from, NEW to, Goto(t, from, to)
    PROVE  pc[t] = from /\ pc'[t] = to /\ \A u \in Thread \ {t} : pc'[u] = pc[u]
BY DEF Goto, TypeOK, ListenerTypeOK

\* A callback that is put in the queue is in it, and loses no other.
LEMMA PutQueued ==
    ASSUME queue \in Seq(Callback), NEW c \in Callback, queue' = Append(queue, c)
    PROVE  Queued(c.kind)' /\ \A kind : Queued(kind) => Queued(kind)'
<1>1. Len(queue') \in 1..Len(queue') /\ queue'[Len(queue')] = c
  BY AppendLast
<1>2. \A i \in 1..Len(queue) : i \in 1..Len(queue') /\ queue'[i] = queue[i]
  BY AppendKeeps
<1> QED
  BY <1>1, <1>2 DEF Queued

\* apply() and its emission on one of the two threads: an edge it finds fits the
\* signals, and none it has found is lost (osc_client.py:199-209).
LEMMA SessionDispatch ==
    ASSUME SessionInv, NEW t \in {"osc", "poll"}, DispatchStep(t), UNCHANGED recorderVars, IInv'
    PROVE  SessionInv'
<1> USE DEF SessionInv
<1>1. /\ TypeOK /\ t \in Thread
      /\ seen \in [Thread -> Signals] /\ edges \in [Thread -> Seq(Edge)]
      /\ after \in [Thread -> AfterDispatch] /\ queue \in Seq(Callback) /\ signals \in Signals
      /\ wasStart \in BOOLEAN
  BY DEF IInv, TypeOK, ListenerTypeOK, SharedTypeOK, Thread
<1>2. UNCHANGED <<wpc, job, counted, pendingObsStart, hasStart, obs, recordModeOn>>
  BY DEF recorderVars, workerVars, takeVars, DispatchStep, Snapshot, CompareStart, SetStart,
         CompareStop, SetStop, EmitEdge, sharedVars, attributes
<1>3. InDispatch(t) /\ pc["main"] = "up"
  BY DEF DispatchStep, Snapshot, CompareStart, SetStart, CompareStop, SetStop, EmitEdge, Goto,
         InDispatch, TakingTurns
<1>4. CASE Snapshot(t)
  <2>1. /\ pc[t] = "snapshot" /\ pc'[t] = "compareStart" /\ \A u \in Thread \ {t} : pc'[u] = pc[u]
        /\ UNCHANGED <<edges, after, signals, wasStart, queue, isRecording>>
        /\ seen' = [seen EXCEPT ![t] = signals]
    BY <1>1, <1>4, Moves DEF Snapshot, sharedVars, attributes, stateMachine
  <2>2. TakingTurns'
    BY <1>2, <1>3, <2>1 DEF TakingTurns, Thread, Engaged
  <2>3. ApplyFollows'
    BY <1>1, <2>1 DEF ApplyFollows, Engaged, Thread
  <2>4. EverythingFits'
    BY <1>2, <2>1 DEF EverythingFits, CallbackFits, EdgeFits, Engaged, Thread
  <2>5. StartNotLost' /\ StopNotLost'
    BY <1>2, <2>1 DEF StartNotLost, StopNotLost, StartComing, StopComing, Running, Queued,
      InDispatch, Engaged, Thread
  <2> QED
    BY <2>2, <2>3, <2>4, <2>5
<1>5. CASE CompareStart(t)
  <2>1. /\ pc[t] = "compareStart" /\ pc'[t] = "setStart" /\ \A u \in Thread \ {t} : pc'[u] = pc[u]
        /\ UNCHANGED <<seen, after, signals, wasStart, queue, isRecording>>
        /\ edges' = [edges EXCEPT ![t] =
                IF StartActive(seen[t]) /\ ~wasStart THEN <<"STARTED">> ELSE <<>>]
    BY <1>1, <1>5, Moves DEF CompareStart, sharedVars, attributes, stateMachine
  <2>2. TakingTurns'
    BY <1>1, <1>2, <1>3, <2>1 DEF TakingTurns, Thread, Engaged
  <2>3. ApplyFollows'
    BY <1>1, <2>1 DEF ApplyFollows, Engaged, Thread
  <2>0. seen[t] = signals /\ (StartActive(seen[t]) <=> Engaged)
    BY <1>1, <2>1 DEF ApplyFollows, StartActive, Engaged, TakingTurns
  <2>4. EverythingFits'
    BY <1>1, <1>2, <2>0, <2>1 DEF EverythingFits, CallbackFits, EdgeFits, Engaged, Thread
  <2>5. StartNotLost'
    BY <1>1, <1>2, <2>0, <2>1 DEF StartNotLost, StartComing, Running, Queued,
      InDispatch, Engaged, Thread
  <2>6. StopNotLost'
    BY <1>2, <2>1 DEF StopNotLost, StopComing, Running, Queued,
      InDispatch, Engaged, Thread
  <2> QED
    BY <2>2, <2>3, <2>4, <2>5, <2>6
<1>6. CASE SetStart(t)
  <2>1. /\ pc[t] = "setStart" /\ pc'[t] = "compareStop" /\ \A u \in Thread \ {t} : pc'[u] = pc[u]
        /\ UNCHANGED <<seen, edges, after, signals, queue, isRecording>>
        /\ wasStart' = StartActive(seen[t])
    BY <1>1, <1>6, Moves DEF SetStart, sharedVars, attributes
  <2>0. seen[t] = signals /\ (StartActive(seen[t]) <=> Engaged)
    BY <1>1, <2>1 DEF ApplyFollows, StartActive, Engaged, TakingTurns
  <2>2. TakingTurns'
    BY <1>2, <1>3, <2>1 DEF TakingTurns, Thread, Engaged
  <2>3. ApplyFollows'
    BY <2>0, <2>1 DEF ApplyFollows, Engaged, Thread
  <2>4. EverythingFits'
    BY <1>2, <2>1 DEF EverythingFits, CallbackFits, EdgeFits, Engaged, Thread
  <2>5. StartNotLost' /\ StopNotLost'
    BY <1>2, <1>3, <2>1 DEF StartNotLost, StopNotLost, StartComing, StopComing, Running, Queued,
      InDispatch, Engaged, Thread, TakingTurns
  <2> QED
    BY <2>2, <2>3, <2>4, <2>5
<1>7. CASE CompareStop(t)
  <2>1. /\ pc[t] = "compareStop" /\ pc'[t] = "setStop" /\ \A u \in Thread \ {t} : pc'[u] = pc[u]
        /\ UNCHANGED <<seen, after, signals, wasStart, queue, isRecording>>
        /\ edges' = [edges EXCEPT ![t] =
                IF ~StopActive(seen[t]) /\ wasStop THEN Append(edges[t], "STOPPED") ELSE edges[t]]
    BY <1>1, <1>7, Moves DEF CompareStop, sharedVars, attributes, stateMachine
  <2>0. seen[t] = signals /\ (~StopActive(seen[t]) => ~signals.clip)
    BY <1>1, <2>1 DEF ApplyFollows, StopActive
  <2>2. TakingTurns'
    BY <1>1, <1>2, <1>3, <2>1 DEF TakingTurns, Thread, Engaged
  <2>3. ApplyFollows'
    BY <1>1, <2>1 DEF ApplyFollows, Engaged, Thread
  <2>4. \A i \in 1..Len(edges'[t]) : EdgeFits(edges'[t][i])
    <3>1. \A i \in 1..Len(edges[t]) : EdgeFits(edges[t][i])
      BY <1>1, <2>1 DEF EverythingFits
    <3>2. EdgeFits("STOPPED") \/ edges'[t] = edges[t]
      BY <1>1, <2>0, <2>1 DEF EdgeFits
    <3> QED
      BY <1>1, <2>1, <3>1, <3>2
  <2>5. EverythingFits'
    BY <1>1, <1>2, <2>1, <2>4 DEF EverythingFits, CallbackFits, EdgeFits, Engaged, Thread
  <2>6. edges[t] # <<>> => edges'[t] # <<>>
    BY <1>1, <2>1
  <2>7. edges["osc"] # <<>> => edges'["osc"] # <<>>
    BY <1>1, <2>1, <2>6
  <2>8. StartNotLost' /\ StopNotLost'
    BY <1>2, <2>1, <2>7 DEF StartNotLost, StopNotLost, StartComing, StopComing, Running, Queued,
      InDispatch, Engaged, Thread
  <2> QED
    BY <2>2, <2>3, <2>5, <2>8
<1>8. CASE SetStop(t)
  <2>1. /\ pc[t] = "setStop" /\ pc'[t] = (IF edges[t] = <<>> THEN after[t] ELSE "emit")
        /\ \A u \in Thread \ {t} : pc'[u] = pc[u]
        /\ UNCHANGED <<edges, after, signals, wasStart, queue, isRecording>>
        /\ seen' = [seen EXCEPT ![t] = NoSignals]
    BY <1>1, <1>8, Moves DEF SetStop, sharedVars, attributes
  <2>a. after[t] \in {"rest", "liveIdle", "sessionOn", "up"}
    BY <1>1 DEF AfterDispatch
  <2>2. TakingTurns'
    BY <1>2, <1>3, <2>a, <2>1 DEF TakingTurns, Thread, Engaged
  <2>3. ApplyFollows'
    BY <1>1, <2>a, <2>1 DEF ApplyFollows, Engaged, Thread
  <2>4. EverythingFits'
    BY <1>2, <2>a, <2>1 DEF EverythingFits, CallbackFits, EdgeFits, Engaged, Thread
  <2>5. StartNotLost' /\ StopNotLost'
    BY <1>2, <2>1 DEF StartNotLost, StopNotLost, StartComing, StopComing, Running, Queued,
      InDispatch, Engaged, Thread
  <2> QED
    BY <2>2, <2>3, <2>4, <2>5
<1>9. CASE EmitEdge(t)
  <2>1. /\ edges[t] # <<>> /\ pc[t] = "emit"
        /\ pc'[t] = (IF Tail(edges[t]) = <<>> THEN after[t] ELSE "emit")
        /\ \A u \in Thread \ {t} : pc'[u] = pc[u]
        /\ UNCHANGED <<seen, after, signals, wasStart, isRecording>>
        /\ edges' = [edges EXCEPT ![t] = Tail(edges[t])]
        /\ queue' = Append(queue, EdgeCallback(Head(edges[t]), signals))
    BY <1>1, <1>9, Moves DEF EmitEdge, Put, stateMachine
  <2>2. after[t] \in {"rest", "liveIdle", "sessionOn", "up"}
    BY <1>1 DEF AfterDispatch
  <2>3. /\ Head(edges[t]) = edges[t][1] /\ 1 \in 1..Len(edges[t]) /\ Head(edges[t]) \in Edge
        /\ Tail(edges[t]) \in Seq(Edge)
        /\ \A i \in 1..Len(Tail(edges[t])) :
              i + 1 \in 1..Len(edges[t]) /\ Tail(edges[t])[i] = edges[t][i + 1]
    BY <1>1, <2>1
  <2>4. PICK c \in Callback : c.kind = Head(edges[t]) /\ queue' = Append(queue, c)
    BY <1>1, <2>1, <2>3, CallbackType DEF EdgeCallback
  <2>5. CallbackFits(c) /\ \A i \in 1..Len(edges'[t]) : EdgeFits(edges'[t][i])
    <3>1. \A i \in 1..Len(edges[t]) : EdgeFits(edges[t][i])
      BY <1>1, <2>1 DEF EverythingFits
    <3>2. edges'[t] = Tail(edges[t])
      BY <1>1, <2>1
    <3> QED
      BY <2>3, <2>4, <3>1, <3>2 DEF CallbackFits, Edge
  <2>6. TakingTurns'
    BY <1>1, <1>2, <1>3, <2>1, <2>2 DEF TakingTurns, Thread, Engaged
  <2>7. ApplyFollows'
    BY <2>1, <2>2 DEF ApplyFollows, Engaged, Thread
  <2>8. Queued(c.kind)' /\ \A kind : Queued(kind) => Queued(kind)'
    BY <1>1, <2>4, PutQueued
  <2>9. EverythingFits'
    <3>1. \A i \in 1..Len(queue') : CallbackFits(queue'[i])
      BY <1>1, <2>4, <2>5 DEF EverythingFits
    <3>2. (\A i \in 1..Len(queue) : CallbackFits(queue[i]))'
      BY <2>1, <3>1 DEF CallbackFits, EdgeFits, Engaged
    <3>3. \A u \in Thread : pc'[u] \in {"setStart", "compareStop", "setStop", "emit"} =>
             (\A i \in 1..Len(edges[u]) : EdgeFits(edges[u][i]))'
      <4>1. \A u \in Thread \ {t} : edges'[u] = edges[u]
        BY <1>1, <2>1
      <4> QED
        BY <2>1, <2>5, <4>1 DEF EverythingFits, EdgeFits, Engaged
    <3> QED
      BY <1>2, <2>1, <2>2, <3>2, <3>3 DEF EverythingFits, CallbackFits, EdgeFits, Engaged, Thread
  <2>10. t = "osc" /\ Engaged /\ signals.clip => Queued("STARTED")'
    <3>1. Engaged /\ signals.clip => c.kind = "STARTED"
      BY <2>3, <2>4, <2>5 DEF CallbackFits, EdgeFits, Edge
    <3> QED
      BY <2>8, <3>1
  <2>11. StartNotLost'
    BY <1>2, <2>1, <2>2, <2>8, <2>10
    DEF StartNotLost, StartComing, Running, InDispatch, Engaged, Thread
  <2>12. StopNotLost'
    BY <1>2, <2>1, <2>2, <2>8 DEF StopNotLost, StopComing, Running, InDispatch, Engaged, Thread
  <2> QED
    BY <2>6, <2>7, <2>9, <2>11, <2>12
<1> QED
  BY <1>4, <1>5, <1>6, <1>7, <1>8, <1>9 DEF DispatchStep

\* A callback that fits goes into the queue and its thread comes to rest.
LEMMA SessionPut ==
    ASSUME SessionInv, IInv', UNCHANGED recorderVars, NEW t \in {"osc", "poll"}, NEW from,
           from \in {"countInDone", "forceStop", "startTake"}, Goto(t, from, "rest"),
           UNCHANGED <<seen, edges, after, signals, wasStart, isRecording, recordModeOn>>,
           NEW c \in Callback, queue' = Append(queue, c), CallbackFits(c),
           from = "startTake" => c.kind = "STARTED",
           from = "forceStop" => c.kind = "STOPPED"
    PROVE  SessionInv'
<1> USE DEF SessionInv
<1>1. queue \in Seq(Callback) /\ TypeOK /\ t \in Thread
  BY DEF IInv, TypeOK, SharedTypeOK, Thread
<1>2. UNCHANGED <<wpc, job, counted, pendingObsStart, hasStart, obs>>
  BY DEF recorderVars, workerVars, takeVars
<1>3. pc[t] = from /\ pc'[t] = "rest" /\ \A u \in Thread \ {t} : pc'[u] = pc[u]
  BY <1>1, Moves
<1>4. Queued(c.kind)' /\ \A kind : Queued(kind) => Queued(kind)'
  BY <1>1, PutQueued
<1>5. TakingTurns'
  BY <1>2, <1>3 DEF TakingTurns, Thread, Engaged
<1>6. ApplyFollows'
  BY <1>3 DEF ApplyFollows, Engaged, Thread
<1>7. EverythingFits'
  <2>1. \A i \in 1..Len(queue') : CallbackFits(queue'[i])
    BY <1>1 DEF EverythingFits
  <2>2. (\A i \in 1..Len(queue) : CallbackFits(queue[i]))'
    BY <2>1 DEF CallbackFits, EdgeFits, Engaged
  <2> QED
    BY <1>2, <1>3, <2>2 DEF EverythingFits, CallbackFits, EdgeFits, Engaged, Thread
<1>8. StartNotLost'
  BY <1>2, <1>3, <1>4 DEF StartNotLost, StartComing, Running, InDispatch, Engaged, Thread
<1>9. StopNotLost'
  BY <1>2, <1>3, <1>4 DEF StopNotLost, StopComing, Running, InDispatch, Engaged, Thread
<1> QED
  BY <1>5, <1>6, <1>7, <1>8, <1>9

\* The checks that follow a dispatch: with Live idle while OBS records they end in a
\* STOPPED, with a clip recording in an engaged session in a STARTED
\* (osc_client.py, _stop_obs_if_idle and _start_obs_if_session_recording).
LEMMA SessionChecks ==
    ASSUME SessionInv, OscStep \/ PollStep, UNCHANGED recorderVars, IInv'
    PROVE  SessionInv'
<1> USE DEF SessionInv
<1>1. TypeOK /\ signals \in Signals
  BY DEF IInv, TypeOK, ListenerTypeOK
<1>2. UNCHANGED <<wpc, job, counted, pendingObsStart, hasStart, obs>>
  BY DEF recorderVars, workerVars, takeVars
<1>3. ASSUME NEW t \in {"osc", "poll"}, NEW from, NEW to, Goto(t, from, to),
             UNCHANGED <<seen, edges, after, signals, wasStart, queue, isRecording, recordModeOn>>,
             from \in {"liveIdle", "rolling", "disarm", "sessionOn", "obsRolling"},
             to \in {"rest", "rolling", "disarm", "forceStop", "obsRolling", "startTake"},
             from = "liveIdle" =>
                (to = "rolling" /\ ~signals.clip) \/ (to = "rest" /\ signals.clip),
             from = "rolling" => to = "disarm" \/ (to = "rest" /\ ~isRecording),
             from = "disarm" => to = "forceStop",
             from = "sessionOn" =>
                (to = "obsRolling" /\ Engaged) \/ (to = "rest" /\ ~Engaged),
             from = "obsRolling" => to = "startTake" \/ (to = "rest" /\ isRecording)
      PROVE  SessionInv'
  <2>1. pc[t] = from /\ pc'[t] = to /\ \A u \in Thread \ {t} : pc'[u] = pc[u]
    BY <1>1, <1>3, Moves DEF Thread
  <2>2. TakingTurns'
    BY <1>2, <1>3, <2>1 DEF TakingTurns, Thread, Engaged
  <2>3. ApplyFollows'
    BY <1>3, <2>1 DEF ApplyFollows, Engaged, Thread
  <2>4. EverythingFits'
    BY <1>2, <1>3, <2>1 DEF EverythingFits, CallbackFits, EdgeFits, Engaged, Thread
  <2>5. StartNotLost'
    BY <1>2, <1>3, <2>1
    DEF StartNotLost, StartComing, Running, Queued, InDispatch, Engaged, Thread
  <2>6. StopNotLost'
    BY <1>2, <1>3, <2>1
    DEF StopNotLost, StopComing, Running, Queued, InDispatch, Engaged, Thread
  <2> QED
    BY <2>2, <2>3, <2>4, <2>5, <2>6
<1>4. signals.arrangement = 0 /\ (StopActive(signals) <=> signals.clip)
  BY <1>1 DEF TakingTurns, StopActive
<1>5. ASSUME NEW t \in {"osc", "poll"}, CheckLiveIdle(t) PROVE SessionInv'
  BY <1>3, <1>4, <1>5 DEF CheckLiveIdle, stateMachine, sharedVars, attributes
<1>6. ASSUME NEW t \in {"osc", "poll"}, CheckStillRolling(t) PROVE SessionInv'
  BY <1>3, <1>6 DEF CheckStillRolling, stateMachine, sharedVars, attributes
<1>7. ASSUME NEW t \in {"osc", "poll"}, Disarm(t) PROVE SessionInv'
  BY <1>3, <1>7 DEF Disarm, sharedVars, attributes
<1>8. ASSUME NEW t \in {"osc", "poll"}, ForceStop(t) PROVE SessionInv'
  <2> DEFINE c == EdgeCallback("STOPPED", signals)
  <2>1. c \in Callback /\ c.kind = "STOPPED"
    BY <1>1, CallbackType DEF EdgeCallback, Edge
  <2>2. Goto(t, "forceStop", "rest") /\ queue' = Append(queue, c)
        /\ UNCHANGED <<seen, edges, after, signals, wasStart, isRecording, recordModeOn>>
    BY <1>8 DEF ForceStop, Put, stateMachine, attributes
  <2>3. CallbackFits(c)
    BY <2>1, <2>2 DEF EverythingFits, CallbackFits, EdgeFits, Goto, Thread
  <2> HIDE DEF c
  <2> QED
    BY <2>1, <2>2, <2>3, SessionPut
<1>9. CASE CheckSessionOn \/ CheckNotRolling
  BY <1>3, <1>9 DEF CheckSessionOn, CheckNotRolling, stateMachine, sharedVars, attributes, Engaged
<1>10. CASE StartTake
  <2> DEFINE c == EdgeCallback("STARTED", signals)
  <2>1. c \in Callback /\ c.kind = "STARTED"
    BY <1>1, CallbackType DEF EdgeCallback, Edge
  <2>2. Goto("poll", "startTake", "rest") /\ queue' = Append(queue, c)
        /\ UNCHANGED <<seen, edges, after, signals, wasStart, isRecording, recordModeOn>>
    BY <1>10 DEF StartTake, Put, stateMachine, attributes
  <2>3. CallbackFits(c)
    BY <2>1, <2>2 DEF EverythingFits, CallbackFits, EdgeFits, Goto
  <2> HIDE DEF c
  <2> QED
    BY <2>1, <2>2, <2>3, SessionPut
<1>11. CASE EmitCountInFinished
  <2> DEFINE c == CountInFinishedCallback(signals)
  <2>1. c \in Callback /\ c.kind = "COUNT_IN_FINISHED" /\ (c.on <=> Engaged)
    <3>1. StartActive(signals) <=> Engaged
      BY <1>4 DEF StartActive, Engaged
    <3>2. c \in Callback
      BY <1>1, CallbackType
    <3>3. c.kind = "COUNT_IN_FINISHED" /\ c.on = StartActive(signals)
      BY DEF CountInFinishedCallback
    <3> HIDE DEF c
    <3> QED
      BY <3>1, <3>2, <3>3
  <2>2. Goto("osc", "countInDone", "rest") /\ queue' = Append(queue, c)
        /\ UNCHANGED <<seen, edges, after, signals, wasStart, isRecording, recordModeOn>>
    BY <1>11 DEF EmitCountInFinished, Put, stateMachine, attributes
  <2>3. CallbackFits(c)
    BY <2>1 DEF CallbackFits, Edge
  <2> HIDE DEF c
  <2> QED
    BY <2>1, <2>2, <2>3, SessionPut
<1>12. CASE StampRecordMode
  <2>1. /\ pc["osc"] = "modeOff" /\ pc'["osc"] = "snapshot"
        /\ \A u \in Thread \ {"osc"} : pc'[u] = pc[u]
        /\ ~recordModeOn'
        /\ UNCHANGED <<seen, edges, after, signals, wasStart, queue, isRecording>>
    BY <1>1, <1>12, Moves DEF StampRecordMode, TakingTurns, stateMachine, Thread
  <2>2. TakingTurns'
    BY <1>2, <2>1 DEF TakingTurns, Thread, Engaged
  <2>3. ApplyFollows'
    BY <2>1 DEF ApplyFollows, Engaged, Thread
  <2>4. EverythingFits'
    BY <1>2, <2>1 DEF EverythingFits, CallbackFits, EdgeFits, Engaged, Thread
  <2>5. StartNotLost' /\ StopNotLost'
    BY <1>2, <2>1
    DEF StartNotLost, StopNotLost, StartComing, StopComing, Running, Queued, InDispatch,
        Engaged, Thread
  <2> QED
    BY <2>2, <2>3, <2>4, <2>5
<1> QED
  BY <1>5, <1>6, <1>7, <1>8, <1>9, <1>10, <1>11, <1>12 DEF OscStep, PollStep

\* The boot sync: the session is not known to be engaged, so it announces nothing.
LEMMA SessionBoot ==
    ASSUME SlowSessions, SessionInv, BootStep, UNCHANGED recorderVars, IInv'
    PROVE  SessionInv'
<1> USE DEF SessionInv
<1>1. /\ TypeOK /\ signals \in Signals /\ seen \in [Thread -> Signals]
      /\ edges \in [Thread -> Seq(Edge)] /\ "main" \in Thread
  BY DEF IInv, TypeOK, ListenerTypeOK, Thread
<1>2. UNCHANGED <<wpc, job, counted, pendingObsStart, hasStart, obs, recordModeOn>>
  BY DEF recorderVars, workerVars, takeVars, BootStep, BootScan, BootSnapshot, BootCompare,
         BootSetStart, BootSetStop, sharedVars, attributes
<1>3. ASSUME NEW from, NEW to, Goto("main", from, to),
             from \in {"scan", "bootSnapshot", "bootCompare", "bootStop"},
             to \in {"bootSnapshot", "bootCompare", "bootStop", "up"},
             UNCHANGED <<wasStart, queue, isRecording>>, edges' = edges,
             signals'.session = signals.session, signals'.arrangement = signals.arrangement,
             to \in {"bootCompare", "bootStop"} => seen'["main"] = signals',
             \A t \in {"osc", "poll"} : seen'[t] = seen[t] /\ after'[t] = after[t]
      PROVE  SessionInv'
  <2>1. pc["main"] = from /\ pc'["main"] = to /\ \A u \in Thread \ {"main"} : pc'[u] = pc[u]
    BY <1>1, <1>3, Moves
  <2>2. /\ pc["osc"] = "rest" /\ pc["poll"] = "rest" /\ queue = <<>> /\ wpc = "get"
        /\ ~isRecording /\ ~Engaged /\ pc'["osc"] = "rest" /\ pc'["poll"] = "rest"
    BY <1>3, <2>1 DEF TakingTurns, Thread
  <2>3. TakingTurns'
    BY <1>2, <1>3, <2>1, <2>2 DEF TakingTurns, Thread, Engaged
  <2>4. ApplyFollows'
    BY <1>3, <2>1, <2>2 DEF ApplyFollows, Engaged, Thread
  <2>5. EverythingFits'
    BY <1>2, <1>3, <2>1, <2>2 DEF EverythingFits, Thread
  <2>6. StartNotLost' /\ StopNotLost'
    BY <1>3, <2>2 DEF StartNotLost, StopNotLost, Engaged
  <2> QED
    BY <2>3, <2>4, <2>5, <2>6
<1>4. ASSUME NEW clip \in ClipScans, BootScan(clip) PROVE SessionInv'
  <2>1. signals'.session = signals.session /\ signals'.arrangement = signals.arrangement
    BY <1>1, <1>4 DEF BootScan, Signals, SignalsOf
  <2> QED
    BY <1>3, <1>4, <2>1 DEF BootScan, stateMachine, sharedVars, attributes
<1>5. CASE BootSnapshot
  <2>1. /\ seen'["main"] = signals
        /\ \A t \in {"osc", "poll"} : seen'[t] = seen[t] /\ after'[t] = after[t]
    BY <1>1, <1>5 DEF BootSnapshot, IInv, TypeOK, ListenerTypeOK, Thread
  <2> QED
    BY <1>3, <1>5, <2>1 DEF BootSnapshot, stateMachine, sharedVars, attributes
<1>6. CASE BootCompare
  <2>1. seen["main"] = signals /\ ~Engaged /\ signals.arrangement = 0 /\ edges["main"] = <<>>
    BY <1>1, <1>6 DEF BootCompare, Goto, ApplyFollows, TakingTurns
  <2>2. ~StartActive(seen["main"])
    BY <2>1 DEF StartActive, Engaged
  <2>3. Goto("main", "bootCompare", "bootStop") /\ edges' = edges
    BY <1>1, <1>6, <2>1, <2>2 DEF BootCompare
  <2> QED
    BY <1>3, <1>6, <2>1, <2>3 DEF BootCompare, stateMachine, sharedVars, attributes
<1>7. CASE BootSetStart
  BY <1>7 DEF BootSetStart, Goto, TakingTurns
<1>8. CASE BootSetStop
  <2>1. Goto("main", "bootStop", "up")
    BY <1>8 DEF BootSetStop, TakingTurns
  <2>2. \A t \in {"osc", "poll"} : seen'[t] = seen[t]
    BY <1>1, <1>8 DEF BootSetStop, Thread
  <2> QED
    BY <1>3, <1>8, <2>1, <2>2 DEF BootSetStop, sharedVars, attributes
<1> QED
  BY <1>4, <1>5, <1>6, <1>7, <1>8 DEF BootStep

\* A step of the listener.
LEMMA SessionListener == ASSUME SlowSessions, SessionInv, ListenerNext PROVE SessionInv'
<1>1. IInv' /\ UNCHANGED recorderVars
  BY ListenerIInv DEF SessionInv, ListenerNext
<1>2. CASE OscStep \/ PollStep
  BY <1>1, <1>2, SessionChecks
<1>3. CASE BootStep
  BY <1>1, <1>3, SessionBoot
<1>4. ASSUME NEW t \in {"osc", "poll"}, DispatchStep(t) PROVE SessionInv'
  BY <1>1, <1>4, SessionDispatch
<1>5. CASE DispatchStep("main")
  BY <1>5 DEF SessionInv, TakingTurns, DispatchStep, Snapshot, CompareStart, SetStart,
              CompareStop, SetStop, EmitEdge, Goto
<1> QED
  BY <1>2, <1>3, <1>4, <1>5 DEF ListenerNext, ListenerStep, Thread

\* Live moves when the bridge has caught up: nothing but its news is on its way then.
LEMMA SessionLive == ASSUME SlowSessions, SessionInv, LiveNext PROVE SessionInv'
<1> USE DEF SessionInv
<1>1. IInv'
  BY ListenerIInv
<1>2. /\ TypeOK /\ signals \in Signals /\ pc \in [Thread -> Place]
      /\ after \in [Thread -> AfterDispatch]
  BY DEF IInv, TypeOK, ListenerTypeOK
<1>3. /\ pc["osc"] = "rest" /\ pc["poll"] = "rest" /\ pc["main"] = "up"
      /\ queue = <<>> /\ wpc = "get"
  BY DEF LiveNext, SlowSessions, Settled, ListenerAtRest, Thread
<1>4. /\ UNCHANGED <<queue, isRecording, recordModeOn, seen, edges, stateMachine, wpc, job,
                      pendingObsStart, obs>>
      /\ obs # "orphan"
  BY <1>3 DEF LiveNext, LiveInput, OscRecordMode, OscSessionStatus, OscCountingIn, PollScan,
         CallDispatch, recorderVars, workerVars, takeVars, sharedVars, attributes, TakingTurns
<1>5. wasStart => Engaged
  BY <1>3 DEF ApplyFollows
<1>6. /\ Engaged /\ signals.clip => isRecording \/ pendingObsStart
      /\ ~Engaged /\ ~signals.clip => ~isRecording
  BY <1>3 DEF StartNotLost, StopNotLost, StartComing, StopComing, Running, Queued, InDispatch
<1>7. ASSUME NEW t \in {"osc", "poll"}, NEW to \in {"rest", "modeOff", "snapshot", "countInDone"},
             pc'[t] = to, \A u \in Thread \ {t} : pc'[u] = pc[u],
             signals'.arrangement = 0, wasStart /\ ~Engaged' => to \in {"modeOff", "snapshot"},
             StartNotLost', StopNotLost'
      PROVE  SessionInv'
  <2>1. TakingTurns'
    BY <1>3, <1>4, <1>7 DEF TakingTurns, Thread
  <2>2. ApplyFollows'
    BY <1>3, <1>4, <1>7 DEF ApplyFollows, Thread, stateMachine
  <2>3. EverythingFits'
    BY <1>3, <1>4, <1>7 DEF EverythingFits, Thread
  <2> QED
    BY <1>1, <1>7, <2>1, <2>2, <2>3
<1>8. ASSUME NEW value \in Arrangements, OscRecordMode(value) PROVE SessionInv'
  <2>1. /\ pc'["osc"] = "modeOff" /\ \A u \in Thread \ {"osc"} : pc'[u] = pc[u]
        /\ signals' = signals
    BY <1>2, <1>8, Moves
    DEF OscRecordMode, SlowSessions, TakingTurns, Signals, SignalsOf, Thread
  <2>2. StartNotLost' /\ StopNotLost'
    BY <1>4, <1>6, <2>1 DEF StartNotLost, StopNotLost, StartComing, Engaged
  <2> QED
    BY <1>5, <1>7, <2>1, <2>2 DEF TakingTurns, Engaged
<1>9. ASSUME NEW value \in Sessions, OscSessionStatus(value) PROVE SessionInv'
  <2>1. /\ pc'["osc"] = "snapshot" /\ \A u \in Thread \ {"osc"} : pc'[u] = pc[u]
        /\ signals'.session = value /\ signals'.clip = signals.clip /\ signals'.arrangement = 0
        /\ after'["osc"] = IF value = 0 /\ Engaged THEN "liveIdle" ELSE "rest"
    BY <1>2, <1>9, Moves
    DEF OscSessionStatus, CallDispatch, TakingTurns, Signals, SignalsOf, Thread, Engaged
  <2>2. StartNotLost'
    BY <1>4, <1>5, <1>6, <2>1 DEF StartNotLost, StartComing, Engaged, stateMachine
  <2>3. StopNotLost'
    BY <1>4, <1>6, <2>1 DEF StopNotLost, StopComing, InDispatch, Engaged
  <2> QED
    BY <1>7, <2>1, <2>2, <2>3
<1>10. ASSUME NEW value \in CountIns, OscCountingIn(value) PROVE SessionInv'
  <2>1. /\ pc'["osc"] \in {"rest", "countInDone"} /\ \A u \in Thread \ {"osc"} : pc'[u] = pc[u]
        /\ signals' = signals
    BY <1>2, <1>10, Moves DEF OscCountingIn, Thread
  <2>2. StartNotLost' /\ StopNotLost'
    BY <1>4, <1>6, <2>1 DEF StartNotLost, StopNotLost, StartComing, Engaged
  <2> QED
    BY <1>5, <1>7, <2>1, <2>2 DEF TakingTurns, Engaged
<1>11. ASSUME NEW clip \in ClipScans, PollScan(clip) PROVE SessionInv'
  <2>1. /\ pc'["poll"] = "snapshot" /\ \A u \in Thread \ {"poll"} : pc'[u] = pc[u]
        /\ signals'.session = signals.session /\ signals'.clip = clip /\ signals'.arrangement = 0
        /\ after'["poll"] = IF clip THEN "sessionOn" ELSE "liveIdle"
    BY <1>2, <1>11, Moves DEF PollScan, CallDispatch, TakingTurns, Signals, SignalsOf, Thread
  <2>2. StartNotLost'
    BY <2>1 DEF StartNotLost, StartComing, InDispatch
  <2>3. StopNotLost'
    BY <2>1 DEF StopNotLost, StopComing, InDispatch
  <2> QED
    BY <1>5, <1>7, <2>1, <2>2, <2>3 DEF Engaged
<1> QED
  BY <1>8, <1>9, <1>10, <1>11 DEF LiveNext, LiveInput

\* The first callback of the queue still fits when the worker takes it.
LEMMA SessionGet ==
    ASSUME SessionInv, GetCallback, UNCHANGED listenerVars, IInv'
    PROVE  SessionInv'
<1> USE DEF SessionInv
<1>1. queue \in Seq(Callback) /\ queue # <<>>
  BY DEF GetCallback, IInv, TypeOK, SharedTypeOK
<1>2. /\ wpc = "get" /\ wpc' = "run" /\ job' = Head(queue) /\ queue' = Tail(queue)
      /\ UNCHANGED <<obs, pendingObsStart, isRecording, recordModeOn>>
  BY DEF GetCallback, takeVars, attributes
<1>3. UNCHANGED <<signals, wasStart, pc, seen, edges, after>>
  BY DEF listenerVars, localVars, stateMachine
<1>4. /\ Head(queue) = queue[1] /\ 1 \in 1..Len(queue)
      /\ \A i \in 1..Len(Tail(queue)) :
            i + 1 \in 1..Len(queue) /\ Tail(queue)[i] = queue[i + 1]
  BY <1>1
<1>5. TakingTurns'
  BY <1>1, <1>2, <1>3 DEF TakingTurns, Engaged
<1>6. ApplyFollows'
  BY <1>3 DEF ApplyFollows, Engaged
<1>7. EverythingFits'
  <2>1. \A i \in 1..Len(queue) : CallbackFits(queue[i])
    BY DEF EverythingFits
  <2>2. (\A i \in 1..Len(queue) : CallbackFits(queue[i]))' /\ CallbackFits(job)'
    BY <1>2, <1>3, <1>4, <2>1 DEF CallbackFits, EdgeFits, Engaged
  <2> QED
    BY <1>2, <1>3, <2>2 DEF EverythingFits, EdgeFits, Engaged
<1>8. \A kind : Queued(kind) => Queued(kind)' \/ Running(kind)'
  <2> SUFFICES ASSUME NEW kind, NEW i \in 1..Len(queue), queue[i].kind = kind
               PROVE  Queued(kind)' \/ Running(kind)'
    BY DEF Queued
  <2>1. CASE i = 1
    BY <1>2, <1>4, <2>1 DEF Running
  <2>2. CASE i # 1
    <3>1. i - 1 \in 1..Len(queue') /\ queue'[i - 1] = queue[i]
      BY <1>1, <1>2, <2>2
    <3> QED
      BY <3>1 DEF Queued
  <2> QED
    BY <2>1, <2>2
<1>9. ~Running("STARTED") /\ ~Running("STOPPED")
  BY <1>2 DEF Running
<1>10. StartNotLost'
  BY <1>2, <1>3, <1>8, <1>9 DEF StartNotLost, StartComing, InDispatch, Engaged
<1>11. StopNotLost'
  BY <1>2, <1>3, <1>8, <1>9 DEF StopNotLost, StopComing, InDispatch, Engaged
<1> QED
  BY <1>5, <1>6, <1>7, <1>10, <1>11

\* What the recorder makes of a callback: a STARTED ends in a take or a pending start,
\* a STOPPED ends the take (recorder.py, _on_live_start, on_count_in_finished, _on_stop).
LEMMA SessionWorker == ASSUME SlowSessions, SessionInv, RecorderNext PROVE SessionInv'
<1>1. IInv'
  BY RecorderIInv DEF SessionInv
<1>2. UNCHANGED <<signals, wasStart, pc, seen, edges, after>>
  BY DEF RecorderNext, listenerVars, localVars, stateMachine
<1>3. CASE GetCallback
  BY <1>1, <1>3, SessionGet DEF RecorderNext
<1> USE DEF SessionInv
<1>4. wpc # "get" => pc["main"] = "up" /\ obs # "orphan" /\ ~recordModeOn /\ wpc # "lag"
  BY DEF TakingTurns
<1>5. /\ obs = "take" => isRecording \/ wpc = "started"
      /\ wpc \in {"start", "started"} => ~isRecording
      /\ wpc = "run" => job \in Callback
      /\ wpc \in {"stop", "stopped"} => isRecording
      /\ obs \in {"idle", "take", "orphan"}
  BY DEF IInv, RecorderMatchesObs, WorkerPlaces, DriftNeedsFault, TypeOK, RecorderTypeOK,
         ObsState, SlowSessions
<1>6. ASSUME wpc # "get", queue' = queue, obs' # "orphan", wpc' \notin {"run", "lag"},
             recordModeOn' = recordModeOn,
             wpc' \in {"fetch", "decide", "start", "started"} => Engaged,
             wpc' \in {"stop", "stopped", "finalize"} => ~signals.clip,
             Engaged /\ signals.clip /\ (isRecording \/ pendingObsStart \/ Running("STARTED")
                    \/ wpc \in {"fetch", "decide", "start", "started"}) =>
                \/ isRecording' \/ pendingObsStart'
                \/ wpc' \in {"fetch", "decide", "start", "started"},
             ~Engaged /\ ~signals.clip /\ isRecording' =>
                isRecording /\ (wpc \in {"stop", "stopped"} \/ Running("STOPPED") =>
                                    wpc' \in {"stop", "stopped"})
      PROVE  SessionInv'
  <2>1. TakingTurns'
    BY <1>2, <1>4, <1>6 DEF TakingTurns
  <2>2. ApplyFollows'
    BY <1>2 DEF ApplyFollows, Engaged
  <2>3. EverythingFits'
    BY <1>2, <1>6 DEF EverythingFits, CallbackFits, EdgeFits, Engaged
  <2>4. StartNotLost'
    BY <1>2, <1>6 DEF StartNotLost, StartComing, Queued, InDispatch, Engaged
  <2>5. StopNotLost'
    BY <1>2, <1>6 DEF StopNotLost, StopComing, Queued, InDispatch, Engaged
  <2> QED
    BY <1>1, <2>1, <2>2, <2>3, <2>4, <2>5
<1>7. wpc = "run" => CallbackFits(job) /\ job.kind \in {"STARTED", "STOPPED", "COUNT_IN_FINISHED"}
  BY <1>5 DEF EverythingFits, Callback, CallbackKind, Edge
<1>8. /\ Running("STARTED") => Engaged
      /\ Running("STOPPED") => ~signals.clip
      /\ Running("COUNT_IN_FINISHED") => (job.on <=> Engaged)
  BY <1>7 DEF Running, CallbackFits, EdgeFits, Edge
<1>9. /\ wpc \in {"fetch", "decide", "start", "started"} => Engaged
      /\ wpc \in {"stop", "stopped", "finalize"} => ~signals.clip
  BY DEF EverythingFits
<1>10. wpc = "start" => obs = "idle"
  BY <1>4, <1>5
<1> USE DEF Step, Done, BeginStart, Running, sharedVars, attributes, takeVars
<1>11. CASE IgnoreStart \/ StartArrangement \/ ProbeCountIn
  BY <1>4, <1>6, <1>8, <1>11 DEF IgnoreStart, StartArrangement, ProbeCountIn
<1>12. CASE FetchCountIn \/ DeferStart \/ StartSession
  BY <1>4, <1>6, <1>9, <1>12 DEF FetchCountIn, DeferStart, StartSession
<1>13. CASE IgnoreCountInFinished \/ CancelPendingStart \/ StartAfterCountIn
  BY <1>4, <1>6, <1>8, <1>13 DEF IgnoreCountInFinished, CancelPendingStart, StartAfterCountIn
<1>21. ~MeasureLag /\ ~LagRaises
  BY <1>4 DEF MeasureLag, LagRaises
<1>14. CASE ObsStarts
  BY <1>6, <1>9, <1>14 DEF ObsStarts
<1>15. CASE ObsStartFails
  BY <1>10, <1>15 DEF ObsStartFails, SlowSessions
<1>16. CASE StartReturns
  BY <1>4, <1>6, <1>9, <1>16 DEF StartReturns
<1>17. CASE IgnoreStop \/ BeginStop
  BY <1>4, <1>6, <1>8, <1>17 DEF IgnoreStop, BeginStop
<1>18. CASE ObsStops
  BY <1>5, <1>6, <1>9, <1>18 DEF ObsStops
<1>19. CASE ObsStopFails
  BY <1>19 DEF ObsStopFails, SlowSessions
<1>20. CASE StopReturns \/ Finalized
  BY <1>4, <1>6, <1>9, <1>20 DEF StopReturns, Finalized
<1> QED
  BY <1>3, <1>11, <1>12, <1>13, <1>14, <1>15, <1>16, <1>17, <1>18, <1>19, <1>20, <1>21
  DEF RecorderNext, RecorderStep

\* Boot finds nothing on its way; OBS is stopped before Live is listened to.
LEMMA SessionOrphan == ASSUME SlowSessions, SessionInv, StopOrphan PROVE SessionInv'
<1> USE DEF SessionInv
<1>1. IInv'
  BY OrphanIInv
<1>2. /\ obs' = "idle"
      /\ UNCHANGED <<queue, isRecording, recordModeOn, wpc, job, pendingObsStart, seen, edges,
                     after, signals, wasStart>>
  BY DEF StopOrphan, SlowSessions, workerVars, takeVars, sharedVars, attributes, stateMachine
<1>3. pc["main"] = "orphan" /\ pc'["main"] = "scan" /\ \A u \in Thread \ {"main"} : pc'[u] = pc[u]
  BY Moves DEF StopOrphan, IInv, Thread
<1>4. TakingTurns'
  BY <1>2, <1>3 DEF TakingTurns, Thread, Engaged
<1>5. ApplyFollows'
  BY <1>2, <1>3 DEF ApplyFollows, Thread, Engaged
<1>6. EverythingFits'
  BY <1>2, <1>3 DEF EverythingFits, TakingTurns, Thread
<1>7. StartNotLost' /\ StopNotLost'
  BY <1>2, <1>3 DEF StartNotLost, StopNotLost, TakingTurns, Engaged
<1> QED
  BY <1>1, <1>4, <1>5, <1>6, <1>7

\* A bridge that has just begun, for the first time or after a crash.
LEMMA SessionFresh ==
    ASSUME IInv, \A t \in Thread : pc[t] = (IF t = "main" THEN "orphan" ELSE "rest"),
           \A t \in Thread : edges[t] = <<>>, signals = NoSignals, ~wasStart, ~recordModeOn
    PROVE  SessionInv
<1>1. pc["main"] = "orphan" /\ pc["osc"] = "rest" /\ pc["poll"] = "rest" /\ edges["main"] = <<>>
  BY DEF Thread
<1>2. queue = <<>> /\ wpc = "get" /\ ~isRecording
  BY <1>1 DEF IInv, OrphanCheckFirst
<1>3. signals.arrangement = 0 /\ ~Engaged /\ ~signals.clip
  BY DEF NoSignals, Engaged
<1>4. TakingTurns
  BY <1>1, <1>2, <1>3 DEF TakingTurns
<1>5. ApplyFollows
  BY <1>1 DEF ApplyFollows, Thread
<1>6. EverythingFits
  BY <1>1, <1>2 DEF EverythingFits, Thread
<1>7. StartNotLost /\ StopNotLost
  BY <1>2, <1>3 DEF StartNotLost, StopNotLost
<1> QED
  BY <1>4, <1>5, <1>6, <1>7 DEF SessionInv

\* The first bridge.
LEMMA InitSessionInv == Init => SessionInv
<1> SUFFICES ASSUME Init PROVE SessionInv
  OBVIOUS
<1>1. IInv
  BY InitIInv
<1> QED
  BY <1>1, SessionFresh DEF Init, SharedInit, ListenerInit

\* The next one.
LEMMA SessionCrash == ASSUME SessionInv, CrashAndRestart PROVE SessionInv'
<1>1. IInv'
  BY CrashIInv, TypeKept DEF SessionInv, IInv, Next
<1>2. /\ pc'["main"] = "orphan" /\ pc'["osc"] = "rest" /\ pc'["poll"] = "rest"
      /\ edges'["main"] = <<>>
      /\ queue' = <<>> /\ wpc' = "get" /\ ~isRecording' /\ ~wasStart'
      /\ ~recordModeOn' /\ signals'.arrangement = 0 /\ ~Engaged' /\ ~signals'.clip
  BY DEF CrashAndRestart, Thread, NoSignals, Engaged
<1>3. TakingTurns'
  BY <1>2 DEF TakingTurns
<1>4. ApplyFollows'
  BY <1>2 DEF ApplyFollows, Thread
<1>5. EverythingFits'
  BY <1>2 DEF EverythingFits, Thread
<1>6. StartNotLost' /\ StopNotLost'
  BY <1>2 DEF StartNotLost, StopNotLost
<1> QED
  BY <1>1, <1>3, <1>4, <1>5, <1>6 DEF SessionInv

\* No step breaks the invariant.
LEMMA SessionInductive == ASSUME SlowSessions PROVE SessionInv /\ [Next]_vars => SessionInv'
<1> SUFFICES ASSUME SessionInv, [Next]_vars PROVE SessionInv'
  OBVIOUS
<1>1. CASE LiveNext
  BY <1>1, SessionLive
<1>2. CASE ListenerNext
  BY <1>2, SessionListener
<1>3. CASE RecorderNext
  BY <1>3, SessionWorker
<1>4. CASE StopOrphan
  BY <1>4, SessionOrphan
<1>5. CASE CrashAndRestart
  BY <1>5, SessionCrash
<1>6. CASE UNCHANGED vars
  <2>1. IInv'
    BY Inductive DEF SessionInv
  <2>2. UNCHANGED <<signals, wasStart, pc, seen, edges, after, queue, wpc, job, isRecording,
                    recordModeOn, pendingObsStart, obs>>
    BY <1>6 DEF vars, sharedVars, attributes, listenerVars, localVars, stateMachine, recorderVars,
       workerVars, takeVars
  <2>3. TakingTurns' /\ ApplyFollows'
    BY <2>2 DEF SessionInv, TakingTurns, ApplyFollows, Engaged
  <2>4. EverythingFits'
    BY <2>2 DEF SessionInv, EverythingFits, CallbackFits, EdgeFits, Engaged
  <2>5. StartNotLost' /\ StopNotLost'
    BY <2>2 DEF SessionInv, StartNotLost, StopNotLost, StartComing, StopComing, Running,
       Queued, InDispatch, Engaged
  <2> QED
    BY <2>1, <2>3, <2>4, <2>5 DEF SessionInv
<1> QED
  BY <1>1, <1>2, <1>3, <1>4, <1>5, <1>6 DEF Next

\* While Live waits for the bridge, every start and every stop it calls for stays on
\* its way (osc_client.py and recorder.py between two inputs).
THEOREM SessionFollowed == ASSUME SlowSessions PROVE Spec => []SessionInv
<1>1. SessionInv /\ [Next]_vars => SessionInv'
  BY SessionInductive
<1> QED
  BY <1>1, InitSessionInv, PTL DEF Spec

\* SYNC.md:112, for a user slower than the bridge: a clip that records in an engaged
\* session is filmed, or its start is deferred for the count-in.
THEOREM ClipFilmed == ASSUME SlowSessions PROVE Spec => []RecordingClipFilmed
<1>1. SessionInv => RecordingClipFilmed
  <2> SUFFICES ASSUME SessionInv, Settled, Engaged, signals.clip
               PROVE  obs = "take" \/ pendingObsStart
    BY DEF RecordingClipFilmed, Engaged
  <2>1. pc["osc"] = "rest" /\ pc["poll"] = "rest" /\ queue = <<>> /\ wpc = "get"
    BY DEF Settled, ListenerAtRest, Thread
  <2>2. isRecording \/ pendingObsStart
    BY <2>1 DEF SessionInv, StartNotLost, StartComing, Running, Queued, InDispatch
  <2> QED
    BY <2>1, <2>2 DEF SessionInv, IInv, RecorderMatchesObs, DriftNeedsFault, SlowSessions
<1>2. SessionInv /\ [Next]_vars => SessionInv'
  BY SessionInductive
<1> QED
  BY <1>1, <1>2, InitSessionInv, PTL DEF Spec

\* DESIGN.md:101, for the same user: OBS does not roll on with Live idle.
THEOREM IdleStopsObs == ASSUME SlowSessions PROVE Spec => []IdleLiveStopsObs
<1>1. SessionInv => IdleLiveStopsObs
  <2> SUFFICES ASSUME SessionInv, Settled, ~Engaged, ~signals.clip PROVE ~Rolling
    BY DEF IdleLiveStopsObs, StartActive, StopActive, Engaged
  <2>1. pc["osc"] = "rest" /\ pc["poll"] = "rest" /\ queue = <<>> /\ wpc = "get"
    BY DEF Settled, ListenerAtRest, Thread
  <2>2. ~isRecording
    BY <2>1 DEF SessionInv, StopNotLost, StopComing, Running, Queued, InDispatch
  <2>3. pc["main"] # "orphan"
    BY DEF Settled, ListenerAtRest, Thread
  <2> QED
    BY <2>1, <2>2, <2>3
    DEF SessionInv, IInv, RecorderMatchesObs, DriftNeedsFault, Rolling, SlowSessions
<1>2. SessionInv /\ [Next]_vars => SessionInv'
  BY SessionInductive
<1> QED
  BY <1>1, <1>2, InitSessionInv, PTL DEF Spec
=============================================================================
