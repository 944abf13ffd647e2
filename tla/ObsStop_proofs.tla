-------------------------- MODULE ObsStop_proofs --------------------------
(***************************************************************************)
(* Module ObsStop for every number of attempts: the recorder lets go of a   *)
(* take only when OBS has stopped, has no outcomes but StopOutcome's, and   *)
(* each step of its two loops uses up a part of what is left of them.       *)
(***************************************************************************)
EXTENDS ObsStop, TLAPS

\* The counters stay within their bounds.
Counters ==
    /\ attempt \in 1..StopRecordAttempts
    /\ round \in 1..StopFinalizeAttempts

Flags ==
    /\ rolling \in BOOLEAN
    /\ isRecording \in BOOLEAN
    /\ pc \in Place
    /\ staged \in BOOLEAN

\* A file is looked for, and found, only once OBS has stopped.
StoppedFirst ==
    /\ pc = "resolve" => ~rolling
    /\ pc = "returned" /\ staged => ~rolling
    /\ ~isRecording => ~rolling /\ pc = "done"

IInv == Counters /\ Flags /\ StoppedFirst

\* When _on_stop calls _stop_obs_with_retries, IInv holds.
LEMMA InitIInv == Init => IInv
<1> SUFFICES ASSUME Init PROVE IInv
  OBVIOUS
<1>1. Counters
  BY AttemptsAssumption DEF Init, Counters
<1>2. Flags /\ StoppedFirst
  BY DEF Init, Flags, StoppedFirst, Place
<1> QED
  BY <1>1, <1>2 DEF IInv

\* The two retry loops keep their counters in range (obs_client.py:131-156,
\* recorder.py:219-232).
LEMMA CountersKept == Counters /\ [Next]_vars => Counters'
<1> SUFFICES ASSUME Counters, [Next]_vars PROVE Counters'
  OBVIOUS
<1> USE AttemptsAssumption DEF Counters
<1>1. CASE UNCHANGED <<attempt, round>>
  BY <1>1
<1>2. CASE RetryRequest
  BY <1>2 DEF RetryRequest, outside
<1>3. CASE StillRecording
  BY <1>3 DEF StillRecording
<1> QED
  BY <1>1, <1>2, <1>3
  DEF Next, vars, loops, StopAnswered, StopRaises, StoppedAfterAll, StatusFails,
      RequestsExhausted, ResolveFile, ResolveRaises, FileReturned, NoFileReturned, VerifiedStopped

\* Every step of the stop handler keeps IInv: a file is resolved only after OBS
\* has stopped.
LEMMA Inductive == IInv /\ [Next]_vars => IInv'
<1> SUFFICES ASSUME IInv, [Next]_vars PROVE Flags' /\ StoppedFirst'
  BY CountersKept DEF IInv
<1> USE DEF IInv, Flags, StoppedFirst, Place, Goto, Return, outside, loops
<1>1. CASE StopAnswered
  BY <1>1 DEF StopAnswered
<1>2. CASE StopRaises
  BY <1>2 DEF StopRaises
<1>3. CASE StoppedAfterAll
  BY <1>3 DEF StoppedAfterAll
<1>4. CASE StatusFails
  BY <1>4 DEF StatusFails
<1>5. CASE RetryRequest
  BY <1>5 DEF RetryRequest
<1>6. CASE RequestsExhausted
  BY <1>6 DEF RequestsExhausted
<1>7. CASE ResolveFile \/ ResolveRaises
  BY <1>7 DEF ResolveFile, ResolveRaises
<1>8. CASE FileReturned
  BY <1>8 DEF FileReturned
<1>9. CASE NoFileReturned
  BY <1>9 DEF NoFileReturned
<1>10. CASE VerifiedStopped
  BY <1>10 DEF VerifiedStopped
<1>11. CASE StillRecording
  BY <1>11 DEF StillRecording
<1>12. CASE UNCHANGED vars
  BY <1>12 DEF vars
<1> QED
  BY <1>1, <1>2, <1>3, <1>4, <1>5, <1>6, <1>7, <1>8, <1>9, <1>10, <1>11, <1>12
  DEF Next

\* IInv holds throughout the stop handler.
LEMMA Invariant == Spec => []IInv
BY InitIInv, Inductive, PTL DEF Spec

\* The types and bounds of ObsStop.
THEOREM TypeCorrect == Spec => []TypeOK
<1>1. IInv => TypeOK
  BY DEF IInv, Counters, Flags, TypeOK
<1> QED
  BY <1>1, Invariant, PTL

\* recorder.py:222-226: is_recording is cleared only when OBS has stopped.
THEOREM Released == Spec => []ReleasedMeansStopped
<1>1. IInv => ReleasedMeansStopped
  BY DEF IInv, StoppedFirst, ReleasedMeansStopped
<1> QED
  BY <1>1, Invariant, PTL

\* Every step of the stop handler is a step of StopOutcome or none
\* (recorder.py:217-235 with obs_client.py:125-177).
LEMMA StepRefines == IInv /\ [Next]_vars => [Abstract!Next]_<<rolling, isRecording, pc # "done">>
<1> SUFFICES ASSUME IInv, [Next]_vars
             PROVE  [Abstract!Next]_<<rolling, isRecording, pc # "done">>
  OBVIOUS
<1> USE DEF IInv, Flags, StoppedFirst, Goto, Return, outside, loops, Abstract!Next, Abstract!Stop,
            Abstract!Release, Abstract!GiveUp
<1>1. CASE StopAnswered \/ StopRaises
  BY <1>1 DEF StopAnswered, StopRaises
<1>2. CASE StoppedAfterAll \/ StatusFails \/ RetryRequest \/ RequestsExhausted
  BY <1>2 DEF StoppedAfterAll, StatusFails, RetryRequest, RequestsExhausted
<1>3. CASE ResolveFile \/ ResolveRaises \/ NoFileReturned
  BY <1>3 DEF ResolveFile, ResolveRaises, NoFileReturned
<1>4. CASE FileReturned \/ VerifiedStopped
  BY <1>4 DEF FileReturned, VerifiedStopped
<1>5. CASE StillRecording
  BY <1>5 DEF StillRecording
<1>6. CASE UNCHANGED vars
  BY <1>6 DEF vars
<1> QED
  BY <1>1, <1>2, <1>3, <1>4, <1>5, <1>6 DEF Next

\* The stop handler implements what module Recorder takes it for.
THEOREM Refinement == Spec => ImplementsStop
<1>1. Init => Abstract!Init
  BY DEF Init, Abstract!Init
<1>2. IInv /\ [Next]_vars => [Abstract!Next]_<<rolling, isRecording, pc # "done">>
  BY StepRefines
<1> QED
  BY <1>1, <1>2, Invariant, PTL DEF Spec, ImplementsStop, Abstract!Spec

-----------------------------------------------------------------------------
\* The attempts to come are a number, and so are the steps from here.
LEMMA AttemptsNat == Counters => AttemptsToCome \in Nat
<1> SUFFICES ASSUME Counters PROVE AttemptsToCome \in Nat
  OBVIOUS
<1>1. /\ StopFinalizeAttempts - round \in Nat
      /\ StopRecordAttempts - attempt \in Nat
      /\ StopRecordAttempts \in Nat
  BY AttemptsAssumption DEF Counters
<1>2. \A m, n \in Nat : m * n \in Nat
  OBVIOUS
<1>3. (StopFinalizeAttempts - round) * StopRecordAttempts \in Nat
  BY <1>1, <1>2
<1>4. \A m, n \in Nat : m + n \in Nat
  OBVIOUS
<1> QED
  BY <1>1, <1>3, <1>4 DEF AttemptsToCome

LEMMA StepsNat == Flags => StepsFromHere \in 0..5
BY DEF Flags, Place, StepsFromHere

\* Another attempt is one less to come (obs_client.py:131).
LEMMA AttemptCounted ==
    ASSUME Counters, RetryRequest PROVE AttemptsToCome' = AttemptsToCome - 1
<1>1. round' = round /\ attempt' = attempt + 1
  BY DEF RetryRequest
<1>2. (StopFinalizeAttempts - round) * StopRecordAttempts \in Int
  BY AttemptsAssumption DEF Counters
<1>3. attempt \in Int /\ StopRecordAttempts \in Int
  BY AttemptsAssumption DEF Counters
<1>4. AttemptsToCome' =
        (StopFinalizeAttempts - round) * StopRecordAttempts + (StopRecordAttempts - (attempt + 1))
  BY <1>1 DEF AttemptsToCome
<1> QED
  BY <1>2, <1>3, <1>4 DEF AttemptsToCome

\* Another round starts the attempts over, and is at least one attempt less to
\* come (recorder.py:219).
LEMMA RoundCounted ==
    ASSUME Counters, round' = round + 1, attempt' = 1
    PROVE  AttemptsToCome' <= AttemptsToCome - 1
<1> DEFINE later == (StopFinalizeAttempts - (round + 1)) * StopRecordAttempts
<1>1. /\ StopFinalizeAttempts \in Int /\ StopRecordAttempts \in Int
      /\ round \in Int /\ attempt \in Int
      /\ attempt <= StopRecordAttempts
  BY AttemptsAssumption DEF Counters
<1>2. (StopFinalizeAttempts - round) * StopRecordAttempts = later + StopRecordAttempts
  <2>1. \A m, n \in Int : m * n = (m - 1) * n + n
    OBVIOUS
  <2>2. (StopFinalizeAttempts - round) - 1 = StopFinalizeAttempts - (round + 1)
    BY <1>1
  <2>3. StopFinalizeAttempts - round \in Int
    BY <1>1
  <2> QED
    BY <1>1, <2>1, <2>2, <2>3
<1>3. later \in Int
  BY <1>1
<1>4. AttemptsToCome' = later + (StopRecordAttempts - 1)
  BY DEF AttemptsToCome
<1>5. AttemptsToCome = later + StopRecordAttempts + (StopRecordAttempts - attempt)
  BY <1>1, <1>2, <1>3 DEF AttemptsToCome
<1> HIDE DEF later
<1> QED
  BY <1>1, <1>3, <1>4, <1>5

\* Within an attempt every step leads nearer to its end.
LEMMA StepCounted ==
    ASSUME Counters, Flags, Next, UNCHANGED <<attempt, round>>
    PROVE  StepsFromHere' < StepsFromHere
<1> USE DEF Goto, Return, StepsFromHere, outside, loops
<1>1. ~RetryRequest
  BY DEF RetryRequest, Counters
<1>2. CASE StopAnswered \/ StopRaises
  BY <1>2 DEF StopAnswered, StopRaises
<1>3. CASE StoppedAfterAll \/ StatusFails \/ RequestsExhausted
  BY <1>3 DEF StoppedAfterAll, StatusFails, RequestsExhausted
<1>4. CASE ResolveFile \/ ResolveRaises
  BY <1>4 DEF ResolveFile, ResolveRaises
<1>5. CASE FileReturned \/ NoFileReturned \/ VerifiedStopped
  BY <1>5 DEF FileReturned, NoFileReturned, VerifiedStopped
<1>6. CASE StillRecording
  BY <1>6 DEF StillRecording, Counters
<1> QED
  BY <1>1, <1>2, <1>3, <1>4, <1>5, <1>6 DEF Next

\* An attempt is worth more than the places within it.
LEMMA Weights ==
    ASSUME NEW a \in Nat, NEW b \in Nat, NEW h \in 0..5, NEW k \in 0..5,
           (b = a /\ k < h) \/ b <= a - 1,
           NEW now, now = 6 * a + h, NEW next, next = 6 * b + k
    PROVE  next \in 0..(now - 1)
OBVIOUS

\* Every step of the handler uses up a part of what is left of the loops.
LEMMA StepUsed == IInv /\ IInv' /\ [Next]_vars => [StepsLeft' \in 0..(StepsLeft - 1)]_vars
<1> SUFFICES ASSUME IInv, IInv', Next PROVE StepsLeft' \in 0..(StepsLeft - 1)
  OBVIOUS
<1>1. /\ AttemptsToCome \in Nat /\ AttemptsToCome' \in Nat
      /\ StepsFromHere \in 0..5 /\ StepsFromHere' \in 0..5
  <2>1. Counters /\ Flags /\ Counters' /\ Flags'
    BY DEF IInv
  <2>2. (Counters => AttemptsToCome \in Nat)' /\ (Flags => StepsFromHere \in 0..5)'
    BY AttemptsNat, StepsNat, PTL
  <2> QED
    BY <2>1, <2>2, AttemptsNat, StepsNat
<1>2. \/ AttemptsToCome' = AttemptsToCome /\ StepsFromHere' < StepsFromHere
      \/ AttemptsToCome' <= AttemptsToCome - 1
  <2>1. CASE UNCHANGED <<attempt, round>>
    <3>1. AttemptsToCome' = AttemptsToCome
      BY <2>1 DEF AttemptsToCome
    <3>2. StepsFromHere' < StepsFromHere
      BY <2>1, StepCounted DEF IInv
    <3> QED
      BY <3>1, <3>2
  <2>2. CASE RetryRequest
    BY <1>1, <2>2, AttemptCounted DEF IInv
  <2>3. CASE StillRecording /\ ~UNCHANGED <<attempt, round>>
    BY <2>3, RoundCounted DEF StillRecording, IInv
  <2> QED
    BY <2>1, <2>2, <2>3
    DEF Next, loops, StopAnswered, StopRaises, StoppedAfterAll, StatusFails, RequestsExhausted,
        ResolveFile, ResolveRaises, FileReturned, NoFileReturned, VerifiedStopped
<1>3. /\ StepsLeft = 6 * AttemptsToCome + StepsFromHere
      /\ StepsLeft' = 6 * AttemptsToCome' + StepsFromHere'
  BY Zenon DEF StepsLeft
<1> QED
  BY <1>1, <1>2, <1>3, Weights

\* The provable half of StopHandlerEnds: whatever is lost, the stop handler has
\* no way to go round its loops without using them up (obs_client.py:131-164,
\* recorder.py:219-242), for every number of attempts.
THEOREM StopUsesUpSteps == Spec => StepsRunOut
<1>1. IInv /\ IInv' /\ [Next]_vars => [StepsLeft' \in 0..(StepsLeft - 1)]_vars
  BY StepUsed
<1> QED
  BY <1>1, Invariant, PTL DEF Spec, StepsRunOut
=============================================================================
