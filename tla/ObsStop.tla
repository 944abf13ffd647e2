------------------------------ MODULE ObsStop ------------------------------
(***************************************************************************)
(* Stopping OBS: Recorder._stop_obs_with_retries around                     *)
(* ObsClientReal.stop_record, request by request.  OBS may answer a         *)
(* request, refuse it, or carry it out and have the answer lost; a status   *)
(* request may fail as well.  The connection was made when the take began   *)
(* (_connect keeps the client), so a lost one shows as failing requests.    *)
(*                                                                          *)
(* Module Recorder takes all this as one step with three outcomes; that     *)
(* there are no others is the property ImplementsStop.                      *)
(***************************************************************************)
EXTENDS Integers

CONSTANTS
    StopRecordAttempts,     \* STOP_RECORD_ATTEMPTS of obs_client.py
    StopFinalizeAttempts    \* STOP_FINALIZE_ATTEMPTS of recorder.py

ASSUME AttemptsAssumption ==
    /\ StopRecordAttempts \in Nat \ {0}
    /\ StopFinalizeAttempts \in Nat \ {0}

VARIABLES
    rolling,        \* is OBS recording?
    isRecording,    \* Recorder._is_recording
    pc,
    attempt,        \* of the loop in stop_record
    round,          \* of the loop in _stop_obs_with_retries
    staged          \* did stop_record return a file?

vars == <<rolling, isRecording, pc, attempt, round, staged>>
outside == <<rolling, isRecording>>
loops == <<attempt, round, staged>>

Place == {"request", "status", "resolve", "returned", "verify", "done"}

TypeOK ==
    /\ rolling \in BOOLEAN
    /\ isRecording \in BOOLEAN
    /\ pc \in Place
    /\ attempt \in 1..StopRecordAttempts
    /\ round \in 1..StopFinalizeAttempts
    /\ staged \in BOOLEAN

\* _on_stop with is_recording; a status request may have been lost before.
Init ==
    /\ rolling \in BOOLEAN
    /\ isRecording = TRUE
    /\ pc = "request"
    /\ attempt = 1
    /\ round = 1
    /\ staged = FALSE

Goto(from, to) == pc = from /\ pc' = to

\* stop_record returns None or a path.
Return(from, found) == Goto(from, "returned") /\ staged' = found

-----------------------------------------------------------------------------
(* ObsClientReal.stop_record                                                *)

\* OBS refuses a StopRecord when it is not recording.
StopAnswered ==
    /\ rolling
    /\ Goto("request", "resolve")
    /\ rolling' = FALSE
    /\ UNCHANGED <<isRecording, loops>>

\* Refused, or carried out with the answer lost.
StopRaises ==
    /\ Goto("request", "status")
    /\ UNCHANGED rolling \/ rolling' = FALSE
    /\ UNCHANGED <<isRecording, loops>>

\* self.is_recording() after the error says no: the file is looked for.
StoppedAfterAll ==
    /\ ~rolling
    /\ Goto("status", "resolve")
    /\ UNCHANGED <<outside, loops>>

\* Mutant of StatusFails: an unanswered status request means stopped.
StatusFailsStopped ==
    /\ Goto("status", "done")
    /\ isRecording' = FALSE
    /\ UNCHANGED <<rolling, loops>>

StatusFails ==
    /\ Return("status", FALSE)
    /\ UNCHANGED <<outside, attempt, round>>

\* Mutant of RetryRequest: the attempt is not counted.
RetryUncounted ==
    /\ rolling
    /\ attempt < StopRecordAttempts
    /\ Goto("status", "request")
    /\ UNCHANGED <<outside, loops>>

RetryRequest ==
    /\ rolling
    /\ attempt < StopRecordAttempts
    /\ Goto("status", "request")
    /\ attempt' = attempt + 1
    /\ UNCHANGED <<outside, round, staged>>

\* Mutant of RequestsExhausted: the folder is searched though OBS still records.
ExhaustedResolves ==
    /\ rolling
    /\ attempt = StopRecordAttempts
    /\ Goto("status", "resolve")
    /\ UNCHANGED <<outside, loops>>

RequestsExhausted ==
    /\ rolling
    /\ attempt = StopRecordAttempts
    /\ Return("status", FALSE)
    /\ UNCHANGED <<outside, attempt, round>>

\* output_path, or wait_for_stable_file, which may time out.
ResolveFile ==
    /\ \E found \in BOOLEAN : Return("resolve", found)
    /\ UNCHANGED <<outside, attempt, round>>

\* A file vanishes between iterdir and stat (OBS remuxes): the OSError goes
\* through _stop_obs_with_retries to _on_stop, and the recorder stays active.
ResolveRaises ==
    /\ Goto("resolve", "done")
    /\ UNCHANGED <<outside, loops>>

-----------------------------------------------------------------------------
(* Recorder._stop_obs_with_retries                                          *)

\* A path is taken as proof that OBS has stopped.
FileReturned ==
    /\ staged
    /\ Goto("returned", "done")
    /\ isRecording' = FALSE
    /\ UNCHANGED <<rolling, loops>>

NoFileReturned ==
    /\ ~staged
    /\ Goto("returned", "verify")
    /\ UNCHANGED <<outside, loops>>

\* _obs_still_recording says no.
VerifiedStopped ==
    /\ ~rolling
    /\ Goto("verify", "done")
    /\ isRecording' = FALSE
    /\ UNCHANGED <<rolling, loops>>

\* It says yes, or could not ask: another round, or the recorder stays active.
\* Mutant of StillRecording: the rounds are not counted back.
StillRecordingOver ==
    /\ round' = round + 1
    /\ attempt' = 1
    /\ Goto("verify", IF round < StopFinalizeAttempts THEN "request" ELSE "done")
    /\ UNCHANGED <<outside, staged>>

StillRecording ==
    /\ UNCHANGED <<outside, staged>>
    /\ \/ /\ round < StopFinalizeAttempts
          /\ Goto("verify", "request")
          /\ round' = round + 1
          /\ attempt' = 1
       \/ /\ round = StopFinalizeAttempts
          /\ Goto("verify", "done")
          /\ UNCHANGED <<attempt, round>>

Next ==
    \/ StopAnswered \/ StopRaises
    \/ StoppedAfterAll \/ StatusFails \/ RetryRequest \/ RequestsExhausted
    \/ ResolveFile \/ ResolveRaises
    \/ FileReturned \/ NoFileReturned \/ VerifiedStopped \/ StillRecording

Spec == Init /\ [][Next]_vars

\* Every request ends by its answer or its 5 s timeout.
FairSpec == Spec /\ WF_vars(Next)

-----------------------------------------------------------------------------
\* The recorder lets go of a take only when OBS has stopped, whatever answers
\* were lost (recorder.py:222 and 225 on what obs_client.py:125-177 returned).
ReleasedMeansStopped == ~isRecording => ~rolling

\* Whatever the answers, the handler has no outcome but those module Recorder
\* is written with.
Abstract == INSTANCE StopOutcome WITH busy <- (pc # "done")
ImplementsStop == Abstract!Spec

\* What the handler can still do at most: six steps for each attempt to come, in
\* this round and in the later ones, and those from where it is.
AttemptsToCome ==
    (StopFinalizeAttempts - round) * StopRecordAttempts + (StopRecordAttempts - attempt)

StepsFromHere ==
    CASE pc = "request" -> 5
      [] pc = "status" -> 4
      [] pc = "resolve" -> 3
      [] pc = "returned" -> 2
      [] pc = "verify" -> 1
      [] pc = "done" -> 0

StepsLeft == 6 * AttemptsToCome + StepsFromHere

\* No way through the two loops repeats itself, whatever is lost: every request,
\* every status request and every return uses up a part of what is left
\* (obs_client.py:131-164 inside recorder.py:219-242, with their early exits).
StepsRunOut == [][StepsLeft' \in 0..(StepsLeft - 1)]_vars

\* The stop handler ends: the worker is free for the next callback.
StopHandlerEnds == <>(pc = "done")
=============================================================================
